---------------------------- MODULE MCHostProofs ----------------------------
(***************************************************************************)
(* What the host keeps over several lives.  For any number of starters,    *)
(* versions, hosts and mishaps, one starter at a time is inside the lock,  *)
(* unless a live starter's lock was unlinked, and never two hosts are      *)
(* booting or up, but for what Singleton excuses (HostLaunch); for any     *)
(* number of hosts, children, orders and sessions, each transcript has one *)
(* writer (SpawnRecovery), the order books are complete and an order that  *)
(* is over is notified once (OrderLedger).  The three parts share no       *)
(* variable, so each is proved from its own specification, and every       *)
(* behaviour in which parts take steps in turn is one of each.             *)
(***************************************************************************)
EXTENDS MCHost, FiniteSetTheorems, TLAPS

-----------------------------------------------------------------------------
(***************************************************************************)
(* HostLaunch: the launches of the host, by any number of starters.        *)
(***************************************************************************)
PCs == {"idle", "look", "ping", "reap", "open", "write", "judge", "unlink", "spawn", "await",
        "returned"}
Phases == {"none", "fast", "queue", "last", "inside"}

(* The part of the types the lock depends on. *)
LockTypes == died \in BOOLEAN /\ pc \in [Starters -> PCs] /\ phase \in [Starters -> Phases]

(* Where a starter can be once it is inside. *)
PhasesFollow ==
    \A s \in Starters :
        /\ pc[s] \in {"write", "spawn", "await"} => phase[s] = "inside"
        /\ phase[s] = "inside" => pc[s] \in {"write", "look", "ping", "reap", "spawn", "await"}

(* A dead holder, and a starter about to unlink its lock, need a death. *)
DeathsCounted ==
    /\ lock = "dead" => died
    /\ \A s \in Starters : pc[s] = "unlink" => died
    /\ "stolen lock" \in excused => died

(* Until a lock is stolen, the file says who is inside: empty between the two
   steps of acquireLock, then the holder's pid. *)
LockHeld ==
    "stolen lock" \notin excused =>
        /\ \A s \in Starters : phase[s] = "inside" =>
             lock = IF pc[s] = "write" THEN "empty" ELSE s
        /\ \A s, t \in Starters : phase[s] = "inside" /\ phase[t] = "inside" => s = t

LockInv == LockTypes /\ PhasesFollow /\ DeathsCounted /\ LockHeld

-----------------------------------------------------------------------------

LEMMA LockInit == Init => LockInv
  BY StartersAssumption DEF Init, LockInv, LockTypes, PCs, Phases, PhasesFollow,
                            DeathsCounted, LockHeld

(* Go moves one starter and no other. *)
LEMMA Moved ==
  ASSUME LockTypes, NEW s \in Starters, NEW p \in PCs, NEW ph \in Phases, NEW h, Go(s, p, ph, h)
  PROVE  /\ pc' \in [Starters -> PCs] /\ phase' \in [Starters -> Phases]
         /\ pc'[s] = p /\ phase'[s] = ph
         /\ \A t \in Starters : t # s => pc'[t] = pc[t] /\ phase'[t] = phase[t]
  BY DEF LockTypes, Go

(* A starter moves on without touching the lock: it does not get inside, and if
   it stays there it has written its pid. *)
LEMMA MovesOn ==
  ASSUME LockInv, NEW s \in Starters, NEW p \in PCs, NEW ph \in Phases, NEW h, Go(s, p, ph, h),
         lock' = lock, died' = died,
         "stolen lock" \in excused' <=> "stolen lock" \in excused,
         ph = "inside" => /\ phase[s] = "inside" /\ pc[s] # "write"
                          /\ p \in {"look", "ping", "reap", "spawn", "await"},
         p \in {"write", "spawn", "await"} => ph = "inside",
         p = "unlink" => lock = "dead"
  PROVE  LockInv'
<1> USE DEF LockInv
<1>0. /\ pc' \in [Starters -> PCs] /\ phase' \in [Starters -> Phases]
      /\ pc'[s] = p /\ phase'[s] = ph
      /\ \A t \in Starters : t # s => pc'[t] = pc[t] /\ phase'[t] = phase[t]
  BY Moved
<1>1. LockTypes'
  BY <1>0 DEF LockTypes
<1>2. PhasesFollow'
  BY <1>0 DEF PhasesFollow
<1>3. DeathsCounted'
  BY <1>0 DEF DeathsCounted
<1>4. LockHeld'
  <2>1. \A t \in Starters : phase'[t] = "inside" =>
          phase[t] = "inside" /\ (pc'[t] = "write" <=> pc[t] = "write")
    BY <1>0
  <2> QED
    BY <2>1 DEF LockHeld
<1> QED
  BY <1>1, <1>2, <1>3, <1>4

(* A starter comes out and unlinks the path: its own lock, or one that replaced
   it after a theft. *)
LEMMA ComesOut ==
  ASSUME LockInv, NEW s \in Starters, NEW p \in {"idle", "returned"}, NEW h,
         phase[s] = "inside", pc[s] # "write", Go(s, p, "none", h), lock' = "free",
         died' = died,
         "stolen lock" \in excused' <=> "stolen lock" \in excused \/ lock # s
  PROVE  LockInv'
<1> USE DEF LockInv
<1>0. /\ pc' \in [Starters -> PCs] /\ phase' \in [Starters -> Phases]
      /\ pc'[s] = p /\ phase'[s] = "none"
      /\ \A t \in Starters : t # s => pc'[t] = pc[t] /\ phase'[t] = phase[t]
  <2>1. p \in PCs /\ "none" \in Phases
    BY DEF PCs, Phases
  <2> QED
    BY <2>1, Moved
<1>1. LockTypes'
  BY <1>0 DEF LockTypes
<1>2. PhasesFollow'
  BY <1>0 DEF PhasesFollow
<1>3. lock # s => "stolen lock" \in excused
  BY DEF LockHeld
<1>4. DeathsCounted'
  <2>2. \A t \in Starters : pc'[t] = "unlink" => pc[t] = "unlink"
    BY <1>0
  <2> QED
    BY <1>3, <2>2 DEF DeathsCounted
<1>5. LockHeld'
  BY <1>0, <1>3 DEF LockHeld
<1> QED
  BY <1>1, <1>2, <1>4, <1>5

-----------------------------------------------------------------------------
(* The steps that move on. *)
LEMMA MovingStep ==
  ASSUME LockInv, NEW s \in Starters,
         \/ ensureHost(s) \/ Look(s) \/ Reap(s) \/ JudgeLock(s) \/ spawnHost(s) \/ Quit(s)
  PROVE  LockInv'
<1> USE DEF PCs, Phases, files, processes, bounds
<1>0. phase[s] \in Phases /\ (pc[s] \in {"spawn", "await"} => phase[s] = "inside")
      /\ (phase[s] = "inside" => pc[s] \in {"write", "look", "ping", "reap", "spawn", "await"})
  BY DEF LockInv, LockTypes, PhasesFollow
<1>1. CASE ensureHost(s)
  BY <1>0, <1>1, MovesOn DEF ensureHost
<1>m. ASSUME Missed(s), pc[s] \in {"look", "ping", "reap"}, lock' = lock, died' = died,
             "stolen lock" \in excused' <=> "stolen lock" \in excused
      PROVE  LockInv'
  <2>1. CASE phase[s] = "inside"
    BY <1>m, <2>1, MovesOn DEF Missed
  <2>2. CASE phase[s] = "last"
    BY <1>m, <2>2, MovesOn DEF Missed
  <2>3. CASE phase[s] \notin {"inside", "last"}
    BY <1>0, <1>m, <2>3, MovesOn DEF Missed
  <2> QED
    BY <2>1, <2>2, <2>3
<1>2. CASE Look(s)
  <2>1. CASE isAlive(manifest)
    BY <1>0, <1>2, <2>1, MovesOn DEF Look
  <2>2. CASE ~isAlive(manifest)
    BY <1>2, <2>2, <1>m DEF Look
  <2> QED
    BY <2>1, <2>2
<1>3. CASE Reap(s)
  BY <1>3, <1>m DEF Reap, clearManifest
<1>4. CASE JudgeLock(s)
  <2>0. phase[s] # "inside"
    BY <1>0, <1>4 DEF JudgeLock
  <2>1. CASE lock = "dead"
    BY <1>0, <1>4, <2>0, <2>1, MovesOn DEF JudgeLock
  <2>2. CASE lock # "dead"
    <3>1. PICK ph \in {"queue", "last"} : Go(s, "look", ph, 0)
      BY <1>4, <2>2 DEF JudgeLock
    <3> QED
      BY <1>4, <3>1, MovesOn DEF JudgeLock
  <2> QED
    BY <2>1, <2>2
<1>5. CASE spawnHost(s)
  BY <1>0, <1>5, MovesOn DEF spawnHost, clearManifest
<1>6. CASE Quit(s)
  <2>1. CASE Go(s, "idle", "none", 0)
    BY <1>6, <2>1, MovesOn DEF Quit
  <2>2. CASE Go(s, "reap", "last", manifest)
    BY <1>6, <2>2, MovesOn DEF Quit
  <2> QED
    BY <1>6, <2>1, <2>2 DEF Quit
<1> QED
  BY <1>1, <1>2, <1>3, <1>4, <1>5, <1>6

(* A ping: the starter misses, terminates what it found, or returns, out of the
   lock if it was inside. *)
LEMMA PingStep == ASSUME LockInv, NEW s \in Starters, Ping(s) PROVE LockInv'
<1> USE DEF PCs, Phases, processes
<1>0. phase[s] \in Phases /\ pc[s] = "ping"
  BY DEF LockInv, LockTypes, Ping
<1>1. CASE Go(s, "returned", "none", held[s]) /\ phase[s] = "inside" /\ release(s)
  <2>1. died' = died
    BY DEF Ping
  <2>2. lock' = "free" /\ ("stolen lock" \in excused' <=> "stolen lock" \in excused \/ lock # s)
    BY <1>1 DEF release
  <2> HIDE DEF PCs, Phases
  <2> QED
    BY <1>0, <1>1, <2>1, <2>2, ComesOut
<1>2. CASE Go(s, "returned", "none", held[s]) /\ UNCHANGED <<lock, excused>>
  BY <1>0, <1>2, MovesOn DEF Ping
<1>3. CASE Go(s, "reap", phase[s], held[s]) /\ UNCHANGED <<lock, excused>>
  BY <1>0, <1>3, MovesOn DEF Ping
<1>4. CASE Unanswered(s)
  <2>0. /\ Missed(s) /\ lock' = lock /\ died' = died
        /\ "stolen lock" \in excused' <=> "stolen lock" \in excused
    BY <1>4 DEF Ping, Unanswered
  <2>1. CASE phase[s] = "inside"
    BY <1>0, <1>4, <2>0, <2>1, MovesOn DEF Missed
  <2>2. CASE phase[s] = "last"
    BY <1>0, <1>4, <2>0, <2>2, MovesOn DEF Missed
  <2>3. CASE phase[s] \notin {"inside", "last"}
    BY <1>0, <1>4, <2>0, <2>3, MovesOn DEF Missed
  <2> QED
    BY <2>1, <2>2, <2>3
<1> QED
  BY <1>1, <1>2, <1>3, <1>4 DEF Ping

(* The steps out of the lock. *)
LEMMA LeavingStep ==
  ASSUME LockInv, NEW s \in Starters, GivesUp(s) \/ HostCameUp(s) \/ HostDidNotStart(s)
  PROVE  LockInv'
<1> USE DEF processes
<1>0. phase[s] = "inside" /\ pc[s] # "write"
  BY DEF LockInv, LockTypes, PhasesFollow, GivesUp, HostCameUp, HostDidNotStart
<1>1. CASE GivesUp(s)
  <2>1. /\ lock' = "free" /\ died' = died /\ Go(s, "idle", "none", 0)
        /\ ("stolen lock" \in excused' <=> "stolen lock" \in excused \/ lock # s)
    BY <1>1 DEF GivesUp, release
  <2> QED
    BY <1>0, <2>1, ComesOut
<1>2. CASE HostCameUp(s)
  <2>1. /\ lock' = "free" /\ died' = died /\ Go(s, "returned", "none", manifest)
        /\ ("stolen lock" \in excused' <=> "stolen lock" \in excused \/ lock # s)
    BY <1>2 DEF HostCameUp, release
  <2> QED
    BY <1>0, <2>1, ComesOut
<1>3. CASE HostDidNotStart(s)
  <2>1. /\ lock' = "free" /\ died' = died /\ Go(s, "idle", "none", 0)
        /\ ("stolen lock" \in excused' <=> "stolen lock" \in excused \/ lock # s)
    BY <1>3 DEF HostDidNotStart
  <2> QED
    BY <1>0, <2>1, ComesOut
<1> QED
  BY <1>1, <1>2, <1>3

(* The file is created empty: nobody is inside. *)
LEMMA OpenLockStep == ASSUME LockInv, NEW s \in Starters, OpenLock(s) PROVE LockInv'
<1> USE DEF PCs, Phases, processes, bounds
<1>0. phase[s] \in Phases /\ pc[s] = "open" /\ phase[s] # "inside"
  BY DEF LockInv, LockTypes, PhasesFollow, OpenLock
<1>1. CASE lock = "free"
  <2>1. Go(s, "write", "inside", 0) /\ lock' = "empty" /\ UNCHANGED bounds
    BY <1>1 DEF OpenLock
  <2>2. LockTypes'
    BY <2>1, Moved DEF LockInv, LockTypes
  <2>3. PhasesFollow'
    BY <2>1, Moved DEF LockInv, PhasesFollow
  <2>4. DeathsCounted'
    BY <2>1, Moved DEF LockInv, DeathsCounted
  <2>5. "stolen lock" \notin excused => \A t \in Starters : phase[t] # "inside"
    BY <1>1, StartersAssumption DEF LockInv, LockHeld
  <2>6. LockHeld'
    BY <2>1, <2>5, Moved, ZenonT(60) DEF LockInv, LockHeld
  <2> QED
    BY <2>2, <2>3, <2>4, <2>6 DEF LockInv
<1>2. CASE lock # "free"
  BY <1>0, <1>2, MovesOn DEF OpenLock
<1> QED
  BY <1>1, <1>2

(* The pid is written into the file this starter created. *)
LEMMA WriteLockStep == ASSUME LockInv, NEW s \in Starters, WriteLock(s) PROVE LockInv'
<1> USE DEF PCs, Phases, bounds
<1>1. Go(s, "look", "inside", 0) /\ lock' = s /\ UNCHANGED bounds
  BY DEF WriteLock
<1>2. phase[s] = "inside"
  BY DEF LockInv, PhasesFollow, WriteLock
<1>3. LockTypes'
  BY <1>1, Moved DEF LockInv, LockTypes
<1>4. PhasesFollow'
  BY <1>1, Moved DEF LockInv, PhasesFollow
<1>5. DeathsCounted'
  BY <1>1, StartersAssumption, Moved DEF LockInv, DeathsCounted
<1>6. LockHeld'
  <2>0. /\ pc' \in [Starters -> PCs] /\ phase' \in [Starters -> Phases]
        /\ pc'[s] = "look" /\ phase'[s] = "inside"
        /\ \A t \in Starters : t # s => pc'[t] = pc[t] /\ phase'[t] = phase[t]
    BY <1>1, Moved DEF LockInv
  <2>1. \A t \in Starters : phase'[t] = "inside" => phase[t] = "inside"
    BY <1>2, <2>0
  <2>2. "stolen lock" \notin excused => \A t \in Starters : phase[t] = "inside" => t = s
    BY <1>2 DEF LockInv, LockHeld
  <2> QED
    BY <1>1, <2>0, <2>1, <2>2 DEF LockHeld, bounds
<1> QED
  BY <1>3, <1>4, <1>5, <1>6 DEF LockInv

(* The reclaim: what it unlinks is a dead starter's lock, or the theft. *)
LEMMA UnlinkLockStep == ASSUME LockInv, NEW s \in Starters, UnlinkLock(s) PROVE LockInv'
<1> USE DEF PCs, Phases
<1>1. /\ Go(s, "open", phase[s], 0) /\ lock' = "free" /\ died' = died
      /\ "stolen lock" \in excused' <=>
           "stolen lock" \in excused \/ lock \notin {"free", "dead"}
  BY DEF UnlinkLock
<1>2. pc[s] = "unlink" /\ phase[s] \in Phases /\ phase[s] # "inside"
  BY DEF LockInv, LockTypes, PhasesFollow, UnlinkLock
<1>0. /\ pc' \in [Starters -> PCs] /\ phase' \in [Starters -> Phases]
      /\ pc'[s] = "open" /\ phase'[s] = phase[s]
      /\ \A t \in Starters : t # s => pc'[t] = pc[t] /\ phase'[t] = phase[t]
  BY <1>1, <1>2, Moved DEF LockInv
<1>3. LockTypes'
  BY <1>0, <1>1 DEF LockInv, LockTypes
<1>4. PhasesFollow'
  BY <1>0, <1>2 DEF LockInv, PhasesFollow
<1>5. DeathsCounted'
  BY <1>0, <1>1, <1>2 DEF LockInv, DeathsCounted
<1>6. "stolen lock" \notin excused' => \A t \in Starters : phase[t] # "inside"
  BY <1>1, StartersAssumption DEF LockInv, LockHeld
<1>7. LockHeld'
  BY <1>0, <1>2, <1>6 DEF LockHeld
<1> QED
  BY <1>3, <1>4, <1>5, <1>7 DEF LockInv

(* A death inside leaves the lock behind: dead, or empty for good. *)
LEMMA StarterDiesStep == ASSUME LockInv, NEW s \in Starters, StarterDies(s) PROVE LockInv'
<1> USE DEF PCs, Phases
<1>1. /\ Go(s, "idle", "none", 0) /\ died' = TRUE
      /\ lock' = IF lock = s THEN "dead" ELSE lock
      /\ "stolen lock" \in excused' <=> "stolen lock" \in excused
  BY DEF StarterDies
<1>0. /\ pc' \in [Starters -> PCs] /\ phase' \in [Starters -> Phases]
      /\ pc'[s] = "idle" /\ phase'[s] = "none"
      /\ \A t \in Starters : t # s => pc'[t] = pc[t] /\ phase'[t] = phase[t]
  BY <1>1, Moved DEF LockInv
<1>3. LockTypes'
  BY <1>0, <1>1 DEF LockTypes
<1>4. PhasesFollow'
  BY <1>0 DEF LockInv, PhasesFollow
<1>5. DeathsCounted'
  BY <1>1 DEF DeathsCounted
<1>6. LockHeld'
  <2>1. \A t \in Starters : phase'[t] = "inside" =>
          t # s /\ phase[t] = "inside" /\ pc'[t] = pc[t]
    BY <1>0
  <2> QED
    BY <1>1, <2>1, StartersAssumption DEF LockInv, LockHeld
<1> QED
  BY <1>3, <1>4, <1>5, <1>6 DEF LockInv

(* The hosts' steps touch neither the lock nor the starters. *)
LEMMA HostStep ==
  ASSUME LockInv, NEW h \in Hosts, Listens(h) \/ Ready(h) \/ Exits(h) \/ HostFault(h)
  PROVE  LockInv'
<1>1. /\ lock' = lock /\ pc' = pc /\ phase' = phase /\ died' = died
      /\ "stolen lock" \in excused' <=> "stolen lock" \in excused
  BY DEF Listens, Ready, Exits, HostFault, clearManifest, files, starter, bounds
<1> QED
  BY <1>1 DEF LockInv, LockTypes, PhasesFollow, DeathsCounted, LockHeld

LEMMA LockStep == LockInv /\ [Next]_vars => LockInv'
<1> SUFFICES ASSUME LockInv, [Next]_vars PROVE LockInv'
  OBVIOUS
<1>1. CASE Next
  BY <1>1, MovingStep, PingStep, LeavingStep, OpenLockStep, WriteLockStep, UnlinkLockStep,
     StarterDiesStep, HostStep DEF Next
<1>2. CASE UNCHANGED vars
  BY <1>2 DEF vars, files, processes, starter, bounds, LockInv, LockTypes,
              PhasesFollow, DeathsCounted, LockHeld
<1> QED
  BY <1>1, <1>2

(* The inductive invariant: until a lock is stolen, the lock file tells who is inside,
   and only a death leads to a theft. *)
THEOREM LockInductive == Spec => []LockInv
<1> QED
  BY LockInit, LockStep, PTL DEF Spec

(* A set whose elements are all the same has at most one. *)
LEMMA AtMostOne ==
  ASSUME NEW S, \A x, y \in S : x = y
  PROVE  Cardinality(S) <= 1
<1>1. CASE S = {}
  BY <1>1, FS_EmptySet
<1>2. CASE S # {}
  <2>1. PICK x \in S : S = {x}
    BY <1>2
  <2>2. Cardinality(S) = 1
    BY <2>1, FS_Singleton
  <2> QED
    BY <2>2
<1> QED
  BY <1>1, <1>2

(* Mutual exclusion of the spawn path, for any number of launchers: two are inside
   only after a live starter's lock was unlinked, and that only after a death. *)
THEOREM SpawnersExclude == Spec => []OneSpawner
<1>1. LockInv => OneSpawner
  BY AtMostOne DEF LockInv, DeathsCounted, LockHeld, OneSpawner, Inside
<1> QED
  BY <1>1, LockInductive, PTL

-----------------------------------------------------------------------------
(* The one host.                                                           *)

(* No file and no starter names a host that was never spawned. *)
HostsKnown ==
    /\ manifest # 0 => host[manifest] # "none"
    /\ \A s \in Starters : held[s] # 0 => host[held[s]] # "none"

MaySpawn == \A s \in Starters : pc[s] = "await" => spawnFailures[s] < MAX_SPAWN_FAILURES

(* A host on its way up has a starter that waits for it, and no manifest yet. *)
BootAwaited == Booting # {} => manifest = 0 /\ \E s \in Starters : pc[s] = "await"

(* Whatever comes up during the wait is of the waiting starter's version. *)
AwaitsItsVersion ==
    \A s \in Starters : pc[s] = "await" =>
        /\ \A h \in Booting : built[h] = Version[s]
        /\ manifest # 0 => built[manifest] = Version[s]

(* Inside the lock a host that is up is the one about to be pinged, and the spawn
   is not reached. *)
AdoptsInside ==
    \A s \in Starters, h \in ReadyHosts :
        /\ pc[s] = "ping" /\ phase[s] = "inside" => held[s] = h
        /\ pc[s] # "spawn"

Alone == \A g, h \in Booting \cup ReadyHosts : g = h

Orderly ==
    /\ BootAwaited
    /\ AwaitsItsVersion
    /\ AdoptsInside
    /\ Alone
    /\ ReadyIsFound
    /\ RightVersion

LaunchesKept == HostsKnown /\ MaySpawn /\ (excused = {} => Orderly)

HostInv == TypeOK /\ LockInv /\ LaunchesKept

(* The hosts only go: a step after which each is as it was, or stopping or gone. *)
Falls ==
    \A h \in Hosts :
        host'[h] = host[h] \/ (host[h] # "none" /\ host'[h] \in {"stopping", "gone"})

(* What a starter that is not about to wait for a host must know where it gets to. *)
Arrives(s) ==
    /\ pc'[s] # "await"
    /\ held'[s] # 0 => host[held'[s]] # "none"
    /\ excused' = {} /\ pc'[s] = "spawn" => ReadyHosts' = {}
    /\ pc'[s] = "ping" /\ phase'[s] = "inside" => held'[s] = manifest'
    /\ excused' = {} /\ pc'[s] = "returned" => built[held'[s]] = Version[s]

Stays(s) ==
    /\ pc'[s] = pc[s] /\ phase'[s] = phase[s]
    /\ held'[s] = held[s] /\ spawnFailures'[s] = spawnFailures[s]

LEMMA LaunchesKeptInit == Init => TypeOK /\ LaunchesKept
<1> SUFFICES ASSUME Init PROVE TypeOK /\ LaunchesKept
  OBVIOUS
<1>1. TypeOK
  <2>1. died \in BOOLEAN /\ excused \subseteq Excuse
    BY DEF Init
  <2>2. /\ spawnFailures \in [Starters -> 0..MAX_SPAWN_FAILURES]
        /\ held \in [Starters -> Hosts \cup {0}]
    BY StartersAssumption DEF Init
  <2> QED
    BY <2>1, <2>2 DEF Init, TypeOK
<1>2. Booting = {} /\ ReadyHosts = {}
  BY DEF Init, Booting, ReadyHosts
<1>3. LaunchesKept
  BY <1>2 DEF Init, LaunchesKept, HostsKnown, MaySpawn, Orderly, BootAwaited, AwaitsItsVersion,
              AdoptsInside, Alone, ReadyIsFound, RightVersion
<1> QED
  BY <1>1, <1>3

(* A step by which hosts only go keeps the order, if nothing is lost that is not
   excused: the manifest of a host that is up, or the wait for one that boots. *)
LEMMA Settles ==
  ASSUME TypeOK, LaunchesKept, Falls, built' = built, manifest' \in {manifest, 0},
         held' \in [Starters -> Hosts \cup {0}],
         excused' = {} =>
            /\ excused = {}
            /\ manifest' = manifest \/ ReadyHosts' = {}
            /\ Booting' = {} \/ \A s \in Starters : pc[s] = "await" => pc'[s] = "await",
         \A s \in Starters : Stays(s) \/ Arrives(s)
  PROVE  LaunchesKept'
<1>1. Booting' \subseteq Booting /\ ReadyHosts' \subseteq ReadyHosts
  BY DEF Falls, Booting, ReadyHosts
<1>2. \A h \in Hosts : host[h] # "none" => host'[h] # "none"
  BY DEF Falls
<1>3. HostsKnown'
  BY <1>2 DEF HostsKnown, LaunchesKept, TypeOK, Stays, Arrives
<1>4. MaySpawn'
  BY DEF MaySpawn, LaunchesKept, Stays, Arrives
<1>5. ASSUME excused' = {} PROVE Orderly'
  <2>0. /\ excused = {} /\ Orderly
        /\ manifest' = manifest \/ ReadyHosts' = {}
        /\ Booting' = {} \/ \A s \in Starters : pc[s] = "await" => pc'[s] = "await"
    BY <1>5 DEF LaunchesKept
  <2>1. BootAwaited'
    BY <1>1, <2>0 DEF Orderly, BootAwaited
  <2>2. AwaitsItsVersion'
    <3>1. \A s \in Starters : pc'[s] = "await" => pc[s] = "await"
      BY DEF Stays, Arrives
    <3> QED
      BY <1>1, <2>0, <3>1 DEF Orderly, AwaitsItsVersion
  <2>3. AdoptsInside'
    <3> SUFFICES ASSUME NEW s \in Starters, NEW h \in ReadyHosts'
                 PROVE  /\ pc'[s] = "ping" /\ phase'[s] = "inside" => held'[s] = h
                        /\ pc'[s] # "spawn"
      BY DEF AdoptsInside
    <3>1. manifest' = h
      BY <1>1, <2>0 DEF Orderly, ReadyIsFound
    <3>2. CASE Stays(s)
      BY <1>1, <2>0, <3>2 DEF Stays, Orderly, AdoptsInside
    <3>3. CASE Arrives(s)
      BY <1>5, <3>1, <3>3 DEF Arrives
    <3> QED
      BY <3>2, <3>3
  <2>4. Alone'
    BY <1>1, <2>0 DEF Orderly, Alone
  <2>5. ReadyIsFound'
    BY <1>1, <2>0 DEF Orderly, ReadyIsFound
  <2>6. RightVersion'
    BY <1>5, <2>0 DEF Orderly, RightVersion, Stays, Arrives
  <2> QED
    BY <2>1, <2>2, <2>3, <2>4, <2>5, <2>6 DEF Orderly
<1> QED
  BY <1>3, <1>4, <1>5 DEF LaunchesKept

(* Where Go takes a starter, in the types of the whole state. *)
LEMMA Goes ==
  ASSUME TypeOK, NEW s \in Starters, NEW p \in PCs, NEW ph \in Phases,
         NEW h \in Hosts \cup {0}, Go(s, p, ph, h),
         p \in {"ping", "reap", "returned"} <=> h # 0
  PROVE  /\ pc' \in [Starters -> PCs] /\ phase' \in [Starters -> Phases]
         /\ held' \in [Starters -> Hosts \cup {0}]
         /\ pc'[s] = p /\ phase'[s] = ph /\ held'[s] = h
         /\ \A t \in Starters : t # s => pc'[t] = pc[t] /\ phase'[t] = phase[t]
                                         /\ held'[t] = held[t]
         /\ \A t \in Starters :
              (pc'[t] \in {"ping", "reap", "returned"}) <=> (held'[t] # 0)
<1>1. pc \in [Starters -> PCs] /\ phase \in [Starters -> Phases]
      /\ held \in [Starters -> Hosts \cup {0}]
  BY DEF TypeOK, PCs, Phases
<1>2. /\ pc' \in [Starters -> PCs] /\ phase' \in [Starters -> Phases]
      /\ held' \in [Starters -> Hosts \cup {0}]
      /\ pc'[s] = p /\ phase'[s] = ph /\ held'[s] = h
      /\ \A t \in Starters : t # s => pc'[t] = pc[t] /\ phase'[t] = phase[t]
                                      /\ held'[t] = held[t]
  BY <1>1 DEF Go
<1>3. \A t \in Starters : (pc[t] \in {"ping", "reap", "returned"}) <=> (held[t] # 0)
  BY DEF TypeOK
<1>4. ASSUME NEW t \in Starters
      PROVE  (pc'[t] \in {"ping", "reap", "returned"}) <=> (held'[t] # 0)
  BY <1>2, <1>3
<1> QED
  BY <1>2, <1>4

(* adopt's miss, with the phase it was in. *)
LEMMA Misses ==
  ASSUME TypeOK, NEW s \in Starters, Missed(s)
  PROVE  \E p \in {"spawn", "idle", "open"}, ph \in Phases :
            /\ Go(s, p, ph, 0)
            /\ p = "spawn" => phase[s] = "inside"
            /\ ph = "inside" => phase[s] = "inside"
<1>0. phase[s] \in Phases
  BY DEF TypeOK, Phases
<1>1. CASE phase[s] = "inside"
  BY <1>0, <1>1 DEF Missed
<1>2. CASE phase[s] = "last"
  BY <1>2 DEF Missed, Phases
<1>3. CASE phase[s] \notin {"inside", "last"}
  BY <1>0, <1>3 DEF Missed
<1> QED
  BY <1>1, <1>2, <1>3

States == {"none", "booting", "serving", "ready", "stopping", "gone"}

(* A starter's step, with what it must know to keep the order of the hosts. *)
LEMMA StarterMoves ==
  ASSUME HostInv, NEW s \in Starters, NEW p \in PCs, NEW ph \in Phases,
         NEW h \in Hosts \cup {0}, Go(s, p, ph, h),
         p \in {"ping", "reap", "returned"} <=> h # 0, p # "await",
         h # 0 => host[h] # "none",
         excused' = {} /\ p = "spawn" => ReadyHosts' = {},
         p = "ping" /\ ph = "inside" => h = manifest',
         excused' = {} /\ p = "returned" => built[h] = Version[s],
         host' \in [Hosts -> States], Falls, built' = built, port' = port,
         manifest' \in {manifest, 0}, lock' \in {"free", "empty", "dead"} \cup Starters,
         excused' \subseteq Excuse,
         excused' = {} => /\ excused = {}
                          /\ manifest' = manifest \/ ReadyHosts' = {}
                          /\ pc[s] = "await" => Booting' = {},
         spawnFailures' \in [Starters -> 0..MAX_SPAWN_FAILURES],
         \A t \in Starters : t # s => spawnFailures'[t] = spawnFailures[t],
         died' \in BOOLEAN
  PROVE  TypeOK' /\ LaunchesKept'
<1>1. TypeOK /\ LaunchesKept
  BY DEF HostInv
<1>2. /\ pc' \in [Starters -> PCs] /\ phase' \in [Starters -> Phases]
      /\ held' \in [Starters -> Hosts \cup {0}]
      /\ pc'[s] = p /\ phase'[s] = ph /\ held'[s] = h
      /\ \A t \in Starters : t # s => pc'[t] = pc[t] /\ phase'[t] = phase[t]
                                      /\ held'[t] = held[t]
      /\ \A t \in Starters :
           (pc'[t] \in {"ping", "reap", "returned"}) <=> (held'[t] # 0)
  BY <1>1, Goes
<1>3. TypeOK'
  BY <1>1, <1>2 DEF TypeOK, PCs, Phases, States
<1>4. Arrives(s)
  BY <1>2 DEF Arrives
<1>5. \A t \in Starters : Stays(t) \/ Arrives(t)
  BY <1>2, <1>4 DEF Stays
<1>6. excused' = {} =>
        /\ excused = {}
        /\ manifest' = manifest \/ ReadyHosts' = {}
        /\ Booting' = {} \/ \A t \in Starters : pc[t] = "await" => pc'[t] = "await"
  BY <1>2
<1>7. LaunchesKept'
  BY <1>1, <1>2, <1>5, <1>6, Settles
<1> QED
  BY <1>3, <1>7

(* What the steps of a starter outside the hosts and files leave alone. *)
LEMMA NothingFalls ==
  ASSUME TypeOK, host' = host
  PROVE  host' \in [Hosts -> States] /\ Falls
  BY DEF TypeOK, States, Falls

(* SIGTERM, or an end of any kind. *)
LEMMA OneFalls ==
  ASSUME TypeOK, NEW h \in Hosts, host[h] # "none",
         Signalled(h) \/ host' = [host EXCEPT ![h] = "gone"]
  PROVE  host' \in [Hosts -> States] /\ Falls
<1>0. host \in [Hosts -> States]
  BY DEF TypeOK, States
<1>1. PICK v \in {host[h], "stopping", "gone"} : host' = [host EXCEPT ![h] = v]
  BY <1>0 DEF Signalled
<1>2. v \in States
  BY <1>0, <1>1 DEF States
<1>3. host' \in [Hosts -> States]
  BY <1>0, <1>1, <1>2
<1>4. Falls
  BY <1>0, <1>1 DEF Falls
<1> QED
  BY <1>3, <1>4

(* The manifest of a host that has ended is unlinked: it was not the one of a host
   that is up, or that is on record. *)
LEMMA Clears ==
  ASSUME HostInv, NEW h \in Hosts, Falls, host'[h] = "gone", clearManifest(h)
  PROVE  /\ manifest' \in {manifest, 0}
         /\ excused \subseteq excused' /\ excused' \subseteq Excuse
         /\ excused' = {} => ReadyHosts' = {}
<1>1. /\ manifest' = 0 /\ excused \subseteq excused' /\ excused' \subseteq Excuse
      /\ excused' = {} => excused = {} /\ (manifest \in {0, h} \/ ~isAlive(manifest))
  BY DEF clearManifest, HostInv, TypeOK, Excuse
<1>2. ASSUME excused' = {}, NEW g \in ReadyHosts' PROVE FALSE
  <2>1. g \in Hosts /\ host'[g] = "ready" /\ host[g] = "ready" /\ g # h
    BY <1>2 DEF ReadyHosts, Falls
  <2>2. manifest = g
    BY <1>1, <1>2, <2>1 DEF HostInv, LaunchesKept, Orderly, ReadyIsFound, ReadyHosts
  <2>3. isAlive(manifest) /\ manifest # 0
    BY <2>1, <2>2 DEF isAlive, Hosts
  <2> QED
    BY <1>1, <1>2, <2>1, <2>2, <2>3
<1> QED
  BY <1>1, <1>2

(* A release adds to the excuses, or does not. *)
LEMMA Releases ==
  ASSUME HostInv, NEW s \in Starters, release(s)
  PROVE  /\ lock' \in {"free", "empty", "dead"} \cup Starters
         /\ excused' \subseteq Excuse
         /\ excused' = {} => excused = {}
  BY DEF release, HostInv, TypeOK, Excuse

(* Steps of a starter that touch neither the hosts nor the manifest. *)
LEMMA QuietStep ==
  ASSUME HostInv, NEW s \in Starters,
         \/ ensureHost(s) \/ Look(s) \/ OpenLock(s) \/ WriteLock(s) \/ JudgeLock(s)
         \/ UnlinkLock(s) \/ GivesUp(s)
  PROVE  TypeOK' /\ LaunchesKept'
<1>0. /\ TypeOK /\ host' \in [Hosts -> States] /\ Falls /\ host' = host /\ built' = built
      /\ port' = port /\ manifest' = manifest /\ spawnFailures' = spawnFailures
      /\ died' \in BOOLEAN
      /\ spawnFailures \in [Starters -> 0..MAX_SPAWN_FAILURES]
      /\ phase[s] \in Phases /\ ReadyHosts' = ReadyHosts /\ pc[s] # "await"
      /\ manifest \in Hosts \cup {0} /\ (manifest # 0 => host[manifest] # "none")
      /\ excused \subseteq Excuse /\ lock \in {"free", "empty", "dead"} \cup Starters
  <2>1. TypeOK /\ host' = host
    BY DEF HostInv, ensureHost, Look, OpenLock, WriteLock, JudgeLock, UnlinkLock, GivesUp,
           processes
  <2> QED
    BY <2>1, NothingFalls
    DEF HostInv, ensureHost, Look, OpenLock, WriteLock, JudgeLock, UnlinkLock, GivesUp,
        processes, files, bounds, LaunchesKept, HostsKnown, TypeOK, Phases, ReadyHosts
<1>1. CASE ensureHost(s)
  <2>1. Go(s, "look", "fast", 0) /\ lock' = lock /\ excused' = excused
    BY <1>1 DEF ensureHost, files, bounds
  <2> QED
    BY <1>0, <2>1, StarterMoves DEF PCs, Phases
<1>2. CASE Look(s)
  <2>0. lock' = lock /\ excused' = excused
    BY <1>2 DEF Look, files, bounds
  <2>1. CASE isAlive(manifest)
    <3>1. Go(s, "ping", phase[s], manifest) /\ manifest # 0
      BY <1>2, <2>1 DEF Look, isAlive
    <3> QED
      BY <1>0, <2>0, <3>1, StarterMoves DEF PCs
  <2>2. CASE ~isAlive(manifest)
    <3>1. PICK p \in {"spawn", "idle", "open"}, ph \in Phases :
            /\ Go(s, p, ph, 0)
            /\ p = "spawn" => phase[s] = "inside"
            /\ ph = "inside" => phase[s] = "inside"
      BY <1>0, <1>2, <2>2, Misses DEF Look
    <3>2. excused' = {} => ReadyHosts' = {}
      BY <1>0, <2>0, <2>2 DEF HostInv, LaunchesKept, Orderly, ReadyIsFound, ReadyHosts, isAlive, Hosts
    <3> QED
      BY <1>0, <2>0, <3>1, <3>2, StarterMoves DEF PCs
  <2> QED
    BY <2>1, <2>2
<1>3. CASE OpenLock(s)
  <2>1. PICK p \in {"write", "judge"}, ph \in Phases :
          Go(s, p, ph, 0) /\ lock' \in {lock, "empty"} /\ excused' = excused
    BY <1>0, <1>3 DEF OpenLock, Phases, bounds
  <2> QED
    BY <1>0, <2>1, StarterMoves DEF PCs
<1>4. CASE WriteLock(s)
  <2>1. Go(s, "look", "inside", 0) /\ lock' = s /\ excused' = excused
    BY <1>4 DEF WriteLock, bounds
  <2> QED
    BY <1>0, <2>1, StarterMoves DEF PCs, Phases
<1>5. CASE JudgeLock(s)
  <2>1. PICK p \in {"unlink", "look"}, ph \in Phases :
          Go(s, p, ph, 0) /\ lock' = lock /\ excused' = excused
    BY <1>0, <1>5 DEF JudgeLock, Phases, bounds, files
  <2> QED
    BY <1>0, <2>1, StarterMoves DEF PCs
<1>6. CASE UnlinkLock(s)
  <2>1. /\ Go(s, "open", phase[s], 0) /\ lock' = "free"
        /\ excused' \subseteq Excuse /\ (excused' = {} => excused = {})
    BY <1>0, <1>6 DEF UnlinkLock, Excuse
  <2> QED
    BY <1>0, <2>1, StarterMoves DEF PCs
<1>7. CASE GivesUp(s)
  <2>1. Go(s, "idle", "none", 0) /\ release(s)
    BY <1>7 DEF GivesUp
  <2> QED
    BY <1>0, <2>1, Releases, StarterMoves DEF PCs, Phases
<1> QED
  BY <1>1, <1>2, <1>3, <1>4, <1>5, <1>6, <1>7

(* A ping inside the lock that finds nobody proves that no host is up, unless it is
   one that did not answer in time. *)
LEMMA PingMoves ==
  ASSUME HostInv, NEW s \in Starters, Ping(s)
  PROVE  TypeOK' /\ LaunchesKept'
<1>0. /\ TypeOK /\ built' = built /\ port' = port /\ manifest' = manifest
      /\ spawnFailures' = spawnFailures /\ excused \subseteq Excuse /\ died' \in BOOLEAN
      /\ spawnFailures \in [Starters -> 0..MAX_SPAWN_FAILURES]
      /\ phase[s] \in Phases /\ pc[s] = "ping" /\ held[s] \in Hosts
      /\ host[held[s]] # "none" /\ lock \in {"free", "empty", "dead"} \cup Starters
  <2>1. pc[s] = "ping" /\ TypeOK
    BY DEF Ping, HostInv
  <2>2. held[s] \in Hosts \cup {0} /\ held[s] # 0
    BY <2>1 DEF TypeOK
  <2> QED
    BY <2>1, <2>2 DEF HostInv, Ping, LaunchesKept, HostsKnown, TypeOK, Phases
<1>h. 0 \notin Hosts
  BY DEF Hosts
<1>1. CASE /\ Go(s, "returned", "none", held[s]) /\ host' = host
           /\ built[held[s]] = Version[s] /\ (release(s) \/ UNCHANGED <<lock, excused>>)
  <2>1. /\ lock' \in {"free", "empty", "dead"} \cup Starters
        /\ excused' \subseteq Excuse /\ (excused' = {} => excused = {})
    BY <1>0, <1>1, Releases
  <2> QED
    BY <1>0, <1>h, <1>1, <2>1, NothingFalls, StarterMoves DEF PCs, Phases
<1>2. CASE Go(s, "reap", phase[s], held[s]) /\ Signalled(held[s]) /\ UNCHANGED <<lock, excused>>
  BY <1>0, <1>h, <1>2, OneFalls, StarterMoves DEF PCs
<1>3. CASE Unanswered(s)
  <2>0. /\ Missed(s) /\ host' = host /\ lock' = lock
        /\ excused' \subseteq Excuse /\ (excused' = {} => excused = {})
    BY <1>0, <1>3 DEF Unanswered, Excuse
  <2>1. PICK p \in {"spawn", "idle", "open"}, ph \in Phases :
          /\ Go(s, p, ph, 0)
          /\ p = "spawn" => phase[s] = "inside"
          /\ ph = "inside" => phase[s] = "inside"
    BY <1>0, <2>0, Misses
  <2>2. ASSUME excused' = {}, p = "spawn" PROVE ReadyHosts' = {}
    <3>1. \A h \in ReadyHosts : held[s] = h
      BY <1>0, <2>0, <2>1, <2>2 DEF HostInv, LaunchesKept, Orderly, AdoptsInside
    <3>2. \A h \in ReadyHosts : host[h] = "ready" /\ h \in Hosts
      BY DEF ReadyHosts
    <3>3. ~Listening(held[s])
      BY <1>3, <2>1, <2>2 DEF Unanswered
    <3>4. ReadyHosts = {}
      BY <3>1, <3>2, <3>3 DEF Listening
    <3> QED
      BY <2>0, <3>4 DEF ReadyHosts
  <2> QED
    BY <1>0, <2>0, <2>1, <2>2, NothingFalls, StarterMoves DEF PCs
<1> QED
  BY <1>1, <1>2, <1>3 DEF Ping

(* terminateHost: what it unlinks is not the manifest of a host that is up, or that
   is on record. *)
LEMMA ReapMoves ==
  ASSUME HostInv, NEW s \in Starters, Reap(s)
  PROVE  TypeOK' /\ LaunchesKept'
<1>0. /\ TypeOK /\ built' = built /\ port' = port /\ lock' = lock
      /\ spawnFailures' = spawnFailures /\ died' \in BOOLEAN
      /\ spawnFailures \in [Starters -> 0..MAX_SPAWN_FAILURES]
      /\ pc[s] = "reap" /\ held[s] \in Hosts /\ host[held[s]] # "none"
      /\ lock \in {"free", "empty", "dead"} \cup Starters
  <2>1. pc[s] = "reap" /\ TypeOK
    BY DEF Reap, HostInv
  <2>2. held[s] \in Hosts \cup {0} /\ held[s] # 0
    BY <2>1 DEF TypeOK
  <2> QED
    BY <2>1, <2>2 DEF HostInv, Reap, LaunchesKept, HostsKnown, TypeOK
<1>1. host' \in [Hosts -> States] /\ Falls /\ host'[held[s]] = "gone"
  BY <1>0, OneFalls DEF Reap, TypeOK
<1>2. /\ manifest' \in {manifest, 0}
      /\ excused \subseteq excused' /\ excused' \subseteq Excuse
      /\ excused' = {} => ReadyHosts' = {}
  BY <1>0, <1>1, Clears DEF Reap
<1>3. PICK p \in {"spawn", "idle", "open"}, ph \in Phases : Go(s, p, ph, 0)
  BY <1>0, Misses DEF Reap
<1> QED
  BY <1>0, <1>1, <1>2, <1>3, StarterMoves DEF PCs

(* The wait ends with the host that is up: nothing boots any more. *)
LEMMA CameUpMoves ==
  ASSUME HostInv, NEW s \in Starters, HostCameUp(s)
  PROVE  TypeOK' /\ LaunchesKept'
<1>0. /\ TypeOK /\ host' = host /\ built' = built /\ port' = port /\ manifest' = manifest
      /\ died' \in BOOLEAN /\ pc[s] = "await" /\ manifest \in Hosts /\ host[manifest] # "none"
      /\ Go(s, "returned", "none", manifest) /\ release(s)
      /\ spawnFailures' = [spawnFailures EXCEPT ![s] = 0]
  BY DEF HostInv, HostCameUp, processes, isAlive, LaunchesKept, HostsKnown, TypeOK
<1>1. manifest # 0
  BY <1>0 DEF Hosts
<1>2. /\ lock' \in {"free", "empty", "dead"} \cup Starters
      /\ excused' \subseteq Excuse /\ (excused' = {} => excused = {})
  BY <1>0, Releases
<1>3. /\ spawnFailures' \in [Starters -> 0..MAX_SPAWN_FAILURES]
      /\ \A t \in Starters : t # s => spawnFailures'[t] = spawnFailures[t]
  BY <1>0, StartersAssumption DEF TypeOK
<1>4. ASSUME excused' = {}
      PROVE  excused = {} /\ Booting' = {} /\ built[manifest] = Version[s]
  BY <1>0, <1>1, <1>2, <1>4
  DEF HostInv, LaunchesKept, Orderly, BootAwaited, AwaitsItsVersion, Booting
<1> QED
  BY <1>0, <1>1, <1>2, <1>3, <1>4, NothingFalls, StarterMoves DEF PCs, Phases

(* A wait given up, or cut by a death, with a host still booting is an orphan boot. *)
LEMMA WaitLost ==
  ASSUME HostInv, NEW s \in Starters, HostDidNotStart(s) \/ StarterDies(s)
  PROVE  TypeOK' /\ LaunchesKept'
<1>0. /\ TypeOK /\ host' = host /\ built' = built /\ port' = port /\ manifest' = manifest
      /\ Go(s, "idle", "none", 0) /\ died' \in BOOLEAN
      /\ lock' \in {"free", "empty", "dead"} \cup Starters
  BY DEF HostInv, HostDidNotStart, StarterDies, processes, TypeOK
<1>1. excused' \subseteq Excuse /\ (excused' = {} => excused = {})
      /\ (pc[s] = "await" /\ excused' = {} => Booting = {})
  BY DEF HostInv, HostDidNotStart, StarterDies, TypeOK, Excuse
<1>2. /\ spawnFailures' \in [Starters -> 0..MAX_SPAWN_FAILURES]
      /\ \A t \in Starters : t # s => spawnFailures'[t] = spawnFailures[t]
  <2>1. CASE StarterDies(s)
    <3>1. 0 \in 0..MAX_SPAWN_FAILURES
      BY StartersAssumption
    <3> QED
      BY <2>1, <3>1 DEF HostInv, StarterDies, TypeOK
  <2>2. CASE HostDidNotStart(s)
    <3>1. spawnFailures[s] \in 0..MAX_SPAWN_FAILURES /\ spawnFailures[s] < MAX_SPAWN_FAILURES
      BY <2>2 DEF HostInv, HostDidNotStart, TypeOK, LaunchesKept, MaySpawn
    <3>2. spawnFailures[s] + 1 \in 0..MAX_SPAWN_FAILURES
      BY <3>1, StartersAssumption
    <3>3. PICK n \in 0..MAX_SPAWN_FAILURES : spawnFailures' = [spawnFailures EXCEPT ![s] = n]
      BY <2>2, <3>2 DEF HostDidNotStart
    <3> QED
      BY <3>3 DEF HostInv, TypeOK
  <2> QED
    BY <2>1, <2>2
<1>3. Booting' = Booting
  BY <1>0 DEF Booting
<1> QED
  BY <1>0, <1>1, <1>2, <1>3, NothingFalls, StarterMoves DEF PCs, Phases

LEMMA QuitMoves ==
  ASSUME HostInv, NEW s \in Starters, Quit(s)
  PROVE  TypeOK' /\ LaunchesKept'
<1>0. /\ TypeOK /\ built' = built /\ port' = port /\ manifest' = manifest /\ lock' = lock
      /\ died' \in BOOLEAN
      /\ spawnFailures' = spawnFailures /\ excused' = excused /\ pc[s] = "returned"
      /\ spawnFailures \in [Starters -> 0..MAX_SPAWN_FAILURES] /\ excused \subseteq Excuse
      /\ lock \in {"free", "empty", "dead"} \cup Starters
  BY DEF HostInv, Quit, files, bounds, TypeOK
<1>1. CASE Go(s, "idle", "none", 0) /\ UNCHANGED host
  BY <1>0, <1>1, NothingFalls, StarterMoves DEF PCs, Phases
<1>2. CASE isAlive(manifest) /\ Signalled(manifest) /\ Go(s, "reap", "last", manifest)
  <2>1. manifest \in Hosts /\ host[manifest] # "none" /\ manifest # 0
    BY <1>0, <1>2 DEF isAlive, TypeOK
  <2> QED
    BY <1>0, <1>2, <2>1, OneFalls, StarterMoves DEF PCs, Phases
<1> QED
  BY <1>1, <1>2 DEF Quit

(* Whoever waits for a host, or is about to spawn one, is the only one inside. *)
LEMMA OneWaits ==
  ASSUME HostInv, excused = {}, NEW s \in Starters, NEW t \in Starters,
         pc[s] \in {"spawn", "await"} \/ phase[s] = "inside", pc[t] \in {"spawn", "await"}
  PROVE  s = t
  BY DEF HostInv, LockInv, PhasesFollow, LockHeld

(* A host is spawned with no other up or on its way. *)
LEMMA SpawnMoves ==
  ASSUME HostInv, NEW s \in Starters, spawnHost(s)
  PROVE  TypeOK' /\ LaunchesKept'
<1>1. PICK n \in Hosts : /\ host[n] = "none" /\ host' = [host EXCEPT ![n] = "booting"]
                         /\ built' = [built EXCEPT ![n] = Version[s]]
  BY DEF spawnHost
<1>2. /\ TypeOK /\ Go(s, "await", "inside", 0) /\ manifest' = 0 /\ pc[s] = "spawn"
      /\ died' \in BOOLEAN
      /\ lock' = lock /\ port' = port /\ spawnFailures' = spawnFailures
      /\ spawnFailures[s] < MAX_SPAWN_FAILURES
      /\ excused' \subseteq Excuse /\ (excused' = {} => excused = {})
  BY DEF HostInv, spawnHost, clearManifest, TypeOK, Excuse
<1>3. /\ pc' \in [Starters -> PCs] /\ phase' \in [Starters -> Phases]
      /\ held' \in [Starters -> Hosts \cup {0}]
      /\ pc'[s] = "await" /\ phase'[s] = "inside" /\ held'[s] = 0
      /\ \A t \in Starters : t # s => pc'[t] = pc[t] /\ phase'[t] = phase[t]
                                      /\ held'[t] = held[t]
      /\ \A t \in Starters :
           (pc'[t] \in {"ping", "reap", "returned"}) <=> (held'[t] # 0)
  BY <1>2, Goes DEF PCs, Phases
<1>4. /\ host' \in [Hosts -> States] /\ built' \in [Hosts -> Nat] /\ host'[n] = "booting"
      /\ built'[n] = Version[s]
      /\ \A h \in Hosts : h # n => host'[h] = host[h] /\ built'[h] = built[h]
  BY <1>1, <1>2, StartersAssumption DEF TypeOK, States
<1>5. TypeOK'
  BY <1>2, <1>3, <1>4 DEF TypeOK, PCs, Phases, States
<1>6. HostsKnown' /\ MaySpawn'
  BY <1>1, <1>2, <1>3, <1>4 DEF HostInv, LaunchesKept, HostsKnown, MaySpawn, TypeOK
<1>7. ASSUME excused' = {} PROVE Orderly'
  <2>0. excused = {} /\ Orderly
    BY <1>2, <1>7 DEF HostInv, LaunchesKept
  <2>1. ReadyHosts = {}
    BY <1>2, <2>0 DEF Orderly, AdoptsInside
  <2>2. Booting = {}
    BY <1>2, <2>0, OneWaits DEF Orderly, BootAwaited
  <2>3. Booting' = {n} /\ ReadyHosts' = {}
    BY <1>4, <2>1, <2>2 DEF Booting, ReadyHosts
  <2>4. \A t \in Starters : pc'[t] = "await" => t = s
    BY <1>2, <1>3, <2>0, OneWaits
  <2>5. BootAwaited' /\ AwaitsItsVersion'
    BY <1>2, <1>3, <1>4, <2>3, <2>4 DEF BootAwaited, AwaitsItsVersion
  <2>6. AdoptsInside' /\ Alone' /\ ReadyIsFound'
    BY <2>3 DEF AdoptsInside, Alone, ReadyIsFound
  <2>7. RightVersion'
    <3> SUFFICES ASSUME NEW t \in Starters, pc'[t] = "returned"
                 PROVE  built'[held'[t]] = Version[t]
      BY DEF RightVersion
    <3>1. t # s /\ pc[t] = "returned" /\ held'[t] = held[t]
      BY <1>3
    <3>2. held[t] \in Hosts /\ host[held[t]] # "none"
      BY <1>2, <3>1 DEF TypeOK, HostInv, LaunchesKept, HostsKnown
    <3> QED
      BY <1>1, <1>4, <2>0, <3>1, <3>2 DEF Orderly, RightVersion
  <2> QED
    BY <2>5, <2>6, <2>7 DEF Orderly
<1> QED
  BY <1>5, <1>6, <1>7 DEF LaunchesKept

(* It listens: on its way up as before. *)
LEMMA ListensMoves ==
  ASSUME HostInv, NEW h \in Hosts, Listens(h)
  PROVE  TypeOK' /\ LaunchesKept'
<1>1. /\ host[h] = "booting" /\ host' = [host EXCEPT ![h] = "serving"] /\ TypeOK
      /\ lock' = lock /\ manifest' = manifest /\ built' = built /\ pc' = pc /\ phase' = phase
      /\ held' = held /\ spawnFailures' = spawnFailures /\ excused' = excused /\ died' = died
  BY DEF HostInv, Listens, files, starter, bounds
<1>2. port' \in [Hosts -> {"none", "stable", "other"}]
  BY DEF HostInv, Listens, TypeOK
<1>3. TypeOK'
  BY <1>1, <1>2 DEF TypeOK
<1>4. /\ Booting' = Booting /\ ReadyHosts' = ReadyHosts
      /\ \A g \in Hosts : host[g] # "none" => host'[g] # "none"
  BY <1>1 DEF TypeOK, Booting, ReadyHosts
<1>5. LaunchesKept'
  BY <1>1, <1>4
  DEF HostInv, LaunchesKept, HostsKnown, MaySpawn, Orderly, BootAwaited, AwaitsItsVersion, AdoptsInside,
      Alone, ReadyIsFound, RightVersion, TypeOK
<1> QED
  BY <1>3, <1>5

(* It is up: the starter that waits for it is the only one inside. *)
LEMMA ReadyMoves ==
  ASSUME HostInv, NEW h \in Hosts, Ready(h)
  PROVE  TypeOK' /\ LaunchesKept'
<1>1. /\ host[h] = "serving" /\ host' = [host EXCEPT ![h] = "ready"] /\ TypeOK
      /\ lock' = lock /\ manifest' = h /\ built' = built /\ port' = port
      /\ pc' = pc /\ phase' = phase
      /\ held' = held /\ spawnFailures' = spawnFailures /\ excused' = excused /\ died' = died
  BY DEF HostInv, Ready, starter, bounds
<1>2. TypeOK'
  BY <1>1 DEF TypeOK
<1>3. /\ Booting' = Booting \ {h} /\ ReadyHosts' = ReadyHosts \cup {h} /\ h \in Booting
      /\ \A g \in Hosts : host[g] # "none" => host'[g] # "none"
      /\ host'[h] = "ready"
  BY <1>1 DEF TypeOK, Booting, ReadyHosts
<1>4. HostsKnown' /\ MaySpawn'
  BY <1>1, <1>3 DEF HostInv, LaunchesKept, HostsKnown, MaySpawn, TypeOK
<1>5. ASSUME excused' = {} PROVE Orderly'
  <2>0. excused = {} /\ Orderly
    BY <1>1, <1>5 DEF HostInv, LaunchesKept
  <2>1. Booting' = {} /\ ReadyHosts' = {h}
    BY <1>3, <2>0 DEF Orderly, Alone
  <2>2. PICK w \in Starters : pc[w] = "await"
    BY <1>3, <2>0 DEF Orderly, BootAwaited
  <2>3. BootAwaited' /\ Alone' /\ ReadyIsFound' /\ RightVersion'
    BY <1>1, <2>0, <2>1 DEF BootAwaited, Alone, ReadyIsFound, Orderly, RightVersion
  <2>4. AwaitsItsVersion'
    BY <1>1, <1>3, <2>0, <2>1 DEF Orderly, AwaitsItsVersion
  <2>5. AdoptsInside'
    BY <1>1, <2>0, <2>1, <2>2, OneWaits DEF AdoptsInside
  <2> QED
    BY <2>3, <2>4, <2>5 DEF Orderly
<1> QED
  BY <1>2, <1>4, <1>5 DEF LaunchesKept

(* A host ends by itself, or is ended. *)
LEMMA EndMoves ==
  ASSUME HostInv, NEW h \in Hosts, Exits(h) \/ HostFault(h)
  PROVE  TypeOK' /\ LaunchesKept'
<1>0. /\ TypeOK /\ host[h] # "none" /\ lock' = lock /\ built' = built /\ port' = port
      /\ pc' = pc /\ phase' = phase /\ held' = held /\ spawnFailures' = spawnFailures
      /\ died' = died
      /\ Signalled(h) \/ host' = [host EXCEPT ![h] = "gone"]
  BY DEF HostInv, Exits, HostFault, isAlive, files, starter
<1>1. host' \in [Hosts -> States] /\ Falls
  BY <1>0, OneFalls
<1>2. /\ manifest' \in {manifest, 0} /\ excused' \subseteq Excuse
      /\ excused' = {} => excused = {} /\ (manifest' = manifest \/ ReadyHosts' = {})
  <2>1. CASE Exits(h)
    <3>1. host'[h] = "gone" /\ clearManifest(h)
      BY <1>0, <2>1 DEF Exits, TypeOK
    <3> QED
      BY <1>1, <3>1, Clears
  <2>2. CASE HostFault(h)
    BY <1>0, <2>2 DEF HostFault, files, TypeOK
  <2> QED
    BY <2>1, <2>2
<1>3. TypeOK'
  BY <1>0, <1>1, <1>2 DEF TypeOK, States
<1>4. LaunchesKept'
  BY <1>0, <1>1, <1>2, Settles DEF HostInv, Stays, TypeOK
<1> QED
  BY <1>3, <1>4

LEMMA LaunchesKeptStep == HostInv /\ [Next]_vars => TypeOK' /\ LaunchesKept'
<1> SUFFICES ASSUME HostInv, [Next]_vars PROVE TypeOK' /\ LaunchesKept'
  OBVIOUS
<1>1. CASE Next
  BY <1>1, QuietStep, PingMoves, ReapMoves, CameUpMoves, WaitLost, QuitMoves, SpawnMoves,
     ListensMoves, ReadyMoves, EndMoves DEF Next
<1>2. CASE UNCHANGED vars
  BY <1>2 DEF vars, files, processes, starter, bounds, HostInv, TypeOK, LaunchesKept, HostsKnown, MaySpawn,
              Orderly, BootAwaited, AwaitsItsVersion, AdoptsInside, Alone, ReadyIsFound,
              RightVersion, Booting, ReadyHosts
<1> QED
  BY <1>1, <1>2

(* The inductive invariant: types, the lock, and as long as nothing is excused the
   order in which one host follows another. *)
THEOREM HostInductive == Spec => []HostInv
<1>1. Init => HostInv
  BY LockInit, LaunchesKeptInit DEF HostInv
<1>2. HostInv /\ [Next]_vars => HostInv'
  BY LockStep, LaunchesKeptStep DEF HostInv
<1> QED
  BY <1>1, <1>2, PTL DEF Spec

(* One host per home, whatever the number of launchers and versions: two never boot or
   serve at once, the one that is up is the one the manifest names, and a launcher gets
   one of its own version, but for the four things in Excuse. *)
THEOREM OneHostAtATime == Spec => []Singleton
<1>1. HostInv => Singleton
  BY AtMostOne DEF HostInv, LaunchesKept, Orderly, Alone, Singleton, OneHost
<1> QED
  BY <1>1, HostInductive, PTL

-----------------------------------------------------------------------------
(***************************************************************************)
(* SpawnRecovery: the children of one agent over any number of hosts.      *)
(***************************************************************************)
Hosted == life \in {"up", "closing"}

HostTypes ==
  /\ life \in {"down", "booting", "up", "closing"} /\ hosts \in 0 .. MaxHosts
  /\ state \in {"OFFLINE", "HEADLESS_RUNNING", "INTERACTIVE_RUNNING", "BROKEN"}
  /\ queue \in 0 .. MaxQueue /\ resumeFails \in 0 .. MAX_RESUME_FAILS

FlagTypes == resuming \in BOOLEAN /\ writing \in BOOLEAN /\ cut \in BOOLEAN

SessionTypes ==
  /\ minted \in Nat /\ last \in 0 .. minted /\ tui \in 0 .. minted
  /\ session \in [Children!Runs -> 0 .. minted]

RunTypes ==
  /\ child \in Children!Runs \cup {0} /\ spawned \in 0 .. MaxRuns
  /\ marker \in Children!Runs \cup {0, Children!Torn}
  /\ signalled \subseteq Children!Runs /\ unknown \subseteq Children!Runs
  /\ unmarked \subseteq Children!Runs /\ late \subseteq Children!Runs
  /\ alive \subseteq Children!Runs

ChildrenTyped == HostTypes /\ FlagTypes /\ SessionTypes /\ RunTypes

(* A run is of a spawned child; the writer's state says whom it waits for, and the
   session stored last is the one of whoever is served. *)
WriterSound ==
  /\ child \in 0 .. spawned /\ alive \subseteq 1 .. spawned /\ unmarked \subseteq 1 .. spawned
  /\ child # 0 <=> state = "HEADLESS_RUNNING"
  /\ tui # 0 <=> state = "INTERACTIVE_RUNNING"
  /\ ~Hosted => state = "OFFLINE"
  /\ child # 0 => queue > 0 /\ session[child] = last
  /\ tui # 0 => tui = last
  /\ state # "BROKEN" => resumeFails < MAX_RESUME_FAILS

(* The marker names the child the host waits for, or is missing; after a shutdown it is
   only of a run that started late, and so is one that no crash left. *)
MarkerSound ==
  /\ Hosted => marker \in {0, child}
  /\ writing => /\ Hosted /\ child \in alive \ unmarked /\ marker = 0
                /\ life = "closing" => child \in late
  /\ life = "up" /\ ~writing => marker = IF child \in alive \ unmarked THEN child ELSE 0
  /\ life = "closing" /\ marker # 0 => marker \in late
  /\ ~Hosted /\ marker # 0 => cut \/ marker \in late

(* Of the processes that a host can know of, besides the child it waits for: with no
   host, only the marked one; with a host, only one that its boot condemned, and its
   session is not used again until the agent is no longer broken. *)
Known == alive \ unknown
ProcessesKnown ==
  /\ ~Hosted => Known \subseteq {marker}
  /\ life = "closing" => Known \subseteq {child}
  /\ life = "up" => /\ \A r, s \in Known \ {child} : r = s
                    /\ Known \ {child} \subseteq signalled
                    /\ \A r \in Known \ {child} : session[r] = last => state = "BROKEN"

ChildrenInv == ChildrenTyped /\ WriterSound /\ MarkerSound /\ ProcessesKnown


LEMMA RunFacts ==
  /\ MAX_RESUME_FAILS \in Nat \ {0} /\ MaxQueue \in Nat /\ MaxRuns \in Nat /\ MaxHosts \in Nat
  /\ Children!Runs = 1 .. MaxRuns /\ Children!None = 0 /\ Children!Torn = MaxRuns + 1
  BY ChildrenAssumption DEF Children!RecoveryAssumption, Children!Runs, Children!None,
     Children!Torn

LEMMA ChildrenTypeCorrect == ChildrenTyped => Children!TypeOK
<1> SUFFICES ASSUME ChildrenTyped PROVE Children!TypeOK
  OBVIOUS
<1>1. /\ {resuming, writing} \subseteq BOOLEAN /\ {last, tui} \subseteq 0 .. minted
      /\ {signalled, unknown, unmarked, late, alive} \subseteq SUBSET Children!Runs
  BY DEF ChildrenTyped, FlagTypes, SessionTypes, RunTypes
<1> QED
  BY <1>1, RunFacts DEF ChildrenTyped, HostTypes, FlagTypes, SessionTypes, RunTypes,
                        Children!TypeOK

LEMMA ChildrenBegin == Children!Init => ChildrenInv
<1> SUFFICES ASSUME Children!Init PROVE ChildrenInv
  OBVIOUS
<1>1. HostTypes
  BY RunFacts DEF Children!Init, HostTypes
<1>5. FlagTypes
  BY DEF Children!Init, FlagTypes
<1>2. SessionTypes
  BY RunFacts DEF Children!Init, SessionTypes
<1>3. RunTypes
  BY RunFacts DEF Children!Init, RunTypes
<1>4. WriterSound /\ MarkerSound /\ ProcessesKnown
  BY RunFacts DEF Children!Init, WriterSound, MarkerSound, ProcessesKnown, Known, Hosted
<1> QED
  BY <1>1, <1>2, <1>3, <1>4, <1>5 DEF ChildrenInv, ChildrenTyped

(* The writer comes to rest: its child, if it had one, is over. *)
LEMMA RestsKept ==
  ASSUME ChildrenInv, Hosted, state # "BROKEN", NEW to \in {"OFFLINE", "BROKEN"},
         Children!Rests(to, alive \ {child}), marker' = 0, tui' = 0,
         resumeFails' \in 0 .. MAX_RESUME_FAILS, to = "OFFLINE" => resumeFails' < MAX_RESUME_FAILS,
         UNCHANGED <<life, hosts, signalled, unknown, unmarked, cut>>
  PROVE  ChildrenInv'
<1> USE RunFacts DEF ChildrenInv, ChildrenTyped
<1>1. /\ state' = to /\ queue' = 0 /\ child' = 0 /\ alive' = alive \ {child}
      /\ UNCHANGED <<last, minted, spawned, session, late>>
  BY DEF Children!Rests
<1>2. resuming' = FALSE /\ writing' = FALSE
  BY DEF Children!Rests
<1>3. HostTypes'
  BY <1>1 DEF HostTypes
<1>4. FlagTypes'
  BY <1>2 DEF FlagTypes
<1>5. SessionTypes' /\ RunTypes'
  BY <1>1 DEF SessionTypes, RunTypes
<1>6. WriterSound'
  BY <1>1 DEF WriterSound, Hosted, RunTypes, HostTypes
<1>7. MarkerSound'
  BY <1>1, <1>2 DEF MarkerSound, WriterSound, Hosted
<1>8. ProcessesKnown'
  BY <1>1 DEF ProcessesKnown, Known, WriterSound, Hosted
<1> QED
  BY <1>3, <1>4, <1>5, <1>6, <1>7, <1>8

(* A run starts: nobody else is served, so the session that is stored or minted for it
   is nobody's but a process's the host does not know of. *)
LEMMA RunKept ==
  ASSUME ChildrenInv, Hosted, state # "BROKEN", Children!run(alive \ {child}),
         queue' \in 1 .. MaxQueue, marker' = 0, tui' = 0,
         resumeFails' \in 0 .. MAX_RESUME_FAILS, resumeFails' < MAX_RESUME_FAILS,
         UNCHANGED <<life, hosts, signalled, unknown, unmarked, cut>>
  PROVE  ChildrenInv'
<1> USE RunFacts DEF ChildrenInv, ChildrenTyped
<1>1. PICK sid \in Nat :
        /\ sid = Children!Session /\ sid \in {last, minted + 1}
        /\ sid # 0 /\ last' = sid /\ minted' = (IF sid > minted THEN sid ELSE minted)
  <2>1. Children!Session \in Nat /\ Children!Session \in {last, minted + 1} /\ Children!Session # 0
    BY DEF Children!Session, SessionTypes
  <2> QED
    BY <2>1 DEF Children!run, Children!Keep
<1>2. /\ spawned < MaxRuns /\ spawned' = spawned + 1 /\ child' = spawned + 1
      /\ session' = [session EXCEPT ![spawned + 1] = sid] /\ state' = "HEADLESS_RUNNING"
      /\ late' = (IF life = "closing" THEN late \cup {spawned + 1} ELSE late)
  BY <1>1 DEF Children!run
<1>3. PICK starts \in BOOLEAN :
        /\ alive' = IF starts THEN (alive \ {child}) \cup {spawned + 1} ELSE alive \ {child}
        /\ writing' = starts
  BY DEF Children!run
<1>4. resuming' = (last # 0)
  BY DEF Children!run
<1>5. alive' \in {alive \ {child}, (alive \ {child}) \cup {spawned + 1}}
  BY <1>3
<1>6. HostTypes'
  BY <1>2 DEF HostTypes
<1>7. FlagTypes'
  BY <1>3, <1>4 DEF FlagTypes
<1>8. /\ minted \in Nat /\ minted' \in Nat /\ minted <= minted' /\ sid \in 0 .. minted'
      /\ spawned \in Nat /\ spawned + 1 \in Children!Runs /\ spawned + 1 # 0
  BY <1>1, <1>2 DEF SessionTypes, RunTypes
<1>9. SessionTypes'
  <2>1. session \in [Children!Runs -> 0 .. minted']
    BY <1>8 DEF SessionTypes
  <2> QED
    BY <1>1, <1>2, <1>8, <2>1 DEF SessionTypes
<1>10. RunTypes'
  BY <1>2, <1>5, <1>8 DEF RunTypes
<1>11. /\ session'[spawned + 1] = sid
       /\ \A r \in 1 .. spawned : session'[r] = session[r] /\ r # spawned + 1 /\ session[r] <= minted
                                  /\ r \in Children!Runs
  BY <1>2, <1>8 DEF SessionTypes, RunTypes
<1>12. WriterSound'
  <2>1. /\ alive \subseteq 1 .. spawned /\ unmarked \subseteq 1 .. spawned
    BY DEF WriterSound
  <2>2. alive' \subseteq 1 .. spawned' /\ unmarked' \subseteq 1 .. spawned' /\ child' \in 0 .. spawned'
    BY <1>2, <1>5, <1>8, <2>1
  <2> QED
    BY <1>1, <1>2, <1>8, <1>11, <2>2 DEF WriterSound, Hosted
<1>13. MarkerSound'
  <2>1. (spawned + 1) \notin unmarked /\ (spawned + 1) \notin alive
    BY <1>8 DEF WriterSound
  <2>2. writing' => spawned + 1 \in alive'
    BY <1>3
  <2>3. ~writing' => spawned + 1 \notin alive'
    BY <1>3, <2>1
  <2>4. life = "closing" => spawned + 1 \in late'
    BY <1>2
  <2> QED
    BY <1>2, <2>1, <2>2, <2>3, <2>4 DEF MarkerSound, Hosted
<1>14. ProcessesKnown'
  <2>1. Known' \ {child'} \subseteq Known \ {child}
    BY <1>2, <1>5 DEF Known
  <2>2. ASSUME life = "up", NEW r \in Known \ {child}
        PROVE  r \in 1 .. spawned /\ session[r] # last /\ r \in signalled
    BY <2>2 DEF ProcessesKnown, Known, WriterSound
  <2>3. ASSUME life = "up", NEW r \in Known \ {child} PROVE session'[r] # last'
    BY <2>2, <2>3, <1>1, <1>8, <1>11
  <2>4. life = "up" \/ life = "closing"
    BY DEF Hosted
  <2>5. CASE life = "up"
    BY <2>1, <2>2, <2>3, <2>5 DEF ProcessesKnown, Hosted
  <2>6. CASE life = "closing"
    BY <2>1, <2>6 DEF ProcessesKnown, Hosted
  <2> QED
    BY <2>4, <2>5, <2>6
<1> QED
  BY <1>6, <1>7, <1>9, <1>10, <1>12, <1>13, <1>14

LEMMA DrainKept ==
  ASSUME ChildrenInv, Hosted, state # "BROKEN", NEW waiting \in 0 .. MaxQueue,
         Children!drain(waiting, alive \ {child}), marker' = 0, tui' = 0,
         resumeFails' \in 0 .. MAX_RESUME_FAILS, resumeFails' < MAX_RESUME_FAILS,
         UNCHANGED <<life, hosts, signalled, unknown, unmarked, cut>>
  PROVE  ChildrenInv'
<1>1. CASE waiting = 0 /\ Children!Rests("OFFLINE", alive \ {child})
  BY <1>1, RestsKept
<1>2. CASE waiting > 0 /\ queue' = waiting /\ Children!run(alive \ {child})
  <2>1. queue' \in 1 .. MaxQueue
    BY <1>2, RunFacts
  <2> QED
    BY <1>2, <2>1, RunKept
<1> QED
  BY <1>1, <1>2 DEF Children!drain

(* With no child to wait for, what lives is what lived. *)
LEMMA NoChild == ASSUME ChildrenInv, child = 0 PROVE alive \ {child} = alive
  BY RunFacts DEF ChildrenInv, ChildrenTyped, RunTypes

LEMMA SpawnFailsKept == ASSUME ChildrenInv, Children!SpawnFails PROVE ChildrenInv'
<1>1. /\ Hosted /\ child \notin alive /\ child # 0 /\ Children!Rests("BROKEN", alive)
      /\ marker' = 0 /\ UNCHANGED <<life, hosts, resumeFails, tui>>
      /\ UNCHANGED <<signalled, unknown, unmarked, cut>>
  BY RunFacts DEF Children!SpawnFails, Children!Serves, Children!ghosts, Hosted
<1>2. alive \ {child} = alive
  BY <1>1
<1>3. state # "BROKEN" /\ tui' = 0 /\ resumeFails' \in 0 .. MAX_RESUME_FAILS
  BY <1>1 DEF ChildrenInv, WriterSound, ChildrenTyped, HostTypes
<1> QED
  BY <1>1, <1>2, <1>3, RestsKept

LEMMA ExitsKept ==
  ASSUME ChildrenInv, NEW early \in BOOLEAN, Children!Exits(early) PROVE ChildrenInv'
<1>1. /\ Hosted /\ child \in alive /\ marker' = 0 /\ UNCHANGED <<life, hosts, tui>>
      /\ UNCHANGED <<signalled, unknown, unmarked, cut>>
  BY RunFacts DEF Children!Exits, Children!Serves, Children!ghosts, Hosted
<1>2. PICK fails \in {0, resumeFails + 1} :
        /\ resumeFails' = fails
        /\ IF fails = MAX_RESUME_FAILS THEN Children!Rests("BROKEN", alive \ {child})
           ELSE Children!drain(queue - 1, alive \ {child})
  BY DEF Children!Exits
<1>3. state = "HEADLESS_RUNNING" /\ tui' = 0 /\ queue > 0 /\ resumeFails < MAX_RESUME_FAILS
  <2>1. child # 0
    BY <1>1, RunFacts DEF ChildrenInv, ChildrenTyped, RunTypes
  <2> QED
    BY <1>1, <2>1 DEF ChildrenInv, WriterSound
<1>4. fails \in 0 .. MAX_RESUME_FAILS /\ queue - 1 \in 0 .. MaxQueue
  BY <1>2, <1>3, RunFacts DEF ChildrenInv, ChildrenTyped, HostTypes
<1>5. CASE fails = MAX_RESUME_FAILS
  BY <1>1, <1>2, <1>3, <1>4, <1>5, RestsKept
<1>6. CASE fails # MAX_RESUME_FAILS
  <2>1. fails < MAX_RESUME_FAILS
    BY <1>4, <1>6, RunFacts
  <2> QED
    BY <1>1, <1>2, <1>3, <1>4, <1>6, <2>1, DrainKept
<1> QED
  BY <1>5, <1>6

LEMMA TuiEndsKept == ASSUME ChildrenInv, Children!TuiEnds PROVE ChildrenInv'
<1>1. /\ Hosted /\ ~writing /\ tui # 0 /\ tui' = 0 /\ Children!drain(queue, alive)
      /\ UNCHANGED <<life, hosts, resumeFails, marker, signalled, unknown, unmarked, cut>>
  BY RunFacts DEF Children!TuiEnds, Children!Serves, Children!ghosts, Hosted
<1>2. child = 0 /\ state # "BROKEN" /\ resumeFails < MAX_RESUME_FAILS
  BY <1>1 DEF ChildrenInv, WriterSound
<1>3. marker' = 0
  BY <1>1, <1>2 DEF ChildrenInv, MarkerSound
<1>4. alive \ {child} = alive /\ queue \in 0 .. MaxQueue /\ resumeFails' \in 0 .. MAX_RESUME_FAILS
  BY <1>1, <1>2, NoChild DEF ChildrenInv, ChildrenTyped, HostTypes
<1> QED
  BY <1>1, <1>2, <1>3, <1>4, DrainKept

(* Only the queue changes. *)
LEMMA QueueKept ==
  ASSUME ChildrenInv, queue' \in 0 .. MaxQueue, child # 0 => queue' > 0,
         UNCHANGED <<life, hosts, state, resumeFails, child, resuming, writing, marker, last,
                     minted, spawned, alive, session, tui, signalled, unknown, unmarked, cut, late>>
  PROVE  ChildrenInv'
<1> USE DEF ChildrenInv, ChildrenTyped
<1>1. HostTypes'
  BY DEF HostTypes
<1>2. FlagTypes'
  BY DEF FlagTypes
<1>3. SessionTypes' /\ RunTypes'
  BY DEF SessionTypes, RunTypes
<1>4. WriterSound'
  BY DEF WriterSound, Hosted
<1>5. MarkerSound' /\ ProcessesKnown'
  BY DEF MarkerSound, ProcessesKnown, Known, Hosted
<1> QED
  BY <1>1, <1>2, <1>3, <1>4, <1>5

LEMMA TuiServesKept == ASSUME ChildrenInv, Children!TuiServes PROVE ChildrenInv'
<1>1. /\ tui # 0 /\ queue > 0 /\ queue' = queue - 1
      /\ UNCHANGED <<life, hosts, state, resumeFails, child, resuming, writing, marker, last,
                     minted, spawned, alive, session, tui, signalled, unknown, unmarked, cut, late>>
  BY RunFacts DEF Children!TuiServes, Children!ghosts
<1>2. child = 0 /\ queue' \in 0 .. MaxQueue
  BY <1>1, RunFacts DEF ChildrenInv, WriterSound, ChildrenTyped, HostTypes
<1> QED
  BY <1>1, <1>2, QueueKept

LEMMA EnqueueKept == ASSUME ChildrenInv, Children!Enqueue PROVE ChildrenInv'
<1>1. /\ Hosted /\ ~writing /\ state # "BROKEN" /\ queue < MaxQueue
      /\ UNCHANGED <<life, hosts, resumeFails, marker, tui, signalled, unknown, unmarked, cut>>
  BY DEF Children!Enqueue, Children!ghosts, Hosted
<1>2. queue + 1 \in 0 .. MaxQueue
  BY <1>1, RunFacts DEF ChildrenInv, ChildrenTyped, HostTypes
<1>3. CASE state = "OFFLINE" /\ Children!drain(queue + 1, alive)
  <2>1. child = 0 /\ tui' = 0 /\ resumeFails' \in 0 .. MAX_RESUME_FAILS
        /\ resumeFails' < MAX_RESUME_FAILS
    BY <1>1, <1>3 DEF ChildrenInv, WriterSound, ChildrenTyped, HostTypes
  <2>2. marker' = 0
    BY <1>1, <2>1 DEF ChildrenInv, MarkerSound
  <2>3. alive \ {child} = alive
    BY <2>1, NoChild
  <2> QED
    BY <1>1, <1>2, <1>3, <2>1, <2>2, <2>3, DrainKept
<1>4. CASE /\ queue' = queue + 1
           /\ UNCHANGED <<state, child, resuming, writing, last, minted, spawned, session, alive,
                          late>>
  <2>1. child # 0 => queue' > 0
    BY <1>4, RunFacts DEF ChildrenInv, ChildrenTyped, HostTypes
  <2> QED
    BY <1>1, <1>2, <1>4, <2>1, QueueKept
<1> QED
  BY <1>3, <1>4 DEF Children!Enqueue

(* A process that nobody waits for ends. *)
LEMMA OrphanEndsKept ==
  ASSUME ChildrenInv, NEW r \in Children!Runs, Children!OrphanEnds(r) PROVE ChildrenInv'
<1> USE DEF ChildrenInv, ChildrenTyped
<1>1. /\ r \in alive /\ alive' = alive \ {r} /\ (r # child \/ ~Hosted)
      /\ UNCHANGED <<life, hosts, state, queue, resumeFails, child, marker, last, minted, spawned,
                     session, tui, signalled, unknown, unmarked, late>>
      /\ UNCHANGED <<resuming, writing, cut>>
  BY DEF Children!OrphanEnds, Children!ghosts, Children!writerVars, Hosted
<1>2. HostTypes' /\ SessionTypes' /\ RunTypes'
  BY <1>1 DEF HostTypes, SessionTypes, RunTypes
<1>3. FlagTypes'
  BY <1>1 DEF FlagTypes
<1>4. WriterSound'
  BY <1>1 DEF WriterSound, Hosted
<1>5. MarkerSound'
  BY <1>1 DEF MarkerSound, Hosted
<1>6. ProcessesKnown'
  BY <1>1 DEF ProcessesKnown, Known, Hosted
<1> QED
  BY <1>2, <1>3, <1>4, <1>5, <1>6

LEMMA WriteMarkerKept ==
  ASSUME ChildrenInv, NEW written \in BOOLEAN, Children!WriteMarker(written) PROVE ChildrenInv'
<1> USE DEF ChildrenInv, ChildrenTyped
<1>1. /\ Hosted /\ writing /\ writing' = FALSE
      /\ marker' = (IF written THEN child ELSE marker)
      /\ unmarked' = (IF written THEN unmarked ELSE unmarked \cup {child})
      /\ UNCHANGED <<life, hosts, state, queue, resumeFails, child, last, minted, spawned, alive,
                     session, tui, signalled, unknown, late>>
      /\ UNCHANGED <<resuming, cut>>
  BY DEF Children!WriteMarker, Hosted
<1>2. /\ child \in alive /\ marker = 0 /\ (life = "closing" => child \in late)
      /\ child \in 1 .. spawned
  BY <1>1 DEF MarkerSound, WriterSound
<1>3. \/ marker' = child /\ unmarked' = unmarked
      \/ marker' = 0 /\ unmarked' = unmarked \cup {child}
  BY <1>1, <1>2
<1>4. HostTypes' /\ SessionTypes' /\ RunTypes'
  BY <1>1, <1>2, <1>3 DEF HostTypes, SessionTypes, RunTypes
<1>5. FlagTypes'
  BY <1>1 DEF FlagTypes
<1>6. WriterSound'
  <2>1. unmarked' \subseteq 1 .. spawned
    BY <1>2, <1>3 DEF WriterSound
  <2> QED
    BY <1>1, <2>1 DEF WriterSound, Hosted
<1>7. MarkerSound'
  <2>1. CASE written
    <3>1. marker' = child /\ unmarked' = unmarked
      BY <1>1, <2>1
    <3>2. child \notin unmarked
      BY <1>1 DEF MarkerSound
    <3> QED
      BY <1>1, <1>2, <3>1, <3>2 DEF MarkerSound, Hosted
  <2>2. CASE ~written
    BY <1>1, <1>2, <2>2 DEF MarkerSound, Hosted
  <2> QED
    BY <2>1, <2>2
<1>8. ProcessesKnown'
  BY <1>1 DEF ProcessesKnown, Known, Hosted
<1> QED
  BY <1>4, <1>5, <1>6, <1>7, <1>8

(* The interactive session begins on the stored or a new id: no run is waited for. *)
LEMMA InteractiveKept ==
  ASSUME ChildrenInv, NEW sid \in 1 .. (minted + 1), Children!Interactive(sid), life = "up",
         child = 0, tui = 0, ~writing, sid = minted + 1 \/ (sid = last /\ state # "BROKEN")
  PROVE  ChildrenInv'
<1> USE RunFacts DEF ChildrenInv, ChildrenTyped
<1>1. /\ last' = sid /\ minted' = (IF sid > minted THEN sid ELSE minted) /\ tui' = sid
      /\ state' = "INTERACTIVE_RUNNING" /\ resumeFails' = 0
      /\ UNCHANGED <<life, hosts, queue, child, marker, spawned, alive, session, signalled,
                     unknown, unmarked, late>>
  BY DEF Children!Interactive, Children!Keep, Children!ghosts
<1>2. UNCHANGED <<resuming, writing, cut>>
  BY DEF Children!Interactive, Children!ghosts
<1>3. HostTypes'
  BY <1>1 DEF HostTypes
<1>4. FlagTypes'
  BY <1>2 DEF FlagTypes
<1>5. minted \in Nat /\ minted' \in Nat /\ minted <= minted' /\ sid \in 1 .. minted'
  BY <1>1 DEF SessionTypes
<1>6. SessionTypes'
  <2>1. session \in [Children!Runs -> 0 .. minted']
    BY <1>5 DEF SessionTypes
  <2> QED
    BY <1>1, <1>5, <2>1 DEF SessionTypes
<1>7. RunTypes'
  BY <1>1 DEF RunTypes
<1>8. WriterSound'
  BY <1>1, <1>5 DEF WriterSound, Hosted
<1>9. MarkerSound'
  BY <1>1, <1>2 DEF MarkerSound, Hosted
<1>10. ProcessesKnown'
  <2>1. ASSUME NEW r \in Known \ {child} PROVE session[r] # sid
    <3>1. r \in Children!Runs /\ session[r] <= minted /\ session[r] \in Nat
      BY DEF Known, RunTypes, SessionTypes
    <3>2. CASE sid = minted + 1
      BY <1>5, <3>1, <3>2
    <3>3. CASE sid = last /\ state # "BROKEN"
      BY <3>3 DEF ProcessesKnown
    <3> QED
      BY <3>2, <3>3
  <2> QED
    BY <1>1, <2>1 DEF ProcessesKnown, Known, Hosted
<1> QED
  BY <1>3, <1>4, <1>6, <1>7, <1>8, <1>9, <1>10

LEMMA OpenKept ==
  ASSUME ChildrenInv, Children!Open \/ Children!Restart PROVE ChildrenInv'
<1>1. minted \in Nat /\ last \in 0 .. minted
  BY DEF ChildrenInv, ChildrenTyped, SessionTypes
<1>2. CASE Children!Open
  <2>1. PICK sid \in 1 .. (minted + 1) :
          /\ Children!Interactive(sid)
          /\ sid = minted + 1 \/ sid = last
    <3>1. Children!Session \in 1 .. (minted + 1)
          /\ (Children!Session = minted + 1 \/ Children!Session = last)
      BY <1>1, RunFacts DEF Children!Session
    <3> QED
      BY <1>2, <3>1 DEF Children!Open
  <2>2. life = "up" /\ ~writing /\ state = "OFFLINE"
    BY <1>2 DEF Children!Open
  <2>3. child = 0 /\ tui = 0
    BY <2>2 DEF ChildrenInv, WriterSound
  <2> QED
    BY <2>1, <2>2, <2>3, InteractiveKept
<1>3. CASE Children!Restart
  <2>1. life = "up" /\ ~writing /\ state = "BROKEN" /\ Children!Interactive(minted + 1)
    BY <1>3 DEF Children!Restart
  <2>2. child = 0 /\ tui = 0
    BY <2>1 DEF ChildrenInv, WriterSound
  <2>3. minted + 1 \in 1 .. (minted + 1)
    BY <1>1
  <2> QED
    BY <2>1, <2>2, <2>3, InteractiveKept
<1> QED
  BY <1>2, <1>3

(* The host is gone, and with it the PTY and what was in memory; the marker and the
   processes stay. *)
LEMMA GoneKept ==
  ASSUME ChildrenInv, Children!Gone, marker' \in {marker, Children!Torn, 0},
         marker' \in {0, marker} \/ writing, cut' \in BOOLEAN, unknown' \subseteq Children!Runs,
         marker' # 0 => cut' \/ marker' \in late, alive \ unknown' \subseteq {marker'}
  PROVE  ChildrenInv'
<1> USE RunFacts DEF ChildrenInv, ChildrenTyped
<1>1. /\ life' = "down" /\ state' = "OFFLINE" /\ queue' = 0 /\ resumeFails' = 0
      /\ child' = 0 /\ tui' = 0
      /\ UNCHANGED <<hosts, last, minted, spawned, alive, session, signalled, unmarked, late>>
  BY DEF Children!Gone, Children!Idle
<1>2. resuming' = FALSE /\ writing' = FALSE
  BY DEF Children!Gone, Children!Idle
<1>3. HostTypes' /\ SessionTypes' /\ RunTypes'
  BY <1>1 DEF HostTypes, SessionTypes, RunTypes
<1>4. FlagTypes'
  BY <1>2 DEF FlagTypes
<1>5. WriterSound'
  BY <1>1 DEF WriterSound, Hosted, RunTypes
<1>6. MarkerSound'
  BY <1>1, <1>2 DEF MarkerSound, Hosted
<1>7. ProcessesKnown'
  BY <1>1 DEF ProcessesKnown, Known, Hosted
<1> QED
  BY <1>3, <1>4, <1>5, <1>6, <1>7

(* What a host knows of that dies with it, and what its marker keeps. *)
LEMMA WhatIsLost ==
  ASSUME ChildrenInv, NEW m, m \in {marker, Children!Torn},
         unknown' = unknown \cup Children!Forgotten
                      \cup (IF marker # child THEN {child} \cap alive ELSE {}),
         m = marker \/ writing
  PROVE  unknown' \subseteq Children!Runs /\ alive \ unknown' \subseteq {m}
<1> USE RunFacts DEF ChildrenInv, ChildrenTyped
<1>1. unknown' \subseteq Children!Runs
  BY DEF RunTypes, Children!Forgotten
<1>2. ASSUME NEW r \in alive \ unknown' PROVE r = m
  <2>1. r \in Known /\ r \notin signalled /\ r # 0
    BY <1>2 DEF Known, Children!Forgotten, RunTypes
  <2>2. r = child => marker = child
    BY <1>2
  <2>3. CASE ~Hosted
    BY <2>1, <2>3 DEF ProcessesKnown, MarkerSound
  <2>4. CASE Hosted
    <3>1. r = child
      BY <2>1, <2>4 DEF ProcessesKnown, Hosted
    <3>2. ~writing
      BY <2>1, <2>2, <3>1 DEF MarkerSound
    <3> QED
      BY <2>2, <3>1, <3>2
  <2> QED
    BY <2>3, <2>4
<1> QED
  BY <1>1, <1>2

LEMMA CrashKept == ASSUME ChildrenInv, Children!Crash PROVE ChildrenInv'
<1> USE RunFacts
<1>1. /\ Children!Gone /\ marker' \in {marker, Children!Torn} /\ (marker' = marker \/ writing)
      /\ unknown' = unknown \cup Children!Forgotten
                      \cup (IF marker # child THEN {child} \cap alive ELSE {})
  BY DEF Children!Crash
<1>2. cut' = (cut \/ child \in alive)
  BY DEF Children!Crash
<1>3. cut' \in BOOLEAN
  BY <1>2 DEF ChildrenInv, ChildrenTyped, FlagTypes
<1>4. unknown' \subseteq Children!Runs /\ alive \ unknown' \subseteq {marker'}
  BY <1>1, WhatIsLost
<1>5. ASSUME marker' # 0 PROVE cut' \/ marker' \in late
  <2>1. CASE writing
    BY <1>2, <2>1 DEF ChildrenInv, MarkerSound
  <2>2. CASE ~writing /\ life = "up"
    BY <1>1, <1>2, <1>5, <2>2 DEF ChildrenInv, MarkerSound
  <2>3. CASE ~writing /\ life # "up"
    BY <1>1, <1>2, <1>5, <2>3 DEF ChildrenInv, MarkerSound, Hosted, ChildrenTyped, HostTypes
  <2> QED
    BY <2>1, <2>2, <2>3
<1> QED
  BY <1>1, <1>3, <1>4, <1>5, GoneKept

LEMMA ExitKept == ASSUME ChildrenInv, Children!Exit PROVE ChildrenInv'
<1> USE RunFacts
<1>1. /\ life = "closing" /\ ~writing /\ Children!Gone /\ marker' = marker
      /\ unknown' = unknown \cup Children!Forgotten
                      \cup (IF marker # child THEN {child} \cap alive ELSE {})
  BY DEF Children!Exit
<1>2. cut' = cut
  BY DEF Children!Exit
<1>3. cut' \in BOOLEAN /\ (marker' # 0 => marker' \in late)
  BY <1>1, <1>2 DEF ChildrenInv, ChildrenTyped, FlagTypes, MarkerSound
<1>4. unknown' \subseteq Children!Runs /\ alive \ unknown' \subseteq {marker'}
  BY <1>1, WhatIsLost
<1> QED
  BY <1>1, <1>3, <1>4, GoneKept

LEMMA ShutdownKept == ASSUME ChildrenInv, Children!Shutdown PROVE ChildrenInv'
<1> USE RunFacts DEF ChildrenInv, ChildrenTyped
<1>1. /\ life = "up" /\ life' = "closing" /\ ~writing
      /\ marker' = (IF child # 0 THEN 0 ELSE marker)
      /\ unknown' = unknown \cup Children!Forgotten \cup ({child} \cap alive)
      /\ UNCHANGED <<hosts, state, queue, resumeFails, child, last, minted, spawned, alive, session,
                     tui, signalled, unmarked, late>>
  BY DEF Children!Shutdown, Children!writerVars
<1>2. UNCHANGED <<resuming, writing, cut>>
  BY DEF Children!Shutdown, Children!writerVars
<1>3. marker' = 0
  BY <1>1 DEF MarkerSound
<1>4. HostTypes' /\ SessionTypes' /\ RunTypes'
  BY <1>1, <1>3 DEF HostTypes, SessionTypes, RunTypes, Children!Forgotten
<1>5. FlagTypes'
  BY <1>2 DEF FlagTypes
<1>6. WriterSound'
  BY <1>1 DEF WriterSound, Hosted
<1>7. MarkerSound'
  BY <1>1, <1>2, <1>3 DEF MarkerSound, Hosted
<1>8. ProcessesKnown'
  BY <1>1 DEF ProcessesKnown, Known, Hosted, Children!Forgotten
<1> QED
  BY <1>4, <1>5, <1>6, <1>7, <1>8

LEMMA BootStartsKept == ASSUME ChildrenInv, Children!BootStarts PROVE ChildrenInv'
<1> USE RunFacts DEF ChildrenInv, ChildrenTyped
<1>1. /\ life = "down" /\ life' = "booting" /\ hosts < MaxHosts /\ hosts' = hosts + 1
      /\ UNCHANGED <<state, queue, resumeFails, child, marker, last, minted, spawned, alive, session,
                     tui, signalled, unknown, unmarked, late>>
  BY DEF Children!BootStarts, Children!writerVars, Children!ghosts
<1>2. UNCHANGED <<resuming, writing, cut>>
  BY DEF Children!BootStarts, Children!writerVars, Children!ghosts
<1>3. HostTypes' /\ SessionTypes' /\ RunTypes'
  BY <1>1 DEF HostTypes, SessionTypes, RunTypes
<1>4. FlagTypes'
  BY <1>2 DEF FlagTypes
<1>5. WriterSound'
  BY <1>1 DEF WriterSound, Hosted
<1>6. MarkerSound'
  BY <1>1, <1>2 DEF MarkerSound, Hosted
<1>7. ProcessesKnown'
  BY <1>1 DEF ProcessesKnown, Known, Hosted
<1> QED
  BY <1>3, <1>4, <1>5, <1>6, <1>7

(* The boot condemns the one process that the marker names, and the agent is broken. *)
LEMMA ReconcileKept == ASSUME ChildrenInv, Children!reconcileSpawnMarkers PROVE ChildrenInv'
<1> USE RunFacts DEF ChildrenInv, ChildrenTyped
<1>1. /\ life = "booting" /\ life' = "up" /\ marker' = 0
      /\ signalled' = (IF marker \in alive THEN signalled \cup {marker} ELSE signalled)
      /\ state' = (IF marker \in Children!Runs THEN "BROKEN" ELSE state)
      /\ UNCHANGED <<hosts, queue, resumeFails, child, last, minted, spawned, alive, session, tui,
                     unknown, unmarked, late>>
  BY DEF Children!reconcileSpawnMarkers
<1>2. UNCHANGED <<resuming, writing, cut>>
  BY DEF Children!reconcileSpawnMarkers
<1>3. state = "OFFLINE" /\ child = 0 /\ tui = 0 /\ ~writing /\ Known \subseteq {marker}
  BY <1>1 DEF WriterSound, MarkerSound, ProcessesKnown, Hosted
<1>4. HostTypes' /\ SessionTypes' /\ RunTypes'
  BY <1>1 DEF HostTypes, SessionTypes, RunTypes
<1>5. FlagTypes'
  BY <1>2 DEF FlagTypes
<1>6. WriterSound'
  BY <1>1, <1>3 DEF WriterSound, Hosted
<1>7. MarkerSound'
  BY <1>1, <1>2, <1>3 DEF MarkerSound, Hosted, WriterSound, RunTypes
<1>8. ProcessesKnown'
  <2>1. \A r \in Known : r = marker /\ r \in alive /\ r \in Children!Runs
    BY <1>3 DEF Known, RunTypes
  <2>2. Known' = Known
    BY <1>1 DEF Known
  <2>3. \A r \in Known : r \in signalled' /\ state' = "BROKEN"
    BY <1>1, <2>1
  <2> QED
    BY <1>1, <2>1, <2>2, <2>3 DEF ProcessesKnown, Hosted
<1> QED
  BY <1>4, <1>5, <1>6, <1>7, <1>8

LEMMA ChildrenRest == ASSUME ChildrenInv, UNCHANGED Children!vars PROVE ChildrenInv'
<1> USE DEF ChildrenInv, ChildrenTyped
<1>1. /\ UNCHANGED <<life, hosts, state, queue, resumeFails, child, marker, last, minted, spawned,
                     alive, session, tui, signalled, unknown, unmarked, late>>
      /\ UNCHANGED <<resuming, writing, cut>>
  BY DEF Children!vars, Children!writerVars
<1>2. HostTypes'
  BY <1>1 DEF HostTypes
<1>3. queue' \in 0 .. MaxQueue /\ (child # 0 => queue' > 0)
  BY <1>1 DEF HostTypes, WriterSound
<1> QED
  BY <1>1, <1>3, QueueKept

(* The inductive invariant of the children: the marker names the child the host waits for
   or is missing, and of the processes that a host can know of, besides that child, there
   is the marked one while no host runs and the one that the boot condemned after it. *)
THEOREM ChildrenInductive == Children!Spec => []ChildrenInv
<1>1. ChildrenInv /\ [Children!Next]_Children!vars => ChildrenInv'
  <2> SUFFICES ASSUME ChildrenInv, [Children!Next]_Children!vars PROVE ChildrenInv'
    OBVIOUS
  <2>1. CASE \/ Children!Enqueue \/ Children!SpawnFails \/ Children!Open \/ Children!Restart
             \/ Children!TuiEnds \/ Children!TuiServes
    BY <2>1, EnqueueKept, SpawnFailsKept, OpenKept, TuiEndsKept, TuiServesKept
  <2>2. ASSUME NEW ok \in BOOLEAN, Children!WriteMarker(ok) \/ Children!Exits(ok)
        PROVE  ChildrenInv'
    BY <2>2, WriteMarkerKept, ExitsKept
  <2>3. ASSUME NEW r \in Children!Runs, Children!OrphanEnds(r) PROVE ChildrenInv'
    BY <2>3, OrphanEndsKept
  <2>4. CASE \/ Children!Crash \/ Children!Shutdown \/ Children!Exit \/ Children!BootStarts
             \/ Children!reconcileSpawnMarkers
    BY <2>4, CrashKept, ShutdownKept, ExitKept, BootStartsKept, ReconcileKept
  <2>5. CASE UNCHANGED Children!vars
    BY <2>5, ChildrenRest
  <2> QED
    BY <2>1, <2>2, <2>3, <2>4, <2>5 DEF Children!Next
<1> QED
  BY ChildrenBegin, <1>1, PTL DEF Children!Spec

(* No transcript has two writers that a host can know of, over any number of hosts,
   crashes and shutdowns, the marker names the child while its host is up, and a marker
   found at a boot was left by a crash or by a run that shutdown's own exits started
   (headless-strategy.ts, spawn-marker.ts). *)
THEOREM OneWriterOverHosts == Children!Spec => []RecoverySound
<1>1. ChildrenInv => RecoverySound
  <2> SUFFICES ASSUME ChildrenInv PROVE RecoverySound
    OBVIOUS
  <2> USE DEF ChildrenInv
  <2>1. Children!TypeOK
    BY ChildrenTypeCorrect
  <2>2. ASSUME NEW r \in Known, NEW s \in Known, session[r] = session[s] PROVE r = s
    <3>1. CASE ~Hosted
      BY <3>1 DEF ProcessesKnown
    <3>2. CASE life = "closing"
      BY <3>2 DEF ProcessesKnown
    <3>3. CASE life = "up" /\ (r = child \/ s = child)
      <4>1. r # 0 /\ s # 0
        BY RunFacts DEF Known, ChildrenTyped, RunTypes
      <4>2. child # 0 /\ session[child] = last /\ state # "BROKEN"
        BY <3>3, <4>1 DEF WriterSound
      <4> QED
        BY <2>2, <3>3, <4>2 DEF ProcessesKnown
    <3>4. CASE life = "up" /\ r # child /\ s # child
      BY <3>4 DEF ProcessesKnown
    <3> QED
      BY <3>1, <3>2, <3>3, <3>4 DEF Hosted
  <2>3. ASSUME NEW r \in Known, tui # 0 PROVE session[r] # tui
    <3>1. state = "INTERACTIVE_RUNNING" /\ tui = last /\ child = 0 /\ Hosted
      BY <2>3 DEF WriterSound
    <3>2. r # 0
      BY RunFacts DEF Known, ChildrenTyped, RunTypes
    <3> QED
      BY <3>1, <3>2 DEF ProcessesKnown, Hosted
  <2>4. Children!OneWriter
    <3> SUFFICES ASSUME NEW v \in Children!Writers, NEW w \in Children!Writers,
                        Children!SessionOf(v) = Children!SessionOf(w)
                 PROVE  v = w
      BY DEF Children!OneWriter
    <3>1. \A x \in Children!Writers :
            \/ \E r \in Known : x = <<"run", r>> /\ Children!SessionOf(x) = session[r]
            \/ x = <<"tui", 0>> /\ tui # 0 /\ Children!SessionOf(x) = tui
      BY RunFacts DEF Children!Writers, Children!SessionOf, Known
    <3> QED
      BY <2>2, <2>3, <3>1
  <2>5. Children!MarkerNamesTheChild /\ Children!BlameIsDue
    BY RunFacts DEF MarkerSound, Hosted, Children!MarkerNamesTheChild, Children!BlameIsDue
  <2> QED
    BY <2>1, <2>4, <2>5 DEF RecoverySound, Children!RecoverySound
<1> QED
  BY <1>1, ChildrenInductive, PTL

-----------------------------------------------------------------------------
(***************************************************************************)
(* OrderLedger: the books of the broker service.                           *)
(***************************************************************************)
MarketTypes ==
  /\ remote \in [Orders -> Books!OrderState] /\ aged \subseteq Books!Existing
  /\ ledger \in [Orders -> Books!OrderState]
  /\ rewound \subseteq Orders /\ owed \subseteq Orders

FetchTypes ==
  /\ poll \in [stage : {"none", "assets", "sweep", "recent"}, fetch : Books!Fetch]
  /\ refresh \in [stage : {"none", "sweep"}, fetch : Books!Fetch]

SwitchTypes == connected \in BOOLEAN /\ sweepDue \in BOOLEAN

CountTypes ==
  /\ notified \in [Orders -> Nat]
  /\ ends \in 0 .. MaxEnds /\ refreshes \in 0 .. MaxRefreshes

(* The list of order o has answered the fetch. *)
Answered(f, o) == ListOf[o] <= f.list

(* What a fetch holds is or was so at the broker. *)
Past(f) ==
  \A o \in Orders : /\ f.got[o] = "terminal" => remote[o] = "terminal"
                    /\ f.got[o] # "none" => remote[o] # "none"

(* A sweep holds what there was when it began, of the lists that answered. *)
SweepSound(f) ==
  /\ Past(f) /\ f.start \subseteq Books!Existing
  /\ \A o \in f.start : Answered(f, o) => f.got[o] # "none"

FetchesSound ==
  /\ poll.stage = "assets" => poll.fetch.list = 0 /\ poll.fetch.got = Books!Nothing
                              /\ poll.fetch.start \subseteq Books!Existing
  /\ poll.stage = "sweep" => SweepSound(poll.fetch)
  /\ poll.stage = "recent" => Past(poll.fetch)
  /\ refresh.stage = "sweep" => SweepSound(refresh.fetch)

(* The poll will take o's terminal state out of the ledger: it read o before the end. *)
Overtaken(o) ==
  \/ poll.stage = "sweep" /\ Answered(poll.fetch, o) /\ poll.fetch.got[o] # "terminal"
  \/ poll.stage = "recent" /\ poll.fetch.got[o] = "open"

(* How many more notifications of o what is under way can lead to, at most. *)
Due(o) == IF ledger[o] # "terminal" \/ Overtaken(o) THEN 1 ELSE 0
Refreshing == IF refresh.stage = "sweep" THEN 1 ELSE 0
Counted == \A o \in Orders : notified[o] + Due(o) + Refreshing <= ends + refreshes + 1

(* The ledger of a host that restarted has not seen its first sweep yet, and that sweep
   will find what was notified before. *)
Unseeded(o) ==
  /\ sweepDue = TRUE /\ poll.stage # "recent"
  /\ poll.stage = "sweep" /\ Answered(poll.fetch, o) => poll.fetch.got[o] = "terminal"
  /\ refresh.stage = "sweep" /\ Answered(refresh.fetch, o) => refresh.fetch.got[o] = "terminal"

Told(o) == o \in Linked /\ remote[o] = "terminal"
NoticesSound ==
  \A o \in Orders :
    /\ notified[o] > 0 => Told(o) /\ (ledger[o] = "terminal" \/ o \in rewound \/ Unseeded(o))
    /\ notified[o] > 1 => o \in rewound

FailuresSound ==
  /\ failures \in 0 .. MaxFailures /\ logged \in Nat /\ suppressed \in Nat /\ failed \in Nat
  /\ lastLog \in {"none", "network", "other"}
  /\ failures = logged + suppressed /\ failed <= failures
  /\ suppressed > 0 => lastLog # "none"
OutageSound == offline \in BOOLEAN /\ (offline <=> failed # 0)

BooksInv ==
  /\ MarketTypes /\ FetchTypes /\ SwitchTypes /\ CountTypes
  /\ FetchesSound /\ Books!SweptComplete /\ Counted /\ NoticesSound
  /\ FailuresSound /\ OutageSound


LEMMA BookFacts ==
  /\ Linked \subseteq Orders /\ Lists \in {1, 2, 3} /\ ListOf \in [Orders -> 1 .. Lists]
  /\ MaxDays \in Nat /\ MaxRefreshes \in Nat /\ MaxEnds \in Nat /\ MaxFailures \in Nat
  /\ Books!OrderState = {"none", "open", "terminal"}
  /\ \A o \in Orders : Books!Nothing[o] = "none"
  /\ Books!Nothing \in [Orders -> Books!OrderState]
<1>1. Lists \in 1 .. 3
  BY BooksAssumption DEF Books!LedgerAssumption
<1> QED
  BY <1>1, BooksAssumption DEF Books!LedgerAssumption, Books!OrderState, Books!Nothing

LEMMA FetchSet ==
  \A f : f \in Books!Fetch <=>
    /\ f = [list |-> f.list, got |-> f.got, start |-> f.start]
    /\ f.list \in 0 .. (Lists - 1) /\ f.got \in [Orders -> Books!OrderState]
    /\ f.start \subseteq Orders
  BY DEF Books!Fetch

(* One more list answers. *)
LEMMA FetchGoesOn ==
  ASSUME MarketTypes, NEW f \in Books!Fetch, NEW window \in SUBSET Orders, NEW g,
         g = Books!fetchHistory(f, window)
  PROVE  /\ g \in Books!Fetch /\ g.start = f.start
         /\ \A o \in Orders : IF o \in window /\ ListOf[o] = f.list + 1
                              THEN g.got[o] = remote[o] ELSE g.got[o] = f.got[o]
         /\ g.list # 0 => \A o \in Orders : Answered(g, o) => Answered(f, o) \/ ListOf[o] = f.list + 1
         /\ g.list = 0 => \A o \in Orders : Answered(f, o) \/ ListOf[o] = f.list + 1
<1>1. /\ f = [list |-> f.list, got |-> f.got, start |-> f.start]
      /\ f.list \in 0 .. (Lists - 1) /\ f.got \in [Orders -> Books!OrderState]
      /\ f.start \subseteq Orders
  BY FetchSet
<1>2. PICK n \in 0 .. (Lists - 1) : n = IF f.list = Lists - 1 THEN 0 ELSE f.list + 1
  <2>1. (IF f.list = Lists - 1 THEN 0 ELSE f.list + 1) \in 0 .. (Lists - 1)
    BY <1>1, BookFacts
  <2> QED
    BY <2>1
<1>3. PICK got \in [Orders -> Books!OrderState] :
        got = [o \in Orders |-> IF o \in window /\ ListOf[o] = f.list + 1
                                THEN remote[o] ELSE f.got[o]]
  BY <1>1 DEF MarketTypes
<1>4. g = [list |-> n, got |-> got, start |-> f.start]
  BY <1>1, <1>2, <1>3 DEF Books!fetchHistory
<1>5. g.list = n /\ g.got = got /\ g.start = f.start
  BY <1>4
<1>6. g \in Books!Fetch
  BY <1>1, <1>4, <1>5, FetchSet
<1>7. n # 0 => \A o \in Orders : Answered(g, o) => Answered(f, o) \/ ListOf[o] = f.list + 1
  BY <1>1, <1>2, <1>5, BookFacts DEF Answered
<1>8. n = 0 => \A o \in Orders : Answered(f, o) \/ ListOf[o] = f.list + 1
  BY <1>1, <1>2, BookFacts DEF Answered
<1> QED
  BY <1>3, <1>5, <1>6, <1>7, <1>8

(* What a fetch has read stays so, and a sweep holds more of what there was. *)
LEMMA FetchStaysPast ==
  ASSUME MarketTypes, NEW f \in Books!Fetch, NEW window \in SUBSET Orders, Past(f), NEW g,
         g = Books!fetchHistory(f, window)
  PROVE  Past(g)
  BY FetchGoesOn DEF Past

LEMMA SweepGoesOn ==
  ASSUME MarketTypes, NEW f \in Books!Fetch, SweepSound(f), NEW g,
         g = Books!fetchHistory(f, Orders)
  PROVE  /\ g.list # 0 => SweepSound(g)
         /\ g.list = 0 => /\ Past(g) /\ g.start = f.start /\ f.start \subseteq Books!Existing
                          /\ \A o \in f.start : g.got[o] # "none"
<1>1. Past(g) /\ g.start = f.start /\ f.start \subseteq Books!Existing
  BY FetchStaysPast, FetchGoesOn DEF SweepSound
<1>2. \A o \in f.start : o \in Orders /\ remote[o] # "none"
  BY <1>1 DEF Books!Existing
<1>3. ASSUME NEW o \in f.start, Answered(f, o) \/ ListOf[o] = f.list + 1
      PROVE  g.got[o] # "none"
  BY <1>2, <1>3, FetchGoesOn DEF SweepSound
<1> QED
  BY <1>1, <1>2, <1>3, FetchGoesOn DEF SweepSound

LEMMA IdleIsFetch ==
  /\ Books!Idle \in [stage : {"none", "assets", "sweep", "recent"}, fetch : Books!Fetch]
  /\ Books!Idle \in [stage : {"none", "sweep"}, fetch : Books!Fetch]
  /\ Books!Idle.stage = "none"
<1>1. [list |-> 0, got |-> Books!Nothing, start |-> {}] \in Books!Fetch
  BY BookFacts DEF Books!Fetch
<1> QED
  BY <1>1 DEF Books!Idle

LEMMA BooksBegin == Books!Init => BooksInv
<1> SUFFICES ASSUME Books!Init PROVE BooksInv
  OBVIOUS
<1>1. MarketTypes
  BY BookFacts DEF Books!Init, MarketTypes, Books!Existing
<1>2. FetchTypes /\ poll.stage = "none" /\ refresh.stage = "none"
  BY IdleIsFetch DEF Books!Init, FetchTypes
<1>3. SwitchTypes
  BY DEF Books!Init, SwitchTypes
<1>4. CountTypes /\ \A o \in Orders : notified[o] = 0 /\ ledger[o] = "none"
  BY BookFacts DEF Books!Init, CountTypes
<1>5. FetchesSound /\ Books!SweptComplete
  BY <1>2, <1>4 DEF Books!Init, FetchesSound, Books!SweptComplete
<1>6. Counted /\ NoticesSound
  BY <1>2, <1>4 DEF Books!Init, Counted, NoticesSound, Due, Refreshing, Overtaken
<1>7. FailuresSound
  BY BookFacts DEF Books!Init, FailuresSound
<1>8. OutageSound
  <2>1. failed = 0
    BY DEF Books!Init
  <2> QED
    BY <2>1, Zenon DEF Books!Init, OutageSound
<1> QED
  BY <1>1, <1>2, <1>3, <1>4, <1>5, <1>6, <1>7, <1>8 DEF BooksInv

LEMMA BooksSame ==
  ASSUME FailuresSound, OutageSound, UNCHANGED Books!books
  PROVE  FailuresSound' /\ OutageSound'
<1>1. UNCHANGED <<failures, logged, suppressed, failed, lastLog>>
  BY DEF Books!books
<1>2. UNCHANGED offline
  BY DEF Books!books
<1>3. FailuresSound'
  BY <1>1 DEF FailuresSound
<1>4. failed' = failed
  BY <1>1
<1> QED
  BY <1>2, <1>3, <1>4, Zenon DEF OutageSound

(* At the broker an order comes to be, and is over once. *)
LEMMA MarketMoves ==
  ASSUME BooksInv, NEW p \in Orders, NEW after \in Books!OrderState,
         \/ remote[p] = "none" /\ after = "open"
         \/ remote[p] = "open" /\ after = "terminal",
         remote' = [remote EXCEPT ![p] = after],
         UNCHANGED <<aged, connected, ledger, sweepDue, poll, refresh>>,
         UNCHANGED Books!books, UNCHANGED Books!bounds, UNCHANGED Books!seen
  PROVE  BooksInv'
<1> USE DEF BooksInv
<1>1. /\ remote' \in [Orders -> Books!OrderState] /\ remote'[p] = after /\ after # "none"
      /\ \A o \in Orders : o # p => remote'[o] = remote[o]
  BY DEF MarketTypes
<1>2. \A o \in Orders : /\ remote[o] # "none" => remote'[o] # "none"
                        /\ remote[o] = "terminal" => remote'[o] = "terminal"
  BY <1>1
<1>3. UNCHANGED <<aged, ledger, poll, refresh, notified, rewound, owed, ends, refreshes>>
  BY DEF Books!bounds, Books!seen
<1>4. Books!Existing \subseteq Books!Existing'
  BY <1>2 DEF Books!Existing
<1>5. MarketTypes'
  BY <1>1, <1>3, <1>4 DEF MarketTypes
<1>6. FetchTypes' /\ CountTypes'
  BY <1>3 DEF FetchTypes, CountTypes, Books!Fetch
<1>7. SwitchTypes'
  BY DEF SwitchTypes
<1>8. \A f : /\ Past(f) => Past(f)'
             /\ SweepSound(f) => SweepSound(f)'
  BY <1>2, <1>4 DEF Past, SweepSound, Answered
<1>9. FetchesSound'
  BY <1>3, <1>4, <1>8 DEF FetchesSound
<1>10. Books!SweptComplete'
  BY <1>2, <1>3 DEF Books!SweptComplete
<1>11. Counted' /\ NoticesSound'
  BY <1>2, <1>3 DEF Counted, NoticesSound, Due, Refreshing, Overtaken, Unseeded, Told, Answered
<1>12. FailuresSound' /\ OutageSound'
  BY BooksSame
<1> QED
  BY <1>5, <1>6, <1>7, <1>9, <1>10, <1>11, <1>12

LEMMA PollStartsKept == ASSUME BooksInv, Books!PollStarts PROVE BooksInv'
<1> USE DEF BooksInv
<1>1. /\ poll.stage = "none" /\ poll' = [stage |-> "assets", fetch |-> Books!Begin]
      /\ UNCHANGED <<remote, aged, ledger, refresh, ends, refreshes, notified, rewound, owed>>
  BY DEF Books!PollStarts, Books!market, Books!bounds, Books!seen
<1>2. UNCHANGED <<sweepDue, connected>> /\ UNCHANGED Books!books
  BY DEF Books!PollStarts
<1>3. Books!Existing \subseteq Orders
  BY DEF Books!Existing
<1>4. /\ Books!Begin \in Books!Fetch /\ Books!Begin.list = 0
      /\ Books!Begin.got = Books!Nothing /\ Books!Begin.start = Books!Existing
  BY <1>3, BookFacts DEF Books!Begin, Books!Fetch
<1>5. poll'.stage = "assets" /\ poll'.fetch = Books!Begin /\ Books!Existing' = Books!Existing
  BY <1>1 DEF Books!Existing
<1>6. MarketTypes' /\ CountTypes'
  BY <1>1, <1>5 DEF MarketTypes, CountTypes
<1>7. FetchTypes'
  BY <1>1, <1>4 DEF FetchTypes
<1>8. SwitchTypes'
  BY <1>2 DEF SwitchTypes
<1>9. FetchesSound'
  BY <1>1, <1>4, <1>5 DEF FetchesSound, SweepSound, Past, Answered
<1>10. Books!SweptComplete'
  BY <1>1 DEF Books!SweptComplete
<1>11. Counted'
  BY <1>1, <1>5 DEF Counted, Due, Refreshing, Overtaken
<1>12. NoticesSound'
  BY <1>1, <1>2, <1>5 DEF NoticesSound, Unseeded, Told, Answered
<1>13. FailuresSound' /\ OutageSound'
  BY <1>2, BooksSame
<1> QED
  BY <1>6, <1>7, <1>8, <1>9, <1>10, <1>11, <1>12, <1>13

(* On to the sweep if one is due, and to the recent window else. *)
LEMMA AssetsAnswerKept == ASSUME BooksInv, Books!AssetsAnswer PROVE BooksInv'
<1> USE DEF BooksInv
<1>1. /\ poll.stage = "assets"
      /\ UNCHANGED <<remote, aged, ledger, refresh, ends, refreshes, notified, rewound, owed>>
  BY DEF Books!AssetsAnswer, Books!market, Books!bounds, Books!seen
<1>2. UNCHANGED <<sweepDue, connected>> /\ UNCHANGED Books!books
  BY DEF Books!AssetsAnswer
<1>3. PICK next \in {"sweep", "recent"} :
        /\ poll' = [poll EXCEPT !.stage = next]
        /\ next = "recent" => sweepDue = FALSE
  BY DEF Books!AssetsAnswer, SwitchTypes
<1>4. poll'.stage = next /\ poll'.fetch = poll.fetch
  BY <1>3 DEF FetchTypes
<1>5. MarketTypes' /\ CountTypes' /\ Books!Existing' = Books!Existing
  BY <1>1 DEF MarketTypes, CountTypes, Books!Existing
<1>6. FetchTypes'
  BY <1>1, <1>3 DEF FetchTypes
<1>7. SwitchTypes'
  BY <1>2 DEF SwitchTypes
<1>8. /\ poll.fetch.list = 0 /\ poll.fetch.start \subseteq Books!Existing
      /\ \A o \in Orders : poll.fetch.got[o] = "none" /\ ~Answered(poll.fetch, o)
  BY <1>1, BookFacts DEF FetchesSound, Answered
<1>9. poll.fetch.start \subseteq Orders
  BY <1>8 DEF Books!Existing
<1>10. FetchesSound'
  BY <1>1, <1>4, <1>5, <1>8, <1>9 DEF FetchesSound, SweepSound, Past, Answered
<1>11. Books!SweptComplete'
  BY <1>1 DEF Books!SweptComplete
<1>12. \A o \in Orders : Overtaken(o)' = FALSE
  BY <1>4, <1>8 DEF Overtaken, Answered
<1>13. Counted'
  BY <1>1, <1>12 DEF Counted, Due, Refreshing, CountTypes
<1>14. NoticesSound'
  BY <1>1, <1>2, <1>3, <1>4, <1>8 DEF NoticesSound, Unseeded, Told, Answered
<1>15. FailuresSound' /\ OutageSound'
  BY <1>2, BooksSame
<1> QED
  BY <1>5, <1>6, <1>7, <1>10, <1>11, <1>13, <1>14, <1>15

LEMMA DayPassesKept == ASSUME BooksInv, Books!DayPasses PROVE BooksInv'
<1> USE DEF BooksInv
<1>1. /\ aged' = Books!Existing
      /\ UNCHANGED <<remote, ledger, poll, refresh, ends, refreshes, notified, rewound, owed>>
  BY DEF Books!DayPasses, Books!seen
<1>2. sweepDue' = TRUE /\ UNCHANGED connected /\ UNCHANGED Books!books
  BY DEF Books!DayPasses
<1>3. Books!Existing' = Books!Existing
  BY <1>1 DEF Books!Existing
<1>4. MarketTypes' /\ CountTypes' /\ FetchTypes'
  BY <1>1, <1>3 DEF MarketTypes, CountTypes, FetchTypes
<1>5. SwitchTypes'
  BY <1>2 DEF SwitchTypes
<1>6. FetchesSound' /\ Books!SweptComplete'
  BY <1>1, <1>3 DEF FetchesSound, SweepSound, Past, Answered, Books!SweptComplete
<1>7. Counted' /\ NoticesSound'
  BY <1>1, <1>2 DEF Counted, NoticesSound, Due, Refreshing, Overtaken, Unseeded, Told, Answered
<1>8. FailuresSound' /\ OutageSound'
  BY <1>2, BooksSame
<1> QED
  BY <1>4, <1>5, <1>6, <1>7, <1>8

LEMMA SessionStartsKept == ASSUME BooksInv, Books!SessionStarts PROVE BooksInv'
<1> USE DEF BooksInv
<1>1. UNCHANGED <<remote, aged, ledger, poll, refresh, ends, refreshes, notified, rewound, owed>>
  BY DEF Books!SessionStarts, Books!seen, Books!market, Books!bounds
<1>2. connected' = TRUE /\ UNCHANGED sweepDue /\ UNCHANGED Books!books
  BY DEF Books!SessionStarts
<1>3. Books!Existing' = Books!Existing
  BY <1>1 DEF Books!Existing
<1>4. MarketTypes' /\ CountTypes' /\ FetchTypes'
  BY <1>1, <1>3 DEF MarketTypes, CountTypes, FetchTypes
<1>5. SwitchTypes'
  BY <1>2 DEF SwitchTypes
<1>6. FetchesSound' /\ Books!SweptComplete'
  BY <1>1, <1>3 DEF FetchesSound, SweepSound, Past, Answered, Books!SweptComplete
<1>7. Counted' /\ NoticesSound'
  BY <1>1, <1>2 DEF Counted, NoticesSound, Due, Refreshing, Overtaken, Unseeded, Told, Answered
<1>8. FailuresSound' /\ OutageSound'
  BY <1>2, BooksSame
<1> QED
  BY <1>4, <1>5, <1>6, <1>7, <1>8

(* A refresh begins, which may cost one more notification. *)
LEMMA RefreshStartsKept == ASSUME BooksInv, Books!RefreshStarts PROVE BooksInv'
<1> USE DEF BooksInv
<1>1. /\ refresh.stage = "none" /\ refresh' = [stage |-> "sweep", fetch |-> Books!Begin]
      /\ refreshes < MaxRefreshes /\ refreshes' = refreshes + 1
      /\ UNCHANGED <<remote, aged, ledger, poll, ends, notified, rewound, owed>>
  BY DEF Books!RefreshStarts, Books!market, Books!seen
<1>2. UNCHANGED <<sweepDue, connected>> /\ UNCHANGED Books!books
  BY DEF Books!RefreshStarts
<1>3. Books!Existing \subseteq Orders /\ Books!Existing' = Books!Existing
  BY <1>1 DEF Books!Existing
<1>4. /\ Books!Begin \in Books!Fetch /\ Books!Begin.list = 0
      /\ Books!Begin.got = Books!Nothing /\ Books!Begin.start = Books!Existing
  BY <1>3, BookFacts DEF Books!Begin, Books!Fetch
<1>5. /\ refresh'.stage = "sweep" /\ refresh'.fetch = Books!Begin
      /\ \A o \in Orders : ~Answered(refresh'.fetch, o) /\ Books!Begin.got[o] = "none"
  <2>1. refresh'.stage = "sweep" /\ refresh'.fetch = Books!Begin
    BY <1>1
  <2> QED
    BY <1>4, <2>1, BookFacts DEF Answered
<1>6. MarketTypes'
  BY <1>1, <1>3 DEF MarketTypes
<1>7. CountTypes'
  BY <1>1, BookFacts DEF CountTypes
<1>8. FetchTypes'
  BY <1>1, <1>4 DEF FetchTypes
<1>9. SwitchTypes'
  BY <1>2 DEF SwitchTypes
<1>10. FetchesSound'
  <2>1. SweepSound(refresh.fetch)'
    BY <1>3, <1>4, <1>5 DEF SweepSound, Past
  <2>2. \A f : /\ Past(f) => Past(f)'
               /\ SweepSound(f) => SweepSound(f)'
    BY <1>1, <1>3 DEF SweepSound, Past, Answered
  <2> QED
    BY <1>1, <1>3, <2>1, <2>2 DEF FetchesSound
<1>11. Books!SweptComplete'
  BY <1>1 DEF Books!SweptComplete
<1>12. Counted'
  BY <1>1, <1>5 DEF Counted, Due, Refreshing, Overtaken, CountTypes, Answered
<1>13. NoticesSound'
  BY <1>1, <1>2, <1>5 DEF NoticesSound, Unseeded, Told, Answered
<1>14. FailuresSound' /\ OutageSound'
  BY <1>2, BooksSame
<1> QED
  BY <1>6, <1>7, <1>8, <1>9, <1>10, <1>11, <1>12, <1>13, <1>14

(* A sweep that has answered is installed, by the poll or by the refresh: it holds what
   there was, and what it takes back is noted. *)
LEMMA Installed ==
  ASSUME BooksInv, NEW f \in Books!Fetch, NEW g \in Books!Fetch,
         SweepSound(f), g = Books!fetchHistory(f, Orders), g.list = 0,
         Books!fullSweep(g), rewound' = rewound \cup Books!Rewinds(g.got),
         UNCHANGED <<remote, aged, notified>>
  PROVE  /\ MarketTypes' /\ Books!SweptComplete' /\ ledger' = g.got /\ sweepDue' = FALSE
         /\ \A o \in Orders : IF ListOf[o] = f.list + 1 THEN g.got[o] = remote[o]
                              ELSE g.got[o] = f.got[o] /\ Answered(f, o)
         /\ \A o \in Orders : rewound' \subseteq Orders /\ (o \in rewound => o \in rewound')
                              /\ (ledger[o] = "terminal" /\ g.got[o] # "terminal" => o \in rewound')
<1> USE DEF BooksInv
<1>1. ledger' = g.got /\ owed' = g.start
  BY DEF Books!fullSweep
<1>2. sweepDue' = FALSE
  BY DEF Books!fullSweep
<1>3. /\ Past(g) /\ g.start = f.start /\ f.start \subseteq Books!Existing
      /\ \A o \in f.start : g.got[o] # "none"
  BY SweepGoesOn
<1>4. g.got \in [Orders -> Books!OrderState]
  BY FetchSet
<1>5. \A o \in Orders : rewound' \subseteq Orders /\ (o \in rewound => o \in rewound')
                        /\ (ledger[o] = "terminal" /\ g.got[o] # "terminal" => o \in rewound')
  BY DEF Books!Rewinds, MarketTypes
<1>6. MarketTypes'
  <2>1. f.start \subseteq Orders /\ Books!Existing' = Books!Existing
    BY <1>3 DEF Books!Existing
  <2>2. rewound' \subseteq Orders
    BY DEF Books!Rewinds, MarketTypes
  <2> QED
    BY <1>1, <1>3, <1>4, <2>1, <2>2 DEF MarketTypes
<1>7. Books!SweptComplete'
  BY <1>1, <1>3 DEF Books!SweptComplete, Past
<1>8. \A o \in Orders : IF ListOf[o] = f.list + 1 THEN g.got[o] = remote[o]
                        ELSE g.got[o] = f.got[o] /\ Answered(f, o)
  BY FetchGoesOn
<1> QED
  BY <1>1, <1>2, <1>5, <1>6, <1>7, <1>8

LEMMA SweepAnswersKept == ASSUME BooksInv, Books!SweepAnswers PROVE BooksInv'
<1> USE DEF BooksInv
<1>1. /\ poll.stage = "sweep"
      /\ UNCHANGED <<remote, aged, refresh, ends, refreshes, notified>>
  BY DEF Books!SweepAnswers, Books!market, Books!bounds, Books!seen, Books!fullSweep
<1>2. UNCHANGED connected /\ UNCHANGED Books!books
  BY DEF Books!SweepAnswers
<1>3. PICK f \in Books!Fetch : f = poll.fetch
  BY DEF FetchTypes
<1>4. PICK g \in Books!Fetch : g = Books!fetchHistory(f, Orders)
  BY <1>3, FetchGoesOn
<1>5. SweepSound(f)
  BY <1>1, <1>3 DEF FetchesSound
<1>6. \A o \in Orders : IF ListOf[o] = f.list + 1 THEN g.got[o] = remote[o]
                        ELSE g.got[o] = f.got[o]
  BY <1>4, FetchGoesOn
<1>7. CountTypes'
  BY <1>1 DEF CountTypes
<1>8. FailuresSound' /\ OutageSound'
  BY <1>2, BooksSame
<1>9. Books!Existing' = Books!Existing
  BY <1>1 DEF Books!Existing
<1>10. \A h : (Past(h) => Past(h)') /\ (SweepSound(h) => SweepSound(h)')
  BY <1>1, <1>9 DEF SweepSound, Past, Answered
<1>11. CASE g.list # 0
  <2>1. /\ poll' = [poll EXCEPT !.fetch = g] /\ UNCHANGED <<ledger, rewound, owed>>
    BY <1>3, <1>4, <1>11 DEF Books!SweepAnswers, Books!seen
  <2>2. UNCHANGED sweepDue
    BY <1>3, <1>4, <1>11 DEF Books!SweepAnswers
  <2>3. poll'.stage = "sweep" /\ poll'.fetch = g
    BY <1>1, <2>1 DEF FetchTypes
  <2>4. MarketTypes' /\ Books!SweptComplete'
    BY <1>1, <1>9, <2>1 DEF MarketTypes, Books!SweptComplete
  <2>5. FetchTypes'
    BY <1>1, <2>1 DEF FetchTypes
  <2>6. SwitchTypes'
    BY <1>2, <2>2 DEF SwitchTypes
  <2>7. SweepSound(g)
    BY <1>4, <1>5, <1>11, SweepGoesOn
  <2>8. FetchesSound'
    BY <1>1, <1>10, <2>3, <2>7 DEF FetchesSound
  <2>9. \A o \in Orders : Answered(g, o) => Answered(f, o) \/ ListOf[o] = f.list + 1
    BY <1>4, <1>11, FetchGoesOn
  <2>10. \A o \in Orders : Overtaken(o)' => Overtaken(o) \/ ledger[o] # "terminal"
    <3> SUFFICES ASSUME NEW o \in Orders, Overtaken(o)', ledger[o] = "terminal"
                 PROVE  Overtaken(o)
      OBVIOUS
    <3>1. remote[o] = "terminal"
      BY DEF Books!SweptComplete
    <3>2. Answered(g, o) /\ g.got[o] # "terminal"
      BY <2>3 DEF Overtaken, Answered
    <3>3. Answered(f, o) /\ f.got[o] # "terminal"
      BY <1>6, <2>9, <3>1, <3>2
    <3> QED
      BY <1>1, <1>3, <3>3 DEF Overtaken
  <2>11. Counted'
    BY <1>1, <2>1, <2>10 DEF Counted, Due, Refreshing, CountTypes
  <2>12. NoticesSound'
    <3>1. \A o \in Orders : Told(o) /\ Unseeded(o) => Unseeded(o)'
      BY <1>1, <1>3, <1>6, <2>2, <2>3, <2>9 DEF Unseeded, Told, Answered
    <3>2. \A o \in Orders : Told(o)' = Told(o)
      BY <1>1 DEF Told
    <3> QED
      BY <1>1, <2>1, <3>1, <3>2 DEF NoticesSound
  <2> QED
    BY <1>7, <1>8, <2>4, <2>5, <2>6, <2>8, <2>11, <2>12
<1>12. CASE g.list = 0
  <2>1. /\ Books!fullSweep(g) /\ rewound' = rewound \cup Books!Rewinds(g.got)
        /\ poll' = [stage |-> "recent", fetch |-> [g EXCEPT !.got = Books!Nothing]]
        /\ UNCHANGED notified
    BY <1>3, <1>4, <1>12 DEF Books!SweepAnswers
  <2>2. /\ MarketTypes' /\ Books!SweptComplete' /\ ledger' = g.got /\ sweepDue' = FALSE
        /\ \A o \in Orders : IF ListOf[o] = f.list + 1 THEN g.got[o] = remote[o]
                             ELSE g.got[o] = f.got[o] /\ Answered(f, o)
        /\ \A o \in Orders : rewound' \subseteq Orders /\ (o \in rewound => o \in rewound')
                             /\ (ledger[o] = "terminal" /\ g.got[o] # "terminal" => o \in rewound')
    BY <1>1, <1>4, <1>5, <1>12, <2>1, Installed
  <2>3. PICK h \in Books!Fetch : h = [g EXCEPT !.got = Books!Nothing] /\ h.got = Books!Nothing
    <3>1. /\ g = [list |-> g.list, got |-> g.got, start |-> g.start]
          /\ g.list \in 0 .. (Lists - 1) /\ g.start \subseteq Orders
      BY FetchSet
    <3>2. [g EXCEPT !.got = Books!Nothing]
            = [list |-> g.list, got |-> Books!Nothing, start |-> g.start]
      BY <3>1
    <3>3. [list |-> g.list, got |-> Books!Nothing, start |-> g.start] \in Books!Fetch
      BY <3>1, BookFacts DEF Books!Fetch
    <3> QED
      BY <3>2, <3>3
  <2>4. poll'.stage = "recent" /\ poll'.fetch = h
    BY <2>1, <2>3
  <2>5. FetchTypes'
    BY <1>1, <2>1, <2>3 DEF FetchTypes
  <2>6. SwitchTypes'
    BY <1>2, <2>2 DEF SwitchTypes
  <2>7. FetchesSound'
    BY <1>1, <1>10, <2>3, <2>4, BookFacts DEF FetchesSound, Past
  <2>8. \A o \in Orders : Overtaken(o)' = FALSE
    BY <2>3, <2>4, BookFacts DEF Overtaken
  <2>9. \A o \in Orders : g.got[o] # "terminal" => ledger[o] # "terminal" \/ Overtaken(o)
    <3> SUFFICES ASSUME NEW o \in Orders, g.got[o] # "terminal", ledger[o] = "terminal"
                 PROVE  Overtaken(o)
      OBVIOUS
    <3>1. remote[o] = "terminal"
      BY DEF Books!SweptComplete
    <3>2. f.got[o] # "terminal" /\ Answered(f, o)
      BY <2>2, <3>1
    <3> QED
      BY <1>1, <1>3, <3>2 DEF Overtaken
  <2>10. Counted'
    BY <1>1, <2>2, <2>8, <2>9 DEF Counted, Due, Refreshing, CountTypes
  <2>11. NoticesSound'
    <3>1. ASSUME NEW o \in Orders, notified[o] > 0 PROVE ledger'[o] = "terminal" \/ o \in rewound'
      <4>1. Told(o) /\ (ledger[o] = "terminal" \/ o \in rewound \/ Unseeded(o))
        BY <3>1 DEF NoticesSound
      <4>2. CASE ledger[o] = "terminal" \/ o \in rewound
        BY <2>2, <4>2
      <4>3. CASE Unseeded(o)
        BY <1>1, <1>3, <2>2, <4>1, <4>3 DEF Unseeded, Told
      <4> QED
        BY <4>1, <4>2, <4>3
    <3>2. \A o \in Orders : Told(o)' = Told(o)
      BY <1>1 DEF Told
    <3> QED
      BY <1>1, <2>2, <3>1, <3>2 DEF NoticesSound
  <2> QED
    BY <1>7, <1>8, <2>2, <2>5, <2>6, <2>7, <2>10, <2>11
<1> QED
  BY <1>11, <1>12

LEMMA RefreshAnswersKept == ASSUME BooksInv, Books!RefreshAnswers PROVE BooksInv'
<1> USE DEF BooksInv
<1>1. /\ refresh.stage = "sweep"
      /\ UNCHANGED <<remote, aged, poll, ends, refreshes, notified>>
  BY DEF Books!RefreshAnswers, Books!market, Books!bounds, Books!seen, Books!fullSweep
<1>2. UNCHANGED connected /\ UNCHANGED Books!books
  BY DEF Books!RefreshAnswers
<1>3. PICK f \in Books!Fetch : f = refresh.fetch
  BY DEF FetchTypes
<1>4. PICK g \in Books!Fetch : g = Books!fetchHistory(f, Orders)
  BY <1>3, FetchGoesOn
<1>5. SweepSound(f)
  BY <1>1, <1>3 DEF FetchesSound
<1>6. \A o \in Orders : IF ListOf[o] = f.list + 1 THEN g.got[o] = remote[o]
                        ELSE g.got[o] = f.got[o]
  BY <1>4, FetchGoesOn
<1>7. CountTypes'
  BY <1>1 DEF CountTypes
<1>8. FailuresSound' /\ OutageSound'
  BY <1>2, BooksSame
<1>9. Books!Existing' = Books!Existing
  BY <1>1 DEF Books!Existing
<1>10. \A h : (Past(h) => Past(h)') /\ (SweepSound(h) => SweepSound(h)')
  BY <1>1, <1>9 DEF SweepSound, Past, Answered
<1>11. CASE g.list # 0
  <2>1. /\ refresh' = [refresh EXCEPT !.fetch = g] /\ UNCHANGED <<ledger, rewound, owed>>
    BY <1>3, <1>4, <1>11 DEF Books!RefreshAnswers, Books!seen
  <2>2. UNCHANGED sweepDue
    BY <1>3, <1>4, <1>11 DEF Books!RefreshAnswers
  <2>3. refresh'.stage = "sweep" /\ refresh'.fetch = g
    BY <1>1, <2>1 DEF FetchTypes
  <2>4. MarketTypes' /\ Books!SweptComplete'
    BY <1>1, <1>9, <2>1 DEF MarketTypes, Books!SweptComplete
  <2>5. FetchTypes'
    BY <1>1, <2>1 DEF FetchTypes
  <2>6. SwitchTypes'
    BY <1>2, <2>2 DEF SwitchTypes
  <2>7. SweepSound(g)
    BY <1>4, <1>5, <1>11, SweepGoesOn
  <2>8. FetchesSound'
    BY <1>1, <1>9, <1>10, <2>3, <2>7 DEF FetchesSound
  <2>9. \A o \in Orders : Answered(g, o) => Answered(f, o) \/ ListOf[o] = f.list + 1
    BY <1>4, <1>11, FetchGoesOn
  <2>10. Counted'
    BY <1>1, <2>1, <2>3 DEF Counted, Due, Refreshing, Overtaken, CountTypes, Answered
  <2>11. NoticesSound'
    <3>1. \A o \in Orders : Told(o) /\ Unseeded(o) => Unseeded(o)'
      BY <1>1, <1>3, <1>6, <2>2, <2>3, <2>9 DEF Unseeded, Told, Answered
    <3>2. \A o \in Orders : Told(o)' = Told(o)
      BY <1>1 DEF Told
    <3> QED
      BY <1>1, <2>1, <3>1, <3>2 DEF NoticesSound
  <2> QED
    BY <1>7, <1>8, <2>4, <2>5, <2>6, <2>8, <2>10, <2>11
<1>12. CASE g.list = 0
  <2>1. /\ Books!fullSweep(g) /\ rewound' = rewound \cup Books!Rewinds(g.got)
        /\ refresh' = Books!Idle /\ UNCHANGED notified
    BY <1>3, <1>4, <1>12 DEF Books!RefreshAnswers
  <2>2. /\ MarketTypes' /\ Books!SweptComplete' /\ ledger' = g.got /\ sweepDue' = FALSE
        /\ \A o \in Orders : IF ListOf[o] = f.list + 1 THEN g.got[o] = remote[o]
                             ELSE g.got[o] = f.got[o] /\ Answered(f, o)
        /\ \A o \in Orders : rewound' \subseteq Orders /\ (o \in rewound => o \in rewound')
                             /\ (ledger[o] = "terminal" /\ g.got[o] # "terminal" => o \in rewound')
    BY <1>1, <1>4, <1>5, <1>12, <2>1, Installed
  <2>3. refresh'.stage = "none"
    BY <2>1, IdleIsFetch
  <2>4. FetchTypes'
    BY <1>1, <2>1, IdleIsFetch DEF FetchTypes
  <2>5. SwitchTypes'
    BY <1>2, <2>2 DEF SwitchTypes
  <2>6. FetchesSound'
    BY <1>1, <1>9, <1>10, <2>3 DEF FetchesSound
  <2>7. Counted'
    BY <1>1, <2>3 DEF Counted, Due, Refreshing, CountTypes
  <2>8. NoticesSound'
    <3>1. ASSUME NEW o \in Orders, notified[o] > 0 PROVE ledger'[o] = "terminal" \/ o \in rewound'
      <4>1. Told(o) /\ (ledger[o] = "terminal" \/ o \in rewound \/ Unseeded(o))
        BY <3>1 DEF NoticesSound
      <4>2. CASE ledger[o] = "terminal" \/ o \in rewound
        BY <2>2, <4>2
      <4>3. CASE Unseeded(o)
        BY <1>1, <1>3, <2>2, <4>1, <4>3 DEF Unseeded, Told
      <4> QED
        BY <4>1, <4>2, <4>3
    <3>2. \A o \in Orders : Told(o)' = Told(o)
      BY <1>1 DEF Told
    <3> QED
      BY <1>1, <2>2, <3>1, <3>2 DEF NoticesSound
  <2> QED
    BY <1>7, <1>8, <2>2, <2>4, <2>5, <2>6, <2>7, <2>8
<1> QED
  BY <1>11, <1>12

LEMMA RefreshFailsKept == ASSUME BooksInv, Books!RefreshFails PROVE BooksInv'
<1> USE DEF BooksInv
<1>1. /\ refresh' = Books!Idle
      /\ UNCHANGED <<remote, aged, ledger, poll, ends, refreshes, notified, rewound, owed>>
  BY DEF Books!RefreshFails, Books!market, Books!bounds, Books!seen
<1>2. UNCHANGED <<sweepDue, connected>> /\ UNCHANGED Books!books
  BY DEF Books!RefreshFails
<1>3. refresh'.stage = "none" /\ Books!Existing' = Books!Existing
  BY <1>1, IdleIsFetch DEF Books!Existing
<1>4. MarketTypes' /\ CountTypes'
  BY <1>1, <1>3 DEF MarketTypes, CountTypes
<1>5. FetchTypes'
  BY <1>1, IdleIsFetch DEF FetchTypes
<1>6. SwitchTypes'
  BY <1>2 DEF SwitchTypes
<1>7. FetchesSound' /\ Books!SweptComplete'
  BY <1>1, <1>3 DEF FetchesSound, SweepSound, Past, Answered, Books!SweptComplete
<1>8. Counted'
  BY <1>1, <1>3 DEF Counted, Due, Refreshing, Overtaken, CountTypes, Answered
<1>9. NoticesSound'
  BY <1>1, <1>2, <1>3 DEF NoticesSound, Unseeded, Told, Answered
<1>10. FailuresSound' /\ OutageSound'
  BY <1>2, BooksSame
<1> QED
  BY <1>4, <1>5, <1>6, <1>7, <1>8, <1>9, <1>10

(* The session is over: its ledger goes, noted unless the host restarts, and then the
   next poll sweeps first. *)
LEMMA SessionOver ==
  ASSUME BooksInv, ledger' = Books!Nothing, poll' = Books!Idle, refresh' = Books!Idle,
         owed' = {}, ends < MaxEnds, ends' = ends + 1,
         UNCHANGED <<remote, aged, refreshes, notified>>,
         \/ rewound' = rewound \cup Books!Rewinds(Books!Nothing) /\ UNCHANGED sweepDue
         \/ UNCHANGED rewound /\ sweepDue' = TRUE
  PROVE  /\ MarketTypes' /\ FetchTypes' /\ CountTypes' /\ FetchesSound' /\ Books!SweptComplete'
         /\ Counted' /\ NoticesSound'
<1> USE DEF BooksInv
<1>1. poll'.stage = "none" /\ refresh'.stage = "none" /\ \A o \in Orders : ledger'[o] = "none"
  BY IdleIsFetch, BookFacts
<1>2. Books!Existing' = Books!Existing
  BY DEF Books!Existing
<1>3. rewound' \subseteq Orders /\ rewound \subseteq rewound'
  BY DEF MarketTypes, Books!Rewinds
<1>4. MarketTypes'
  BY <1>2, <1>3, BookFacts DEF MarketTypes
<1>5. FetchTypes'
  BY IdleIsFetch DEF FetchTypes
<1>6. CountTypes'
  BY BookFacts DEF CountTypes
<1>7. FetchesSound' /\ Books!SweptComplete'
  BY <1>1 DEF FetchesSound, Books!SweptComplete
<1>8. Counted'
  BY <1>1 DEF Counted, Due, Refreshing, Overtaken, CountTypes
<1>9. NoticesSound'
  <2>1. \A o \in Orders : Told(o)' = Told(o)
    BY DEF Told
  <2>2. ASSUME NEW o \in Orders, notified[o] > 0 PROVE o \in rewound' \/ Unseeded(o)'
    <3>1. Told(o) /\ (ledger[o] = "terminal" \/ o \in rewound \/ Unseeded(o))
      BY <2>2 DEF NoticesSound
    <3>2. CASE UNCHANGED rewound /\ sweepDue' = TRUE
      BY <1>1, <3>2 DEF Unseeded
    <3>3. CASE rewound' = rewound \cup Books!Rewinds(Books!Nothing) /\ UNCHANGED sweepDue
      <4>1. ledger[o] = "terminal" => o \in rewound'
        BY <3>3, BookFacts DEF Books!Rewinds
      <4>2. Unseeded(o) => Unseeded(o)'
        BY <1>1, <3>3 DEF Unseeded
      <4> QED
        BY <1>3, <3>1, <4>1, <4>2
    <3> QED
      BY <3>2, <3>3
  <2> QED
    BY <1>3, <2>1, <2>2 DEF NoticesSound
<1> QED
  BY <1>4, <1>5, <1>6, <1>7, <1>8, <1>9

(* The poll in flight is gone and nothing else of the orders changed. *)
LEMMA PollDropped ==
  ASSUME BooksInv, poll' = Books!Idle,
         UNCHANGED <<remote, aged, ledger, refresh, sweepDue, ends, refreshes, notified, rewound,
                     owed>>
  PROVE  /\ MarketTypes' /\ FetchTypes' /\ CountTypes' /\ FetchesSound' /\ Books!SweptComplete'
         /\ Counted' /\ NoticesSound'
<1> USE DEF BooksInv
<1>1. poll'.stage = "none" /\ Books!Existing' = Books!Existing
  BY IdleIsFetch DEF Books!Existing
<1>2. MarketTypes' /\ CountTypes'
  BY <1>1 DEF MarketTypes, CountTypes
<1>3. FetchTypes'
  BY IdleIsFetch DEF FetchTypes
<1>4. FetchesSound' /\ Books!SweptComplete'
  BY <1>1 DEF FetchesSound, SweepSound, Past, Answered, Books!SweptComplete
<1>5. Counted'
  BY <1>1 DEF Counted, Due, Refreshing, Overtaken, CountTypes
<1>6. NoticesSound'
  BY <1>1 DEF NoticesSound, Unseeded, Told, Answered
<1> QED
  BY <1>2, <1>3, <1>4, <1>5, <1>6

(* A failed poll is logged or counted. *)
LEMMA FailureLogged ==
  ASSUME FailuresSound, NEW k \in {"network", "other"}, Books!logPollFailure(k),
         failures < MaxFailures, failures' = failures + 1, failed' \in {0, failed, failed + 1}
  PROVE  FailuresSound'
<1> USE BookFacts
<1>1. CASE k = lastLog
  BY <1>1 DEF Books!logPollFailure, FailuresSound
<1>2. CASE k # lastLog
  BY <1>2 DEF Books!logPollFailure, FailuresSound
<1> QED
  BY <1>1, <1>2

LEMMA PollFailsKept == ASSUME BooksInv, Books!PollFails PROVE BooksInv'
<1> USE DEF BooksInv
<1>1. /\ failures < MaxFailures /\ failures' = failures + 1
      /\ UNCHANGED <<remote, aged, refreshes>>
  BY DEF Books!PollFails, Books!market
<1>2. UNCHANGED sweepDue
  BY DEF Books!PollFails
<1>3. CASE /\ Books!logPollFailure("network")
           /\ offline' = TRUE /\ failed' = failed + 1
           /\ poll' = Books!Idle
           /\ UNCHANGED <<connected, ledger, refresh, ends, Books!seen>>
  <2>1. UNCHANGED <<ledger, refresh, ends, notified, rewound, owed>> /\ UNCHANGED connected
    BY <1>3 DEF Books!seen
  <2>2. failed' = failed + 1 /\ failed \in Nat /\ failed' # 0 /\ poll' = Books!Idle
    BY <1>3 DEF FailuresSound
  <2>3. FailuresSound'
    BY <1>1, <1>3, <2>2, FailureLogged
  <2>4. OutageSound'
    BY <1>3, <2>2, Zenon DEF OutageSound
  <2>5. SwitchTypes'
    BY <1>2, <2>1 DEF SwitchTypes
  <2> QED
    BY <1>1, <1>2, <2>1, <2>2, <2>3, <2>4, <2>5, PollDropped
<1>4. CASE /\ Books!logPollFailure("other")
           /\ poll' = Books!Idle
           /\ UNCHANGED <<connected, ledger, refresh, ends, Books!seen, offline, failed>>
  <2>1. UNCHANGED <<ledger, refresh, ends, notified, rewound, owed, failed>>
    BY <1>4 DEF Books!seen
  <2>2. UNCHANGED <<offline, connected>>
    BY <1>4
  <2>3. FailuresSound'
    BY <1>1, <1>4, <2>1, FailureLogged
  <2>4. OutageSound'
    BY <2>1, <2>2, Zenon DEF OutageSound
  <2>5. SwitchTypes'
    BY <1>2, <2>2 DEF SwitchTypes
  <2> QED
    BY <1>1, <1>2, <1>4, <2>1, <2>3, <2>4, <2>5, PollDropped
<1>5. CASE /\ Books!logPollFailure("other")
           /\ ends < MaxEnds /\ ends' = ends + 1
           /\ Books!forgetSession
  <2>1. /\ ledger' = Books!Nothing /\ poll' = Books!Idle /\ refresh' = Books!Idle
        /\ owed' = {} /\ UNCHANGED notified
        /\ rewound' = rewound \cup Books!Rewinds(Books!Nothing) /\ failed' = 0
    BY <1>5 DEF Books!forgetSession
  <2>2. connected' = FALSE /\ offline' = FALSE
    BY <1>5 DEF Books!forgetSession
  <2>3. FailuresSound'
    BY <1>1, <1>5, <2>1, FailureLogged
  <2>4. OutageSound'
    BY <2>1, <2>2, Zenon DEF OutageSound
  <2>5. SwitchTypes'
    BY <1>2, <2>2 DEF SwitchTypes
  <2> QED
    BY <1>1, <1>2, <1>5, <2>1, <2>3, <2>4, <2>5, SessionOver
<1> QED
  BY <1>3, <1>4, <1>5 DEF Books!PollFails

LEMMA ResetKept == ASSUME BooksInv, Books!Reset PROVE BooksInv'
<1> USE DEF BooksInv
<1>1. /\ ledger' = Books!Nothing /\ poll' = Books!Idle /\ refresh' = Books!Idle
      /\ owed' = {} /\ rewound' = rewound \cup Books!Rewinds(Books!Nothing)
      /\ ends < MaxEnds /\ ends' = ends + 1 /\ failed' = 0
      /\ UNCHANGED <<remote, aged, refreshes, notified, lastLog, suppressed, failures, logged>>
  BY DEF Books!Reset, Books!forgetSession, Books!market
<1>2. connected' = FALSE /\ offline' = FALSE /\ UNCHANGED sweepDue
  BY DEF Books!Reset, Books!forgetSession
<1>3. FailuresSound'
  BY <1>1, BookFacts DEF FailuresSound
<1>4. OutageSound'
  BY <1>1, <1>2, Zenon DEF OutageSound
<1>5. SwitchTypes'
  BY <1>2 DEF SwitchTypes
<1> QED
  BY <1>1, <1>2, <1>3, <1>4, <1>5, SessionOver

LEMMA RestartKept == ASSUME BooksInv, Books!Restart PROVE BooksInv'
<1> USE DEF BooksInv
<1>1. /\ ledger' = Books!Nothing /\ poll' = Books!Idle /\ refresh' = Books!Idle
      /\ owed' = {} /\ ends < MaxEnds /\ ends' = ends + 1 /\ failed' = 0
      /\ lastLog' = "none" /\ suppressed' = 0 /\ logged' = logged + suppressed
      /\ UNCHANGED <<remote, aged, refreshes, notified, rewound, failures>>
  BY DEF Books!Restart, Books!market
<1>2. connected' = FALSE /\ offline' = FALSE /\ sweepDue' = TRUE
  BY DEF Books!Restart
<1>3. FailuresSound'
  BY <1>1, BookFacts DEF FailuresSound
<1>4. OutageSound'
  BY <1>1, <1>2, Zenon DEF OutageSound
<1>5. SwitchTypes'
  BY <1>2 DEF SwitchTypes
<1> QED
  BY <1>1, <1>2, <1>3, <1>4, <1>5, SessionOver

(* The recent window is merged: who is over now and was not is notified, once, unless
   the ledger forgot it in between. *)
LEMMA RecentAnswersKept == ASSUME BooksInv, Books!RecentAnswers PROVE BooksInv'
<1> USE DEF BooksInv
<1>1. /\ poll.stage = "recent" /\ UNCHANGED <<remote, aged, refresh, ends, refreshes>>
  BY DEF Books!RecentAnswers, Books!market, Books!bounds
<1>2. UNCHANGED <<sweepDue, connected>>
  BY DEF Books!RecentAnswers
<1>3. PICK f \in Books!Fetch : f = poll.fetch
  BY DEF FetchTypes
<1>4. PICK g \in Books!Fetch : g = Books!fetchHistory(f, Orders \ aged)
  BY <1>3, FetchGoesOn
<1>5. Past(f) /\ Past(g) /\ g.got \in [Orders -> Books!OrderState]
  BY <1>1, <1>3, <1>4, FetchStaysPast, FetchSet DEF FetchesSound
<1>6. \A o \in Orders : g.got[o] = remote[o] \/ g.got[o] = f.got[o]
  BY <1>4, FetchGoesOn
<1>7. Books!Existing' = Books!Existing
  BY <1>1 DEF Books!Existing
<1>8. \A h : (Past(h) => Past(h)') /\ (SweepSound(h) => SweepSound(h)')
  BY <1>1, <1>7 DEF SweepSound, Past, Answered
<1>9. SwitchTypes'
  BY <1>2 DEF SwitchTypes
<1>10. \A o \in Orders : g.got[o] = "open" /\ ledger[o] = "terminal" => Overtaken(o)
  BY <1>1, <1>3, <1>6 DEF Overtaken, Books!SweptComplete
<1>11. \A o \in Orders : notified[o] > 0 => Told(o) /\ (ledger[o] = "terminal" \/ o \in rewound)
  BY <1>1 DEF NoticesSound, Unseeded
<1>12. \A o \in Orders : Told(o)' = Told(o)
  BY <1>1 DEF Told
<1>13. CASE g.list # 0
  <2>1. /\ poll' = [poll EXCEPT !.fetch = g]
        /\ UNCHANGED <<ledger, notified, rewound, owed>> /\ UNCHANGED Books!books
    BY <1>3, <1>4, <1>13 DEF Books!RecentAnswers, Books!seen
  <2>2. poll'.stage = "recent" /\ poll'.fetch = g
    BY <1>1, <2>1 DEF FetchTypes
  <2>3. MarketTypes' /\ CountTypes' /\ Books!SweptComplete'
    BY <1>1, <1>7, <2>1 DEF MarketTypes, CountTypes, Books!SweptComplete
  <2>4. FetchTypes'
    BY <1>1, <2>1 DEF FetchTypes
  <2>5. FetchesSound'
    BY <1>1, <1>5, <1>7, <1>8, <2>2 DEF FetchesSound
  <2>6. \A o \in Orders : Overtaken(o)' => g.got[o] = "open"
    BY <2>2 DEF Overtaken
  <2>7. Counted'
    BY <1>1, <1>10, <2>1, <2>6 DEF Counted, Due, Refreshing, CountTypes
  <2>8. NoticesSound'
    BY <1>11, <1>12, <2>1 DEF NoticesSound
  <2>9. FailuresSound' /\ OutageSound'
    BY <2>1, BooksSame
  <2> QED
    BY <1>9, <2>3, <2>4, <2>5, <2>7, <2>8, <2>9
<1>14. CASE g.list = 0
  <2>1. /\ ledger' = [o \in Orders |-> IF g.got[o] = "none" THEN ledger[o] ELSE g.got[o]]
        /\ notified' = [o \in Orders |->
              IF o \in Linked /\ Books!terminalTransition(ledger[o], g.got[o])
              THEN notified[o] + 1 ELSE notified[o]]
        /\ rewound' = rewound \cup Books!Rewinds(ledger')
        /\ poll' = Books!Idle /\ UNCHANGED owed
    BY <1>3, <1>4, <1>14 DEF Books!RecentAnswers
  <2>2. Books!Recovered
    BY <1>3, <1>4, <1>14 DEF Books!RecentAnswers
  <2>3. poll'.stage = "none"
    BY <2>1, IdleIsFetch
  <2>4. \A o \in Orders : ledger'[o] = (IF g.got[o] = "none" THEN ledger[o] ELSE g.got[o])
    BY <2>1
  <2>5. \A o \in Orders :
          \/ /\ o \in Linked /\ g.got[o] = "terminal" /\ ledger[o] # "terminal"
             /\ ledger'[o] = "terminal" /\ notified'[o] = notified[o] + 1
          \/ notified'[o] = notified[o]
    BY <2>1, <2>4 DEF Books!terminalTransition
  <2>6. rewound' \subseteq Orders /\ rewound \subseteq rewound'
        /\ \A o \in Orders : ledger[o] = "terminal" /\ ledger'[o] # "terminal" => o \in rewound'
    BY <2>1 DEF Books!Rewinds, MarketTypes
  <2>7. MarketTypes'
    <3>1. ledger' \in [Orders -> Books!OrderState]
      BY <1>5, <2>1 DEF MarketTypes
    <3> QED
      BY <1>1, <1>7, <2>1, <2>6, <3>1 DEF MarketTypes
  <2>8. CountTypes'
    <3>1. notified' \in [Orders -> Nat]
      BY <2>1 DEF CountTypes
    <3> QED
      BY <1>1, <3>1 DEF CountTypes
  <2>9. FetchTypes'
    BY <1>1, <2>1, IdleIsFetch DEF FetchTypes
  <2>10. FetchesSound'
    BY <1>1, <1>7, <1>8, <2>3 DEF FetchesSound
  <2>11. Books!SweptComplete'
    <3>1. \A o \in owed' : o \in Orders /\ ledger'[o] # "none"
      BY <2>1, <2>4 DEF Books!SweptComplete, MarketTypes
    <3>2. \A o \in Orders : /\ ledger'[o] = "terminal" => remote'[o] = "terminal"
                            /\ ledger'[o] # "none" => remote'[o] # "none"
      BY <1>1, <1>5, <2>4 DEF Books!SweptComplete, Past
    <3> QED
      BY <3>1, <3>2 DEF Books!SweptComplete
  <2>12. Counted'
    <3> SUFFICES ASSUME NEW o \in Orders
                 PROVE  notified'[o] + Due(o)' + Refreshing' <= ends' + refreshes' + 1
      BY DEF Counted
    <3>1. notified[o] + Due(o) + Refreshing <= ends + refreshes + 1
      BY DEF Counted
    <3>2. Refreshing' = Refreshing /\ ends' = ends /\ refreshes' = refreshes
      BY <1>1 DEF Refreshing
    <3>3. Due(o)' = (IF ledger'[o] # "terminal" THEN 1 ELSE 0)
      BY <2>3 DEF Due, Overtaken
    <3>4. Due(o) \in {0, 1} /\ Refreshing \in {0, 1} /\ notified[o] \in Nat
          /\ ends \in Nat /\ refreshes \in Nat
      BY DEF Due, Refreshing, CountTypes
    <3>5. CASE ledger'[o] = "terminal" /\ notified'[o] = notified[o] + 1 /\ ledger[o] # "terminal"
      <4>1. Due(o)' = 0 /\ Due(o) = 1
        BY <3>3, <3>5 DEF Due
      <4> QED
        BY <3>1, <3>2, <3>4, <3>5, <4>1
    <3>6. CASE notified'[o] = notified[o]
      <4>1. ledger'[o] # "terminal" => ledger[o] # "terminal" \/ Overtaken(o)
        BY <1>5, <1>10, <2>4 DEF Books!OrderState
      <4>2. Due(o)' = 0 \/ (Due(o)' = 1 /\ Due(o) = 1)
        BY <3>3, <4>1 DEF Due
      <4> QED
        BY <3>1, <3>2, <3>4, <3>6, <4>2
    <3> QED
      BY <2>5, <3>5, <3>6
  <2>13. NoticesSound'
    <3> SUFFICES ASSUME NEW o \in Orders
                 PROVE  /\ notified'[o] > 0 => Told(o)' /\ (ledger'[o] = "terminal" \/ o \in rewound')
                        /\ notified'[o] > 1 => o \in rewound'
      BY DEF NoticesSound
    <3>1. notified[o] \in Nat
      BY DEF CountTypes
    <3>2. CASE /\ o \in Linked /\ g.got[o] = "terminal" /\ ledger[o] # "terminal"
               /\ ledger'[o] = "terminal" /\ notified'[o] = notified[o] + 1
      <4>1. Told(o)
        BY <1>5, <3>2 DEF Told, Past
      <4>2. notified[o] > 0 => o \in rewound'
        BY <1>11, <2>6, <3>2
      <4> QED
        BY <1>12, <3>1, <3>2, <4>1, <4>2
    <3>3. CASE notified'[o] = notified[o]
      BY <1>11, <1>12, <2>6, <3>3 DEF NoticesSound
    <3> QED
      BY <2>5, <3>2, <3>3
  <2>14. FailuresSound' /\ OutageSound'
    <3>1. /\ lastLog' = "none" /\ suppressed' = 0 /\ logged' = logged + suppressed
          /\ UNCHANGED failures
      BY <2>2 DEF Books!Recovered
    <3>2. offline' = FALSE /\ failed' = IF offline THEN 0 ELSE failed
      BY <2>2 DEF Books!Recovered
    <3>3. failed' = 0
      BY <3>2, Zenon DEF OutageSound
    <3>4. FailuresSound'
      BY <3>1, <3>3, BookFacts DEF FailuresSound
    <3> QED
      BY <3>2, <3>3, <3>4, Zenon DEF OutageSound
  <2> QED
    BY <1>9, <2>7, <2>8, <2>9, <2>10, <2>11, <2>12, <2>13, <2>14
<1> QED
  BY <1>13, <1>14

LEMMA BooksRest == ASSUME BooksInv, UNCHANGED Books!vars PROVE BooksInv'
<1> USE DEF BooksInv
<1>1. UNCHANGED <<remote, aged, ledger, poll, refresh, ends, refreshes, notified, rewound, owed>>
  BY DEF Books!vars, Books!market, Books!seen, Books!bounds
<1>2. UNCHANGED <<connected, sweepDue>> /\ UNCHANGED Books!books
  BY DEF Books!vars
<1>3. Books!Existing' = Books!Existing
  BY <1>1 DEF Books!Existing
<1>4. MarketTypes' /\ CountTypes' /\ FetchTypes'
  BY <1>1, <1>3 DEF MarketTypes, CountTypes, FetchTypes
<1>5. SwitchTypes'
  BY <1>2 DEF SwitchTypes
<1>6. FetchesSound' /\ Books!SweptComplete'
  BY <1>1, <1>3 DEF FetchesSound, SweepSound, Past, Answered, Books!SweptComplete
<1>7. Counted' /\ NoticesSound'
  BY <1>1, <1>2 DEF Counted, NoticesSound, Due, Refreshing, Overtaken, Unseeded, Told, Answered
<1>8. FailuresSound' /\ OutageSound'
  BY <1>2, BooksSame
<1> QED
  BY <1>4, <1>5, <1>6, <1>7, <1>8

(* The inductive invariant of the books: what a fetch holds was so, a sweep holds more of
   what there was, and what is under way can lead to no more notifications of an order
   than there were sessions that ended and refreshes, and one. *)
THEOREM BooksInductive == Books!Spec => []BooksInv
<1>1. BooksInv /\ [Books!Next]_Books!vars => BooksInv'
  <2> SUFFICES ASSUME BooksInv, [Books!Next]_Books!vars PROVE BooksInv'
    OBVIOUS
  <2>1. ASSUME NEW o \in Orders, Books!Place(o) PROVE BooksInv'
    <3>1. "open" \in Books!OrderState
      BY BookFacts
    <3>2. /\ remote[o] = "none" /\ remote' = [remote EXCEPT ![o] = "open"]
          /\ UNCHANGED <<aged, connected, ledger, sweepDue, poll, refresh>>
          /\ UNCHANGED Books!books /\ UNCHANGED Books!bounds /\ UNCHANGED Books!seen
      BY <2>1 DEF Books!Place
    <3> QED
      BY <3>1, <3>2, MarketMoves
  <2>2. ASSUME NEW o \in Orders, Books!Settle(o) PROVE BooksInv'
    BY <2>2, MarketMoves, BookFacts DEF Books!Settle
  <2>3. CASE Books!DayPasses \/ Books!SessionStarts \/ Books!Reset \/ Books!Restart
    BY <2>3, DayPassesKept, SessionStartsKept, ResetKept, RestartKept
  <2>4. CASE \/ Books!PollStarts \/ Books!AssetsAnswer \/ Books!SweepAnswers
             \/ Books!RecentAnswers \/ Books!PollFails
    BY <2>4, PollStartsKept, AssetsAnswerKept, SweepAnswersKept, RecentAnswersKept, PollFailsKept
  <2>5. CASE Books!RefreshStarts \/ Books!RefreshAnswers \/ Books!RefreshFails
    BY <2>5, RefreshStartsKept, RefreshAnswersKept, RefreshFailsKept
  <2>6. CASE UNCHANGED Books!vars
    BY <2>6, BooksRest
  <2> QED
    BY <2>1, <2>2, <2>3, <2>4, <2>5, <2>6 DEF Books!Next
<1> QED
  BY BooksBegin, <1>1, PTL DEF Books!Spec

(* The service holds every order that its installed sweep saw, is never ahead of the
   broker and loses no failure (broker/index.ts: syncLedger, fullSweep, logPollFailure,
   noteOnline); an order is notified no more often than sessions end, refreshes are asked
   for, and once. *)
THEOREM BooksAreComplete == Books!Spec => []BooksComplete
<1>1. BooksInv => BooksComplete
  <2> SUFFICES ASSUME BooksInv PROVE BooksComplete
    OBVIOUS
  <2> USE DEF BooksInv
  <2>1. \A o \in Orders : notified[o] \in 0 .. (MaxEnds + MaxRefreshes + 1)
    <3> SUFFICES ASSUME NEW o \in Orders PROVE notified[o] \in 0 .. (MaxEnds + MaxRefreshes + 1)
      OBVIOUS
    <3>1. notified[o] + Due(o) + Refreshing <= ends + refreshes + 1
      BY DEF Counted
    <3>2. Due(o) \in {0, 1} /\ Refreshing \in {0, 1} /\ notified[o] \in Nat
          /\ ends \in 0 .. MaxEnds /\ refreshes \in 0 .. MaxRefreshes
      BY DEF Due, Refreshing, CountTypes
    <3> QED
      BY <3>1, <3>2, BookFacts
  <2>2. notified \in [Orders -> 0 .. (MaxEnds + MaxRefreshes + 1)]
    BY <2>1 DEF CountTypes
  <2>3. failed \in 0 .. MaxFailures /\ suppressed \in 0 .. MaxFailures
    BY BookFacts DEF FailuresSound
  <2>4. {connected, sweepDue, offline} \subseteq BOOLEAN
    BY DEF SwitchTypes, OutageSound
  <2>5. {rewound, owed} \subseteq SUBSET Orders
    BY DEF MarketTypes
  <2>6. Books!TypeOK
    BY <2>2, <2>3, <2>4, <2>5 DEF Books!TypeOK, MarketTypes, FetchTypes, FailuresSound
  <2>7. failures = logged + suppressed /\ (suppressed > 0 => lastLog # "none")
    BY DEF FailuresSound
  <2>8. failed # 0 <=> failed > 0
    BY DEF FailuresSound
  <2>9. offline <=> failed > 0
    BY <2>8, Zenon DEF OutageSound
  <2>10. Books!FailuresAccounted
    BY <2>7, <2>9, Zenon DEF Books!FailuresAccounted
  <2> QED
    BY <2>6, <2>10 DEF BooksComplete, Books!BooksComplete
<1> QED
  BY <1>1, BooksInductive, PTL

(* Only orders of agents that are over are notified, and once each, also over a restart,
   unless the ledger lost the terminal entry in between (order-notify.ts,
   broker/index.ts: syncLedger). *)
THEOREM NoticesAreOnce == Books!Spec => []NotifiedOnce
<1>1. BooksInv => NotifiedOnce
  BY DEF BooksInv, NoticesSound, Told, NotifiedOnce, Books!NotifiedOnce
<1> QED
  BY <1>1, BooksInductive, PTL

-----------------------------------------------------------------------------
(* A behaviour of the composition is one of every part: a part only takes steps of its
   own, and rests while another one takes its turn. *)
THEOREM EachPartAsSpecified == MCSpec => Spec /\ Books!Spec /\ Children!Spec
<1>1. MCInit => Init /\ Books!Init /\ Children!Init
  BY DEF MCInit
<1>2. [MCNext]_<<part, vars, bookVars, childVars>> =>
        [Next]_vars /\ [Books!Next]_(Books!vars) /\ [Children!Next]_(Children!vars)
  <2>1. UNCHANGED bookVars => UNCHANGED Books!vars
    BY DEF bookVars, Books!vars, Books!market, Books!books, Books!bounds, Books!seen
  <2>2. UNCHANGED childVars => UNCHANGED Children!vars
    BY DEF childVars, Children!vars, Children!writerVars
  <2> SUFFICES ASSUME [MCNext]_<<part, vars, bookVars, childVars>>
               PROVE  [Next]_vars /\ [Books!Next]_(Books!vars) /\ [Children!Next]_(Children!vars)
    OBVIOUS
  <2>3. CASE Next /\ UNCHANGED bookVars /\ UNCHANGED childVars
    BY <2>1, <2>2, <2>3
  <2>4. CASE Books!Next /\ UNCHANGED vars /\ UNCHANGED childVars
    BY <2>2, <2>4
  <2>5. CASE Children!Next /\ UNCHANGED vars /\ UNCHANGED bookVars
    BY <2>1, <2>5
  <2>6. CASE UNCHANGED vars /\ UNCHANGED bookVars /\ UNCHANGED childVars
    BY <2>1, <2>2, <2>6
  <2> QED
    BY <2>3, <2>4, <2>5, <2>6, Zenon DEF MCNext
<1> QED
  BY <1>1, <1>2, PTL DEF MCSpec, Spec, Books!Spec, Children!Spec

(* In the composition as well: one spawner and one host at a time, one writer for each
   transcript, complete books and one notification (host/manifest.ts, spawn-marker.ts,
   broker/index.ts, order-notify.ts). *)
THEOREM HostSound ==
  MCSpec => [](OneSpawner /\ Singleton /\ BooksComplete /\ NotifiedOnce /\ RecoverySound)
  BY EachPartAsSpecified, SpawnersExclude, OneHostAtATime, BooksAreComplete, NoticesAreOnce,
     OneWriterOverHosts, PTL
=============================================================================
