----------------------------- MODULE HostLaunch -----------------------------
(***************************************************************************)
(* How launchers find, spawn, retire and lose the one backend host of a    *)
(* home: ensureHost, its lock and its manifest (host/manifest.ts), the     *)
(* boot and the shutdown of the host (host/index.ts) and the port it       *)
(* listens on (services/local-api/index.ts, host/trpc-server.ts).          *)
(*                                                                         *)
(* Starters are processes of their own (the Electron app of one version or *)
(* another, a test, a script): they share nothing but two files, the       *)
(* processes' pids and the loopback port, and may die anywhere.  A step is *)
(* one file operation, one signal or one answer of a ping.                 *)
(*                                                                         *)
(* Definitions whose name ends in "Slip" are not part of the model: each   *)
(* is a plausible mistake in the definition that follows it.               *)
(***************************************************************************)
EXTENDS Naturals, FiniteSets

CONSTANTS
    Starters,   \* processes that call ensureHost
    Version,    \* the app version each was built from
    MAX_SPAWN_FAILURES, \* spawns in a row that may fail, 3 in the code
    MaxHosts,   \* bounds: hosts spawned,
    MaxMishaps  \*   starters that die inside ensureHost, hosts that crash, are
                \*   signalled from outside, boot or answer too slowly, together

ASSUME StartersAssumption ==
    /\ MaxHosts \in Nat \ {0} /\ {MAX_SPAWN_FAILURES, MaxMishaps} \subseteq Nat
    /\ Version \in [Starters -> Nat]
    /\ {"free", "empty", "dead"} \cap Starters = {}

Hosts == 1..MaxHosts

VARIABLES
    lock,       \* host.lock: absent, empty, or the pid of a starter, dead or not
    manifest,   \* host.json: the host it names, 0 when it is absent
    host,       \* each host process
    built,      \* the version it runs
    port,       \* the faucet port it got: the home's stable one or any
    pc,         \* per starter: what it does next
    phase,      \* per starter: which adopt() it is in
    held,       \* per starter: the host of the manifest in its hands, or 0
    spawnFailures,
    mishaps,
    died,       \* a starter has died inside ensureHost
    excused     \* what has happened that the properties name as an exception

files == <<lock, manifest>>
processes == <<host, built, port>>
starter == <<pc, phase, held, spawnFailures>>
bounds == <<mishaps, died, excused>>
vars == <<files, processes, starter, bounds>>

(* What can undo the lock or the manifest, each at the step that does it. *)
Excuse == {
    "stolen lock",      \* a live starter's lock was unlinked by another
    "orphan boot",      \* a host was left booting: its starter died or gave up on it
    "slow host",        \* a ping inside the lock failed though a host listens there
    "manifest lost"}    \* a manifest was cleared that names a live host

TypeOK ==
    /\ lock \in {"free", "empty", "dead"} \cup Starters
    /\ manifest \in Hosts \cup {0}
    /\ host \in [Hosts -> {"none", "booting", "serving", "ready", "stopping", "gone"}]
    /\ built \in [Hosts -> Nat] /\ port \in [Hosts -> {"none", "stable", "other"}]
    /\ pc \in [Starters -> {"idle", "look", "ping", "reap", "open", "write", "judge",
                            "unlink", "spawn", "await", "returned"}]
    /\ phase \in [Starters -> {"none", "fast", "queue", "last", "inside"}]
    /\ held \in [Starters -> Hosts \cup {0}]
    /\ spawnFailures \in [Starters -> 0..MAX_SPAWN_FAILURES]
    /\ died \in BOOLEAN /\ excused \subseteq Excuse
    /\ \A s \in Starters : (pc[s] \in {"ping", "reap", "returned"}) <=> (held[s] # 0)

Init ==
    /\ lock = "free" /\ manifest = 0
    /\ host = [h \in Hosts |-> "none"] /\ built = [h \in Hosts |-> 0]
    /\ port = [h \in Hosts |-> "none"]
    /\ pc = [s \in Starters |-> "idle"] /\ phase = [s \in Starters |-> "none"]
    /\ held = [s \in Starters |-> 0] /\ spawnFailures = [s \in Starters |-> 0]
    /\ mishaps = 0 /\ died = FALSE /\ excused = {}

----------------------------------------------------------------------------
(* isAlive and pingHost *)

isAlive(h) == h # 0 /\ host[h] \in {"booting", "serving", "ready", "stopping"}

(* Somebody listens at the port the manifest of h names. *)
Listening(h) ==
    \E g \in Hosts :
        /\ host[g] \in {"serving", "ready"}
        /\ g = h \/ (port[g] = "stable" /\ port[h] = "stable")

(* /health is asked of that port: only who listens there answers, but one second
   without an answer, or an error of the socket, counts as nobody. *)
pingHost(h, answers) == answers => Listening(h)

Booting == {h \in Hosts : host[h] \in {"booting", "serving"}}

(* Where a starter goes next, and with which manifest in its hands. *)
Go(s, p, ph, h) ==
    /\ pc' = [pc EXCEPT ![s] = p]
    /\ phase' = [phase EXCEPT ![s] = ph]
    /\ held' = [held EXCEPT ![s] = h]

(* The release of the lock unlinks the path, whoever wrote what is there. *)
release(s) ==
    /\ lock' = "free"
    /\ excused' = excused \cup (IF lock = s THEN {} ELSE {"stolen lock"})

(* adopt() found nothing: try the lock, give up at last, or spawn inside it. *)
Missed(s) ==
    CASE phase[s] = "inside" -> Go(s, "spawn", "inside", 0)
      [] phase[s] = "last"   -> Go(s, "idle", "none", 0)
      [] OTHER               -> Go(s, "open", phase[s], 0)

----------------------------------------------------------------------------
(* ensureHost and adopt *)

ensureHost(s) ==
    /\ pc[s] = "idle"
    /\ Go(s, "look", "fast", 0)
    /\ UNCHANGED <<files, processes, spawnFailures, bounds>>

(* liveHost reads the manifest and checks the pid it names... *)
Look(s) ==
    /\ pc[s] = "look"
    /\ IF isAlive(manifest) THEN Go(s, "ping", phase[s], manifest) ELSE Missed(s)
    /\ UNCHANGED <<files, processes, spawnFailures, bounds>>

(* SIGTERM: the handler is there once the manifest is written; before that the
   process just dies. *)
Signalled(h) ==
    host' = [host EXCEPT ![h] =
        IF @ \in {"booting", "serving"} THEN "gone" ELSE IF @ = "ready" THEN "stopping" ELSE @]

(* A delay or a failure of the machine, as many as MaxMishaps. *)
Mishap == mishaps < MaxMishaps /\ mishaps' = mishaps + 1

(* Nobody answered.  Inside the lock that is the last word on the host. *)
Unanswered(s) ==
    /\ pingHost(held[s], FALSE) /\ Missed(s)
    /\ IF Listening(held[s]) THEN Mishap ELSE UNCHANGED mishaps
    /\ excused' = excused \cup (IF phase[s] = "inside" /\ Listening(held[s])
                                THEN {"slow host"} ELSE {})
    /\ UNCHANGED <<lock, host>>

PingSlip(s) ==
    /\ pc[s] = "ping"
    /\ \/ /\ pingHost(held[s], TRUE)
          /\ Go(s, "returned", "none", held[s])
          /\ IF phase[s] = "inside" THEN release(s) ELSE UNCHANGED <<lock, excused>>
          /\ UNCHANGED <<host, mishaps>>
       \/ Unanswered(s)
    /\ UNCHANGED <<manifest, built, port, spawnFailures, died>>

(* ... and pings it.  A host of this version is returned, another is sent SIGTERM. *)
Ping(s) ==
    /\ pc[s] = "ping"
    /\ \/ /\ pingHost(held[s], TRUE) /\ built[held[s]] = Version[s]
          /\ Go(s, "returned", "none", held[s])
          /\ IF phase[s] = "inside" THEN release(s) ELSE UNCHANGED <<lock, excused>>
          /\ UNCHANGED <<host, mishaps>>
       \/ /\ pingHost(held[s], TRUE) /\ built[held[s]] # Version[s]
          /\ Signalled(held[s])
          /\ Go(s, "reap", phase[s], held[s])
          /\ UNCHANGED <<lock, mishaps, excused>>
       \/ Unanswered(s)
    /\ UNCHANGED <<manifest, built, port, spawnFailures, died>>

(* A manifest is unlinked that may name another host than the one it is for. *)
clearManifest(h) ==
    /\ manifest' = 0
    /\ excused' = excused \cup (IF manifest \notin {0, h} /\ isAlive(manifest)
                                THEN {"manifest lost"} ELSE {})

(* terminateHost: its exit is awaited, SIGKILL after five seconds, and the
   manifest is unlinked once the pid is dead. *)
Reap(s) ==
    /\ pc[s] = "reap"
    /\ host' = [host EXCEPT ![held[s]] = "gone"]
    /\ clearManifest(held[s])
    /\ Missed(s)
    /\ UNCHANGED <<lock, built, port, spawnFailures, mishaps, died>>

----------------------------------------------------------------------------
(* acquireLock *)

(* O_EXCL: the file is created empty, and written next. *)
OpenLock(s) ==
    /\ pc[s] = "open"
    /\ IF lock = "free"
       THEN lock' = "empty" /\ Go(s, "write", "inside", 0)
       ELSE UNCHANGED lock /\ Go(s, "judge", phase[s], 0)
    /\ UNCHANGED <<manifest, processes, spawnFailures, bounds>>

WriteLock(s) ==
    /\ pc[s] = "write"
    /\ lock' = s
    /\ Go(s, "look", "inside", 0)
    /\ UNCHANGED <<manifest, processes, spawnFailures, bounds>>

JudgeLockSlip(s) ==
    /\ pc[s] = "judge"
    /\ IF lock \in {"dead", "empty"} THEN Go(s, "unlink", phase[s], 0)
       ELSE \E ph \in {"queue", "last"} : Go(s, "look", ph, 0)
    /\ UNCHANGED <<files, processes, spawnFailures, bounds>>

(* The lock is there: reclaim it from a dead holder, else wait and look again,
   fifty times before the last look. *)
JudgeLock(s) ==
    /\ pc[s] = "judge"
    /\ IF lock = "dead" THEN Go(s, "unlink", phase[s], 0)
       ELSE \E ph \in {"queue", "last"} : Go(s, "look", ph, 0)
    /\ UNCHANGED <<files, processes, spawnFailures, bounds>>

UnlinkLock(s) ==
    /\ pc[s] = "unlink"
    /\ lock' = "free"
    /\ excused' = excused \cup (IF lock \in {"free", "dead"} THEN {} ELSE {"stolen lock"})
    /\ Go(s, "open", phase[s], 0)
    /\ UNCHANGED <<manifest, processes, spawnFailures, mishaps, died>>

----------------------------------------------------------------------------
(* Inside the lock *)

(* The manifest is cleared and a host spawned... *)
spawnHostSlip(s) ==
    /\ pc[s] = "spawn" /\ spawnFailures[s] <= MAX_SPAWN_FAILURES
    /\ \E h \in Hosts :
         /\ host[h] = "none" /\ \A g \in 1..(h - 1) : host[g] # "none"
         /\ host' = [host EXCEPT ![h] = "booting"]
         /\ built' = [built EXCEPT ![h] = Version[s]]
    /\ clearManifest(0)
    /\ Go(s, "await", "inside", 0)
    /\ UNCHANGED <<lock, port, spawnFailures, mishaps, died>>

spawnHost(s) ==
    /\ pc[s] = "spawn" /\ spawnFailures[s] < MAX_SPAWN_FAILURES
    /\ \E h \in Hosts :
         /\ host[h] = "none" /\ \A g \in 1..(h - 1) : host[g] # "none"
         /\ host' = [host EXCEPT ![h] = "booting"]
         /\ built' = [built EXCEPT ![h] = Version[s]]
    /\ clearManifest(0)
    /\ Go(s, "await", "inside", 0)
    /\ UNCHANGED <<lock, port, spawnFailures, mishaps, died>>

(* ... unless as many as may fail in a row did not come up. *)
GivesUp(s) ==
    /\ pc[s] = "spawn" /\ spawnFailures[s] = MAX_SPAWN_FAILURES
    /\ Go(s, "idle", "none", 0) /\ release(s)
    /\ UNCHANGED <<manifest, processes, spawnFailures, mishaps, died>>

(* The wait for the spawned host: any live host the manifest names will do. *)
HostCameUp(s) ==
    /\ pc[s] = "await" /\ isAlive(manifest) /\ pingHost(manifest, TRUE)
    /\ Go(s, "returned", "none", manifest) /\ release(s)
    /\ spawnFailures' = [spawnFailures EXCEPT ![s] = 0]
    /\ UNCHANGED <<manifest, processes, mishaps, died>>

(* Ten seconds without one: it died, or it boots or answers slowly. *)
HostDidNotStart(s) ==
    /\ pc[s] = "await" /\ (isAlive(manifest) => pingHost(manifest, FALSE))
    /\ Go(s, "idle", "none", 0)
    /\ lock' = "free"
    /\ IF Booting = {} /\ ~isAlive(manifest) THEN UNCHANGED mishaps
       ELSE Mishap
    /\ excused' = excused \cup (IF Booting # {} THEN {"orphan boot"} ELSE {})
                          \cup (IF lock # s THEN {"stolen lock"} ELSE {})
    /\ spawnFailures' = [spawnFailures EXCEPT ![s] = @ + 1]
    /\ UNCHANGED <<manifest, processes, died>>

----------------------------------------------------------------------------
(* The launchers *)

(* A starter dies anywhere inside ensureHost; it may be started again. *)
StarterDies(s) ==
    /\ pc[s] \notin {"idle", "returned"}
    /\ Mishap /\ died' = TRUE
    /\ Go(s, "idle", "none", 0)
    /\ lock' = IF lock = s THEN "dead" ELSE lock
    /\ spawnFailures' = [spawnFailures EXCEPT ![s] = 0]
    /\ excused' = excused \cup (IF pc[s] = "await" /\ Booting # {} THEN {"orphan boot"} ELSE {})
    /\ UNCHANGED <<manifest, processes>>

(* A launcher that has its host quits, leaving it, or quits completely: the host is
   terminated, if the manifest still names it and its pid is alive. *)
Quit(s) ==
    /\ pc[s] = "returned"
    /\ \/ Go(s, "idle", "none", 0) /\ UNCHANGED host
       \/ /\ manifest = held[s] /\ isAlive(manifest) /\ Signalled(manifest)
          /\ Go(s, "reap", "last", manifest)
    /\ UNCHANGED <<files, built, port, spawnFailures, bounds>>

----------------------------------------------------------------------------
(* The host *)

(* The local API listens, on the stable port or, after its retries, on any. *)
Listens(h) ==
    /\ host[h] = "booting"
    /\ host' = [host EXCEPT ![h] = "serving"]
    /\ port' = [port EXCEPT ![h] =
         IF \E g \in Hosts : host[g] \in {"serving", "ready"} /\ port[g] = "stable"
         THEN "other" ELSE "stable"]
    /\ UNCHANGED <<files, built, starter, bounds>>

(* Everything is up: the manifest is written, over whatever is there. *)
Ready(h) ==
    /\ host[h] = "serving"
    /\ host' = [host EXCEPT ![h] = "ready"]
    /\ manifest' = h
    /\ UNCHANGED <<lock, built, port, starter, bounds>>

(* shutdown ends, telemetry flushed: the manifest is unlinked, whichever host it
   names. *)
Exits(h) ==
    /\ host[h] = "stopping"
    /\ host' = [host EXCEPT ![h] = "gone"]
    /\ clearManifest(h)
    /\ UNCHANGED <<lock, built, port, starter, mishaps, died>>

(* A crash, a SIGKILL, a reboot: nothing is cleaned up.  Or a signal from
   outside. *)
HostFault(h) ==
    /\ isAlive(h) /\ Mishap
    /\ host' = [host EXCEPT ![h] = "gone"] \/ (host[h] = "ready" /\ Signalled(h))
    /\ UNCHANGED <<files, built, port, starter, died, excused>>

Next ==
    \/ \E s \in Starters :
         \/ ensureHost(s) \/ Look(s) \/ Ping(s) \/ Reap(s) \/ OpenLock(s) \/ WriteLock(s)
         \/ JudgeLock(s) \/ UnlinkLock(s) \/ spawnHost(s) \/ GivesUp(s) \/ HostCameUp(s)
         \/ HostDidNotStart(s) \/ StarterDies(s) \/ Quit(s)
    \/ \E h \in Hosts : Listens(h) \/ Ready(h) \/ Exits(h) \/ HostFault(h)

Spec == Init /\ [][Next]_vars

----------------------------------------------------------------------------
(* Properties *)

Inside == {s \in Starters : phase[s] = "inside"}
ReadyHosts == {h \in Hosts : host[h] = "ready"}

(* The spawn path runs in one starter at a time.  The exception needs a lock
   whose holder died: two starters that both found it stale unlink it one after
   the other, the second one the first one's new lock (acquireLock,
   manifest.ts:145).  Without a death no order of opens, reads and unlinks gets
   two starters in. *)
OneSpawner ==
    /\ "stolen lock" \notin excused => Cardinality(Inside) <= 1
    /\ "stolen lock" \in excused => died

(* What ensureHost promises over its two files, pids and pings: never two hosts
   that boot or serve, a host that is up is the one the manifest names, and a
   launcher is never handed a host of another version.  Exceptions, each kept in
   "excused": the stolen lock above, a host left booting when its starter dies
   or waits ten seconds in vain (nobody waits for it, the next starter spawns
   another), a host that listens and does not answer the ping inside the lock
   within its second (pingHost, manifest.ts:73-88: its manifest is cleared and
   another spawned beside it, :222-223), and a manifest erased by the late exit
   of the host before it (host/index.ts:267) or by the terminateHost that waited
   for that exit.  A ping that fails outside the lock excuses nothing. *)
OneHost == Cardinality(Booting \cup ReadyHosts) <= 1
ReadyIsFound == \A h \in ReadyHosts : manifest = h
RightVersion == \A s \in Starters : pc[s] = "returned" => built[held[s]] = Version[s]

Singleton == TypeOK /\ (excused = {} => OneHost /\ ReadyIsFound /\ RightVersion)

=============================================================================
