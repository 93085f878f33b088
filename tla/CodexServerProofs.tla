------------------------- MODULE CodexServerProofs -------------------------
(***************************************************************************)
(* The app-server of a codex agent, for any number of processes, runs and  *)
(* hosts: every server process is accounted for, and what a wake reports   *)
(* is what happened (harness/codex-app-server.ts, wake/codex-strategy.ts). *)
(*                                                                         *)
(* The processes and the callers are argued about apart: an action's part  *)
(* that concerns the processes keeps Processes, its part that concerns a   *)
(* caller keeps what is said of that caller.                               *)
(***************************************************************************)
EXTENDS CodexServer, FiniteSetTheorems, WellFoundedInduction, TLAPS

Gone == {c \in Children : child[c] = "gone"}

(* The processes are spawned in order and the tracked one is the latest; every process
   that is not gone is tracked, signalled, left behind or displaced; what was displaced
   was spawned after one that was signalled. *)
Processes ==
  /\ \A x, y \in Children : x < y /\ child[y] # "none" => child[x] # "none"
  /\ entry # 0 => /\ child[entry] \in {"starting", "up", "dead"} /\ entry \notin orphans
                  /\ \A x \in Children : child[x] # "none" => x <= entry
  /\ socket # 0 => child[socket] = "up"
  /\ \A x \in orphans : child[x] \in {"starting", "up", "gone"}
  /\ \A x \in Children : child[x] \in {"starting", "up", "dead"} =>
       x = entry \/ x \in killed \cup orphans \cup displaced
  /\ \A x \in displaced : \E d \in killed : d < x
  /\ fastCrashes <= Cardinality(Gone)

(* A caller that waits for a bring-up has one to wait for, and goes where it may; a
   launch runs no turn. *)
GoalsOf(r) == CASE r = "wake" -> {"bare", "prepared", "create", "resume"}
                [] r = "push" -> {"resume"}
                [] OTHER      -> {"launch", "poll"}
CallerSound(r) ==
  /\ stage[r] = "server" => bringUp # 0 /\ goal[r] \in GoalsOf(r)
  /\ stage[r] \in OnClient \ {"resume"} => conn[r] # 0
  /\ r = "tui" => stage[r] \notin OnClient

(* The wake: its turn is acknowledged while it subscribes, races or races blind, and
   only then; its marker is there while it is on its client, and names the process it
   is connected to. *)
OnTurn == {"subscribe", "race", "blind"}
WakeSound ==
  /\ acked <=> stage["wake"] \in OnTurn
  /\ outcome["wake"] = "active" => stage["wake"] \in OnTurn
  /\ \A c \in Children : turn[c] = "wake" => stage["wake"] \in OnTurn
  /\ marker # 0 => stage["wake"] \in OnClient
  /\ stage["wake"] \in OnClient /\ conn["wake"] # 0 /\ marker # 0 =>
       marker = conn["wake"] \/ conn["wake"] \in killed \cup orphans \cup displaced

XInv == TypeOK /\ Processes /\ (\A r \in Callers : CallerSound(r)) /\ WakeSound


(* The types, by what the actions move together. *)
ServerTypes ==
  /\ child \in [Children -> {"none", "starting", "up", "dead", "gone"}]
  /\ killed \subseteq Children /\ orphans \subseteq Children /\ displaced \subseteq Children
  /\ entry \in Children \cup {0} /\ bringUp \in Children \cup {0}
  /\ socket \in Children \cup {0}
  /\ fastCrashes \in 0 .. MaxChildren /\ cooled \in BOOLEAN

CallerTypes ==
  /\ stage \in [Callers -> OnClient \cup {"idle", "server", "bare", "prepared", "create", "poll"}]
  /\ goal \in [Callers -> {"none", "bare", "prepared", "create", "resume", "launch", "poll"}]
  /\ conn \in [Callers -> Children \cup {0}]

TurnTypes ==
  /\ turn \in [Children -> {"none", "user", "stray", "wake", "push"}]
  /\ outcome \in [Callers -> {"none", "active", "completed", "failed",
                              "unlisted", "interrupted", "lost"}]

AgentTypes ==
  /\ stopping \in BOOLEAN /\ archived \in BOOLEAN /\ aborted \in BOOLEAN
  /\ acked \in BOOLEAN /\ thread \in BOOLEAN /\ rollout \in BOOLEAN /\ marker \in Children \cup {0}

CallersSound == \A r \in Callers : CallerSound(r)

LEMMA Parts ==
  XInv <=> /\ ServerTypes /\ CallerTypes /\ TurnTypes /\ AgentTypes
           /\ Processes /\ CallersSound /\ WakeSound
<1>1. XInv => /\ ServerTypes /\ CallerTypes /\ TurnTypes /\ AgentTypes
              /\ Processes /\ CallersSound /\ WakeSound
  BY DEF XInv, TypeOK, ServerTypes, CallerTypes, TurnTypes, AgentTypes, CallersSound
<1>2. ServerTypes /\ CallerTypes /\ TurnTypes /\ AgentTypes /\ Processes /\ CallersSound
        => TypeOK
  BY DEF TypeOK, ServerTypes, CallerTypes, TurnTypes, AgentTypes, CallersSound, CallerSound,
         Processes
<1> QED
  BY <1>1, <1>2 DEF XInv, CallersSound

LEMMA ChildrenFacts ==
  /\ MaxChildren \in Nat /\ Children = 1 .. MaxChildren /\ Children \subseteq Nat
  /\ 0 \notin Children /\ IsFiniteSet(Children) /\ Cardinality(Children) = MaxChildren
<1>1. MaxChildren \in Nat /\ 1 \in Int /\ Children = 1 .. MaxChildren
  BY BoundsAssumption DEF Children
<1>2. IsFiniteSet(1 .. MaxChildren) /\ Cardinality(1 .. MaxChildren) = MaxChildren
  BY <1>1, FS_Interval
<1> QED
  BY <1>1, <1>2

LEMMA CallerNames ==
  /\ "wake" \in Callers /\ "push" \in Callers /\ "tui" \in Callers
  /\ \A r \in Callers : r = "wake" \/ r = "push" \/ r = "tui"
  BY DEF Callers

-----------------------------------------------------------------------------
(* The processes                                                             *)

LEMMA LessIsWellFounded ==
  \E R : IsWellFoundedOn(R, Nat) /\ \A x, y \in Nat : x < y => <<x, y>> \in R
<1>1. IsWellFoundedOn(OpToRel(<, Nat), Nat)
  BY NatLessThanWellFounded, Zenon
<1>2. \A x, y \in Nat : x < y => <<x, y>> \in OpToRel(<, Nat)
  BY DEF OpToRel
<1> QED
  BY <1>1, <1>2, Zenon

(* spawnServer takes the first process that was not used yet. *)
LEMMA SpareHasFirst ==
  ASSUME Spare # {}
  PROVE  \E x \in Spare : \A y \in Spare : x <= y
<1>1. PICK R : IsWellFoundedOn(R, Nat) /\ \A x, y \in Nat : x < y => <<x, y>> \in R
  BY LessIsWellFounded
<1>2. Spare \subseteq Nat
  BY ChildrenFacts DEF Spare
<1>3. \A A, B, T : IsWellFoundedOn(A, B) /\ T \subseteq B /\ T # {} =>
        \E x \in T : \A y \in T : ~ (<<y, x>> \in A)
  BY WFMin, Zenon
<1>4. PICK x \in Spare : \A y \in Spare : ~ (<<y, x>> \in R)
  <2>1. IsWellFoundedOn(R, Nat)
    BY <1>1
  <2>2. \E x \in Spare : \A y \in Spare : ~ (<<y, x>> \in R)
    BY <2>1, <1>2, <1>3, Zenon
  <2> QED
    BY <2>2, Zenon
<1>5. \A y \in Spare : ~(y < x)
  BY <1>1, <1>2, <1>4, Zenon
<1>6. ASSUME NEW y \in Spare PROVE x <= y
  <2>1. ~(y < x) /\ x \in Nat /\ y \in Nat
    BY <1>2, <1>5
  <2> QED
    BY <2>1
<1> QED
  BY <1>6

(* No more processes are gone than there were. *)
LEMMA GoneCounts ==
  ASSUME NEW S \in SUBSET Children, NEW T \in SUBSET S
  PROVE  /\ Cardinality(S) \in Nat /\ Cardinality(T) \in Nat /\ Cardinality(T) <= Cardinality(S)
         /\ Cardinality(S) <= MaxChildren
<1>1. IsFiniteSet(S) /\ Cardinality(S) <= MaxChildren
  BY ChildrenFacts, FS_Subset
<1>2. IsFiniteSet(T) /\ Cardinality(T) <= Cardinality(S)
  BY <1>1, FS_Subset
<1> QED
  BY <1>1, <1>2, FS_CardinalityType

LEMMA GoneGrows ==
  ASSUME NEW S \in SUBSET Children, NEW c \in Children, c \notin S
  PROVE  /\ Cardinality(S \cup {c}) = Cardinality(S) + 1 /\ Cardinality(S) \in Nat
         /\ Cardinality(S) + 1 <= MaxChildren
<1>1. IsFiniteSet(S)
  BY ChildrenFacts, FS_Subset
<1>2. Cardinality(S \cup {c}) = Cardinality(S) + 1 /\ Cardinality(S) \in Nat
  BY <1>1, FS_AddElement, FS_CardinalityType
<1>3. Cardinality(S \cup {c}) <= MaxChildren
  BY GoneCounts
<1> QED
  BY <1>2, <1>3

LEMMA ProcessesSame ==
  ASSUME Processes, UNCHANGED <<child, killed, entry, socket, fastCrashes, orphans, displaced>>
  PROVE  Processes'
  BY DEF Processes, Gone

(* A new process: the latest, tracked, and not there before. *)
LEMMA SpawnKept ==
  ASSUME ServerTypes, Processes, entry = 0, Spare # {}, spawnServer,
         UNCHANGED <<orphans, displaced>>
  PROVE  /\ ServerTypes' /\ Processes' /\ entry' # 0 /\ bringUp' # 0
         /\ UNCHANGED killed
<1>1. PICK c \in Spare : /\ \A y \in Spare : c <= y
                         /\ child' = [child EXCEPT ![c] = "starting"]
                         /\ entry' = c /\ bringUp' = c
  <2>1. PICK c : c = CHOOSE x \in Spare : \A y \in Spare : x <= y
    OBVIOUS
  <2>2. c \in Spare /\ \A y \in Spare : c <= y
    BY <2>1, SpareHasFirst
  <2> QED
    BY <2>1, <2>2 DEF spawnServer
<1>2. /\ socket' = 0 /\ fastCrashes' = (IF cooled THEN 0 ELSE fastCrashes)
      /\ UNCHANGED <<killed, cooled, orphans, displaced>>
  BY DEF spawnServer
<1>3. c \in Children /\ c # 0 /\ child[c] = "none" /\ c \in Nat /\ Children \subseteq Nat
  BY ChildrenFacts DEF Spare
<1>4. child'[c] = "starting" /\ \A y \in Children : y # c => child'[y] = child[y]
  BY <1>1, <1>3 DEF ServerTypes
<1>5. ServerTypes'
  BY <1>1, <1>2, <1>3, ChildrenFacts DEF ServerTypes
<1>6. \A y \in Children : y < c <=> child[y] # "none"
  <2> SUFFICES ASSUME NEW y \in Children PROVE y < c <=> child[y] # "none"
    OBVIOUS
  <2>1. child[y] = "none" => c <= y
    BY <1>1 DEF Spare
  <2>2. child[y] # "none" => ~(c < y) /\ y # c
    BY <1>3 DEF Processes
  <2> QED
    BY <1>3, <2>1, <2>2
<1>7. \A x, y \in Children : x < y /\ child'[y] # "none" => child'[x] # "none"
  BY <1>3, <1>4, <1>6
<1>8. \A x \in Children : child'[x] # "none" => x <= c
  BY <1>3, <1>4, <1>6
<1>9. c \notin orphans
  BY <1>3 DEF Processes
<1>10. fastCrashes' <= Cardinality(Gone')
  <2>1. Gone' = Gone /\ Gone \in SUBSET Children
    BY <1>3, <1>4 DEF Gone
  <2>2. Cardinality(Gone) \in Nat
    BY <2>1, GoneCounts
  <2> QED
    BY <1>2, <2>1, <2>2 DEF Processes
<1>11. \A x \in Children : child'[x] \in {"starting", "up", "dead"} =>
         x = entry' \/ x \in killed' \cup orphans' \cup displaced'
  BY <1>1, <1>2, <1>4, ChildrenFacts DEF Processes
<1>12. \A x \in orphans' : child'[x] \in {"starting", "up", "gone"}
  BY <1>2, <1>4, <1>9 DEF Processes, ServerTypes
<1>13. Processes'
  BY <1>1, <1>2, <1>3, <1>4, <1>7, <1>8, <1>9, <1>10, <1>11, <1>12 DEF Processes
<1> QED
  BY <1>1, <1>2, <1>3, <1>5, <1>13

LEMMA StopKept ==
  ASSUME ServerTypes, Processes, stopServer, UNCHANGED <<orphans, displaced>>
  PROVE  ServerTypes' /\ Processes'
<1>0. /\ fastCrashes' = 0 /\ cooled' = FALSE /\ entry' = 0
      /\ killed' = killed \cup ({entry} \ {0}) /\ UNCHANGED <<child, bringUp, socket>>
  BY DEF stopServer
<1>1. ServerTypes'
  <2>1. {entry} \ {0} \subseteq Children /\ 0 \in Children \cup {0} /\ 0 \in 0 .. MaxChildren
    BY ChildrenFacts DEF ServerTypes
  <2> QED
    BY <1>0, <2>1 DEF ServerTypes
<1>2. fastCrashes' <= Cardinality(Gone')
  <2>1. Gone' = Gone /\ Gone \in SUBSET Children
    BY <1>0 DEF Gone
  <2> QED
    BY <1>0, <2>1, GoneCounts
<1>3. Processes'
  BY <1>0, <1>2, ChildrenFacts DEF Processes, ServerTypes
<1> QED
  BY <1>1, <1>3

(* The exit of c deletes the entry, whoever's it is: if it is another's, c was spawned
   before it, and was signalled or displaced itself. *)
LEMMA EntryDeleted ==
  ASSUME ServerTypes, Processes, NEW c \in Children,
         child[c] \in {"starting", "dead"}, c \notin orphans,
         child' = [child EXCEPT ![c] = "gone"], entry' = 0,
         displaced' = displaced \cup ({entry} \ {0, c}),
         UNCHANGED <<killed, bringUp, socket, orphans>>, cooled' \in BOOLEAN,
         fastCrashes' \in {fastCrashes, fastCrashes + 1, 0}
  PROVE  ServerTypes' /\ Processes'
<1>1. child'[c] = "gone" /\ \A y \in Children : y # c => child'[y] = child[y]
  BY DEF ServerTypes
<1>2. \A x \in displaced' : \E d \in killed' : d < x
  <2> SUFFICES ASSUME NEW x \in displaced', x \notin displaced
               PROVE  \E d \in killed : d < x
    BY DEF Processes
  <2>1. x = entry /\ entry # 0 /\ entry # c /\ c <= entry /\ entry \in Nat /\ c \in Nat
    BY ChildrenFacts DEF Processes, ServerTypes
  <2>2. c < x
    BY <2>1
  <2>3. c \in killed \/ \E d \in killed : d < c
    BY <2>1 DEF Processes
  <2>4. killed \subseteq Nat
    BY ChildrenFacts DEF ServerTypes
  <2> QED
    BY <2>1, <2>2, <2>3, <2>4
<1>3. /\ Gone' = Gone \cup {c} /\ c \notin Gone /\ Gone \in SUBSET Children
  BY <1>1 DEF Gone
<1>4. /\ Cardinality(Gone') = Cardinality(Gone) + 1 /\ Cardinality(Gone) \in Nat
      /\ Cardinality(Gone) + 1 <= MaxChildren
  BY <1>3, GoneGrows
<1>5. fastCrashes' \in 0 .. MaxChildren /\ fastCrashes' <= Cardinality(Gone')
  <2>1. fastCrashes \in Nat /\ fastCrashes <= Cardinality(Gone) /\ MaxChildren \in Nat
    BY ChildrenFacts DEF Processes, ServerTypes
  <2> QED
    BY <1>4, <2>1
<1>6. ServerTypes'
  BY <1>1, <1>5 DEF ServerTypes
<1>7. \A x, y \in Children : x < y /\ child'[y] # "none" => child'[x] # "none"
  BY <1>1 DEF Processes
<1>8. \A x \in Children : child'[x] \in {"starting", "up", "dead"} =>
        x \in killed' \cup orphans' \cup displaced'
  BY <1>1, ChildrenFacts DEF Processes
<1>9. /\ socket' # 0 => child'[socket'] = "up"
      /\ \A x \in orphans' : child'[x] \in {"starting", "up", "gone"}
  BY <1>1 DEF Processes, ServerTypes
<1>10. Processes'
  BY <1>2, <1>5, <1>7, <1>8, <1>9 DEF Processes
<1> QED
  BY <1>6, <1>10


LEMMA ListensKept ==
  ASSUME ServerTypes, Processes, NEW c \in Children, child[c] = "starting", socket = 0,
         child' = [child EXCEPT ![c] = "up"], socket' = c,
         UNCHANGED <<killed, entry, bringUp, breaker, orphans, displaced>>
  PROVE  ServerTypes' /\ Processes'
<1>0. UNCHANGED <<fastCrashes, cooled>>
  BY DEF breaker
<1>1. child'[c] = "up" /\ \A y \in Children : y # c => child'[y] = child[y]
  BY DEF ServerTypes
<1>2. ServerTypes'
  BY <1>0 DEF ServerTypes
<1>3. Gone' = Gone
  BY <1>1 DEF Gone
<1>4. Processes'
  BY <1>0, <1>1, <1>3 DEF Processes, ServerTypes
<1> QED
  BY <1>2, <1>4

LEMMA DiesKept ==
  ASSUME ServerTypes, Processes, NEW c \in Live,
         child' = [child EXCEPT ![c] = IF c \in orphans THEN "gone" ELSE "dead"],
         socket' = (IF socket = c THEN 0 ELSE socket),
         UNCHANGED <<killed, entry, bringUp, breaker, orphans, displaced>>
  PROVE  ServerTypes' /\ Processes'
<1>0. /\ UNCHANGED <<fastCrashes, cooled>> /\ c \in Children
      /\ child[c] \in {"starting", "up"}
  BY DEF breaker, Live
<1>1. /\ child'[c] = (IF c \in orphans THEN "gone" ELSE "dead")
      /\ \A y \in Children : y # c => child'[y] = child[y]
  BY <1>0 DEF ServerTypes
<1>2. ServerTypes'
  BY <1>0, ChildrenFacts DEF ServerTypes
<1>3. fastCrashes' <= Cardinality(Gone')
  <2>1. Gone \in SUBSET Gone' /\ Gone' \in SUBSET Children
    BY <1>0, <1>1 DEF Gone
  <2>2. Cardinality(Gone) \in Nat /\ Cardinality(Gone') \in Nat
        /\ Cardinality(Gone) <= Cardinality(Gone')
    BY <2>1, GoneCounts
  <2>3. fastCrashes \in Nat /\ fastCrashes <= Cardinality(Gone)
    BY ChildrenFacts DEF Processes, ServerTypes
  <2> QED
    BY <1>0, <2>2, <2>3
<1>4. /\ \A x, y \in Children : x < y /\ child'[y] # "none" => child'[x] # "none"
      /\ \A x \in Children : child'[x] \in {"starting", "up", "dead"} =>
           x = entry' \/ x \in killed' \cup orphans' \cup displaced'
  BY <1>0, <1>1 DEF Processes
<1>5. /\ entry' # 0 => /\ child'[entry'] \in {"starting", "up", "dead"} /\ entry' \notin orphans'
                       /\ \A x \in Children : child'[x] # "none" => x <= entry'
      /\ socket' # 0 => child'[socket'] = "up"
      /\ \A x \in orphans' : child'[x] \in {"starting", "up", "gone"}
  BY <1>0, <1>1 DEF Processes, ServerTypes
<1> QED
  BY <1>2, <1>3, <1>4, <1>5 DEF Processes

(* The next host tracks none of the processes that still live. *)
LEMMA NextHostKept ==
  ASSUME ServerTypes, Processes, AgentTypes, NextHost
  PROVE  ServerTypes' /\ Processes'
<1>0. /\ child' = [c \in Children |-> IF child[c] = "none" THEN "none"
                     ELSE IF c \in Live THEN child[c] ELSE "gone"]
      /\ socket' = (IF socket \in Live THEN socket ELSE 0)
      /\ orphans' = Live /\ displaced' = {} /\ entry' = 0 /\ bringUp' = 0
      /\ fastCrashes' = 0 /\ cooled' = FALSE /\ killed' = killed \cup ({marker} \ {0})
  BY DEF NextHost
<1>1. Live \subseteq Children /\ \A c \in Live : child[c] \in {"starting", "up"}
  BY DEF Live
<1>2. ServerTypes'
  <2>1. {marker} \ {0} \subseteq Children /\ 0 \in 0 .. MaxChildren
    BY ChildrenFacts DEF AgentTypes
  <2> QED
    BY <1>0, <1>1, <2>1 DEF ServerTypes
<1>3. fastCrashes' <= Cardinality(Gone')
  <2>1. Gone' \in SUBSET Children
    BY DEF Gone
  <2> QED
    BY <1>0, <2>1, GoneCounts
<1>4. \A x \in Children : child'[x] = (IF child[x] = "none" THEN "none"
                                        ELSE IF x \in Live THEN child[x] ELSE "gone")
  BY <1>0
<1>5. /\ \A x, y \in Children : x < y /\ child'[y] # "none" => child'[x] # "none"
      /\ \A x \in Children : child'[x] \in {"starting", "up", "dead"} => x \in orphans'
      /\ \A x \in orphans' : child'[x] \in {"starting", "up", "gone"}
  BY <1>0, <1>1, <1>4 DEF Processes
<1>6. socket' # 0 => child'[socket'] = "up"
  BY <1>0, <1>1, <1>4 DEF Processes
<1> QED
  BY <1>0, <1>2, <1>3, <1>5, <1>6 DEF Processes

-----------------------------------------------------------------------------
(* The callers                                                               *)

LEMMA StageNames ==
  /\ OnClient = {"resume", "parked", "start", "first", "subscribe", "race", "blind"}
  /\ OnTurn = {"subscribe", "race", "blind"} /\ OnTurn \subseteq OnClient
  /\ \A r \in Callers :
       GoalsOf(r) \subseteq {"bare", "prepared", "create", "resume", "launch", "poll"}
  /\ GoalsOf("wake") = {"bare", "prepared", "create", "resume"} /\ GoalsOf("push") = {"resume"}
  /\ GoalsOf("tui") = {"launch", "poll"}
  /\ \A n \in {"bare", "prepared", "create", "resume", "launch", "poll"} :
       After(n) \in {"bare", "prepared", "create", "resume", "poll"}
  /\ After("bare") = "bare" /\ After("prepared") = "prepared"
  /\ After("create") = "create" /\ After("resume") = "resume"
  /\ \A n \in {"launch", "poll"} : After(n) = "poll"
  /\ {"idle", "server", "bare", "prepared", "create", "poll"} \cap OnClient = {}
  BY DEF OnClient, OnTurn, GoalsOf, After

(* The wake is as it was. *)
LEMMA WakeSame ==
  ASSUME WakeSound, stage'["wake"] = stage["wake"], conn'["wake"] = conn["wake"],
         UNCHANGED acked, marker' \in {0, marker},
         outcome'["wake"] = "active" => outcome["wake"] = "active",
         \A c \in Children : turn'[c] = "wake" => turn[c] = "wake",
         killed \subseteq killed', orphans \subseteq orphans', displaced \subseteq displaced'
  PROVE  WakeSound'
  BY DEF WakeSound

(* The wake is not on its client. *)
LEMMA WakeOff ==
  ASSUME ~acked', marker' = 0, stage'["wake"] \notin {"subscribe", "race", "blind"},
         outcome'["wake"] # "active",
         \A c \in Children : turn'[c] # "wake"
  PROVE  WakeSound'
  BY DEF WakeSound, OnTurn

(* While it is not, there is no marker and no turn of its own. *)
LEMMA WakeIsOff ==
  ASSUME WakeSound, stage["wake"] \notin OnClient
  PROVE  ~acked /\ marker = 0 /\ outcome["wake"] # "active"
         /\ \A c \in Children : turn[c] # "wake"
  BY StageNames DEF WakeSound

(* ensureServer keeps what is said of the processes and of every caller; r waits for
   the bring-up or goes on, and nobody else moves. *)
LEMMA EnsureKept ==
  ASSUME ServerTypes, Processes, CallerTypes, CallersSound, NEW r \in Callers,
         NEW next \in GoalsOf(r), ensureServer(r, next), UNCHANGED <<orphans, displaced>>
  PROVE  /\ ServerTypes' /\ Processes' /\ CallerTypes' /\ CallersSound'
         /\ stage'[r] \in {"server", After(next)}
         /\ stage'[r] # "server" => entry # 0 /\ (next = "resume" => conn'[r] = socket)
         /\ \A q \in Callers : q # r => stage'[q] = stage[q] /\ conn'[q] = conn[q]
         /\ UNCHANGED <<killed, turn, outcome, last>>
<1>0. /\ next \in {"bare", "prepared", "create", "resume", "launch", "poll"}
      /\ After(next) \in {"bare", "prepared", "create", "resume", "poll"}
  BY StageNames
<1>1. CASE /\ entry # 0
           /\ stage' = [stage EXCEPT ![r] = After(next)]
           /\ conn' = [conn EXCEPT ![r] = IF next = "resume" THEN socket ELSE 0]
           /\ UNCHANGED <<servers, breaker, goal, turn, outcome, last>>
  <2>1. UNCHANGED <<child, killed, entry, bringUp, socket, fastCrashes, cooled>>
    BY <1>1 DEF servers, breaker
  <2>2. ServerTypes' /\ Processes'
    BY <2>1, ProcessesSame DEF ServerTypes
  <2>3. CallerTypes'
    <3>1. After(next) \in OnClient \cup {"idle", "server", "bare", "prepared", "create", "poll"}
      BY <1>0, StageNames
    <3>2. (IF next = "resume" THEN socket ELSE 0) \in Children \cup {0}
      BY DEF ServerTypes
    <3> QED
      BY <1>1, <3>1, <3>2 DEF CallerTypes
  <2>4. /\ stage'[r] = After(next) /\ conn'[r] = (IF next = "resume" THEN socket ELSE 0)
        /\ \A q \in Callers : q # r => stage'[q] = stage[q] /\ conn'[q] = conn[q]
    BY <1>1 DEF CallerTypes
  <2>5. CallersSound'
    <3>1. CallerSound(r)'
      <4>1. r = "tui" => stage'[r] = "poll"
        BY <2>4, StageNames
      <4>2. stage'[r] # "server" /\ stage'[r] \notin OnClient \ {"resume"}
        BY <1>0, <2>4, StageNames
      <4> QED
        BY <4>1, <4>2, StageNames DEF CallerSound
    <3>2. ASSUME NEW q \in Callers, q # r PROVE CallerSound(q)'
      BY <1>1, <2>1, <2>4, <3>2 DEF CallersSound, CallerSound
    <3> QED
      BY <3>1, <3>2 DEF CallersSound
  <2> QED
    BY <1>1, <2>1, <2>2, <2>3, <2>4, <2>5
<1>2. ASSUME bringUp' # 0, stage' = [stage EXCEPT ![r] = "server"],
             goal' = [goal EXCEPT ![r] = next], UNCHANGED <<conn, turn, outcome, last>>
      PROVE  /\ CallerTypes' /\ CallersSound' /\ stage'[r] = "server"
             /\ \A q \in Callers : q # r => stage'[q] = stage[q] /\ conn'[q] = conn[q]
  <2>1. CallerTypes'
    BY <1>0, <1>2 DEF CallerTypes
  <2>2. /\ stage'[r] = "server" /\ goal'[r] = next
        /\ \A q \in Callers : q # r => stage'[q] = stage[q] /\ goal'[q] = goal[q]
    BY <1>2 DEF CallerTypes
  <2>3. CallersSound'
    BY <1>2, <2>2, StageNames DEF CallersSound, CallerSound
  <2> QED
    BY <1>2, <2>1, <2>2, <2>3
<1>3. CASE /\ entry = 0 /\ bringUp # 0
           /\ stage' = [stage EXCEPT ![r] = "server"]
           /\ goal' = [goal EXCEPT ![r] = next]
           /\ UNCHANGED <<servers, breaker, conn, turn, outcome, last>>
  <2>1. UNCHANGED <<child, killed, entry, bringUp, socket, fastCrashes, cooled>>
    BY <1>3 DEF servers, breaker
  <2>2. ServerTypes' /\ Processes'
    BY <2>1, ProcessesSame DEF ServerTypes
  <2> QED
    BY <1>2, <1>3, <2>1, <2>2
<1>4. CASE /\ entry = 0 /\ Spare # {} /\ spawnServer
           /\ stage' = [stage EXCEPT ![r] = "server"]
           /\ goal' = [goal EXCEPT ![r] = next]
           /\ UNCHANGED <<conn, turn, outcome, last>>
  BY <1>2, <1>4, SpawnKept
<1> QED
  BY <1>1, <1>3, <1>4 DEF ensureServer

LEMMA Assembled ==
  ASSUME ServerTypes', CallerTypes', TurnTypes', AgentTypes', Processes', CallersSound',
         WakeSound'
  PROVE  XInv'
  BY DEF XInv, TypeOK, ServerTypes, CallerTypes, TurnTypes, AgentTypes, CallersSound,
         CallerSound, Processes

(* A caller that ends leaves nothing behind, whatever happens to the processes. *)
LEMMA EndsAnyway ==
  ASSUME XInv, NEW r \in Callers, NEW reason, Ends(r, reason),
         ServerTypes', Processes', killed \subseteq killed', stopping' \in BOOLEAN,
         UNCHANGED <<bringUp, archived, thread, rollout, orphans, displaced>>
  PROVE  XInv' /\ (r # "wake" => stage'["wake"] = stage["wake"])
<1>0. /\ ServerTypes /\ CallerTypes /\ TurnTypes /\ AgentTypes
      /\ Processes /\ CallersSound /\ WakeSound
  BY Parts
<1>1. /\ stage' = [stage EXCEPT ![r] = "idle"] /\ goal' = [goal EXCEPT ![r] = "none"]
      /\ conn' = [conn EXCEPT ![r] = 0]
      /\ turn' = [c \in Children |-> IF turn[c] = r THEN "stray" ELSE turn[c]]
      /\ outcome' = [outcome EXCEPT ![r] = "none"]
      /\ IF r = "wake" THEN marker' = 0 /\ aborted' = FALSE /\ acked' = FALSE
         ELSE UNCHANGED <<marker, aborted, acked>>
  BY DEF Ends, settle, signal
<1>3. CallerTypes' /\ TurnTypes'
  BY <1>0, <1>1, ChildrenFacts DEF CallerTypes, TurnTypes
<1>4. AgentTypes'
  BY <1>0, <1>1, ChildrenFacts DEF AgentTypes
<1>5. /\ stage'[r] = "idle" /\ conn'[r] = 0 /\ outcome'[r] = "none"
      /\ \A q \in Callers : q # r => stage'[q] = stage[q] /\ conn'[q] = conn[q]
                                     /\ goal'[q] = goal[q] /\ outcome'[q] = outcome[q]
      /\ \A c \in Children : turn'[c] # r /\ (turn'[c] = "wake" => turn[c] = "wake")
  BY <1>0, <1>1, CallerNames DEF CallerTypes, TurnTypes
<1>6. CallersSound'
  BY <1>0, <1>1, <1>5, StageNames DEF CallersSound, CallerSound
<1>7. WakeSound'
  <2>1. CASE r = "wake"
    BY <1>1, <1>5, <2>1, WakeOff
  <2>2. CASE r # "wake"
    BY <1>0, <1>1, <1>5, <2>2, CallerNames, WakeSame
  <2> QED
    BY <2>1, <2>2
<1> QED
  BY <1>3, <1>4, <1>5, <1>6, <1>7, CallerNames, Assembled


(* Nothing happened to the processes but what is said here. *)
LEMMA ServersSame ==
  ASSUME ServerTypes, Processes, UNCHANGED <<servers, breaker, orphans, displaced>>
  PROVE  ServerTypes' /\ Processes' /\ killed' = killed /\ bringUp' = bringUp
  BY ProcessesSame DEF ServerTypes, servers, breaker

LEMMA EndsKept ==
  ASSUME XInv, NEW r \in Callers, NEW reason, Ends(r, reason),
         UNCHANGED <<servers, breaker, stopping, archived, thread, rollout, orphans, displaced>>
  PROVE  XInv' /\ (r # "wake" => stage'["wake"] = stage["wake"])
<1>1. ServerTypes /\ Processes /\ stopping \in BOOLEAN
  BY Parts DEF AgentTypes
<1>2. ServerTypes' /\ Processes' /\ killed' = killed /\ bringUp' = bringUp
  BY <1>1, ServersSame
<1>3. ServerTypes' /\ Processes' /\ killed \subseteq killed' /\ stopping' \in BOOLEAN
      /\ UNCHANGED <<bringUp, archived, thread, rollout, orphans, displaced>>
  BY <1>1, <1>2
<1> QED
  BY <1>3, EndsAnyway

(* What a wake that settles must have told (OutcomeSound, of one step). *)
Told ==
  stage["wake"] # "idle" /\ stage'["wake"] = "idle" /\ hosts' = hosts =>
    /\ last' = "ok" =>
         /\ acked
         /\ \/ outcome["wake"] \in {"completed", "interrupted"} \/ aborted
            \/ stage["wake"] = "blind"
            \/ outcome["wake"] = "unlisted"
    /\ last' = "spawnFail" => ~acked
    /\ outcome["wake"] = "active" /\ OnServer("wake") => aborted

LEMMA Quiet ==
  ASSUME stage'["wake"] = stage["wake"] \/ stage'["wake"] # "idle" \/ stage["wake"] = "idle"
         \/ hosts' # hosts
  PROVE  Told
  BY DEF Told

(* A wake whose turn was not acknowledged reports a failure. *)
LEMMA TellsFailure ==
  ASSUME ~acked, outcome["wake"] # "active", last' # "ok"
  PROVE  Told
  BY DEF Told

LEMMA InitHolds == Init => XInv
<1> SUFFICES ASSUME Init PROVE XInv
  OBVIOUS
<1>1. ServerTypes
  <2>1. 0 \in 0 .. MaxChildren
    BY ChildrenFacts
  <2> QED
    BY <2>1 DEF Init, ServerTypes
<1>2. CallerTypes /\ TurnTypes /\ AgentTypes
  BY DEF Init, CallerTypes, TurnTypes, AgentTypes
<1>3. Processes
  <2>1. Gone \in SUBSET Children
    BY DEF Gone
  <2>2. 0 <= Cardinality(Gone)
    BY <2>1, GoneCounts
  <2> QED
    BY <2>2 DEF Init, Processes
<1>4. CallersSound
  BY StageNames DEF Init, CallersSound, CallerSound
<1>5. WakeSound
  BY CallerNames, StageNames DEF Init, WakeSound
<1> QED
  BY <1>1, <1>2, <1>3, <1>4, <1>5, Parts

-----------------------------------------------------------------------------
(* The steps of the processes, the agent and the host.                       *)

LEMMA ExitStep ==
  ASSUME XInv, NEW c \in Children, ExitSeen(c) \/ SpawnError(c)
  PROVE  XInv' /\ Told
<1>0. /\ ServerTypes /\ CallerTypes /\ TurnTypes /\ AgentTypes
      /\ Processes /\ CallersSound /\ WakeSound
  BY Parts
<1>1. /\ child[c] \in {"starting", "dead"} /\ c \notin orphans
      /\ child' = [child EXCEPT ![c] = "gone"] /\ entry' = 0
      /\ displaced' = displaced \cup ({entry} \ {0, c})
      /\ UNCHANGED <<killed, bringUp, socket, orphans>>
      /\ UNCHANGED <<stage, goal, conn, turn, outcome, thread, rollout, marker, stopping, archived,
                     aborted, acked>>
  BY <1>0 DEF ExitSeen, SpawnError, Processes, client, engine, threads, signal
<1>2. fastCrashes' \in {fastCrashes, fastCrashes + 1, 0} /\ cooled' \in BOOLEAN
  <2>1. CASE ExitSeen(c)
    BY <1>0, <2>1 DEF ExitSeen, breaker, ServerTypes
  <2>2. CASE SpawnError(c)
    BY <1>0, <2>2 DEF SpawnError, breaker, ServerTypes
  <2> QED
    BY <2>1, <2>2
<1>3. ServerTypes' /\ Processes'
  BY <1>0, <1>1, <1>2, EntryDeleted
<1>4. CallerTypes' /\ TurnTypes' /\ AgentTypes' /\ CallersSound'
  BY <1>0, <1>1 DEF CallerTypes, TurnTypes, AgentTypes, CallersSound, CallerSound
<1>5. WakeSound'
  BY <1>0, <1>1, WakeSame
<1> QED
  BY <1>1, <1>3, <1>4, <1>5, Assembled, Quiet

LEMMA EngineStep ==
  ASSUME XInv, NEW c \in Children, Listens(c) \/ Dies(c) \/ UserTurn(c)
  PROVE  XInv' /\ Told
<1>0. /\ ServerTypes /\ CallerTypes /\ TurnTypes /\ AgentTypes
      /\ Processes /\ CallersSound /\ WakeSound
  BY Parts
<1>1. /\ UNCHANGED <<stage, goal, conn, thread, marker, stopping, archived, aborted, acked,
                     killed, orphans, displaced, bringUp>>
      /\ rollout' \in {rollout, TRUE}
  BY DEF Listens, Dies, UserTurn, client, engine, threads, signal, servers, seen
<1>2. ServerTypes' /\ Processes'
  <2>1. CASE Listens(c)
    BY <1>0, <2>1, ListensKept DEF Listens, seen
  <2>2. CASE Dies(c)
    BY <1>0, <2>2, DiesKept DEF Dies, seen
  <2>3. CASE UserTurn(c)
    BY <1>0, <2>3, ServersSame DEF UserTurn, seen
  <2> QED
    BY <2>1, <2>2, <2>3
<1>3. /\ TurnTypes' /\ (outcome'["wake"] = "active" => outcome["wake"] = "active")
      /\ \A x \in Children : turn'[x] = "wake" => turn[x] = "wake"
  <2>1. CASE Listens(c)
    BY <1>0, <2>1 DEF Listens, engine, threads, TurnTypes
  <2>2. CASE Dies(c)
    <3>1. /\ turn' = [turn EXCEPT ![c] = "none"]
          /\ outcome' = [r \in Callers |->
               IF conn[r] = c /\ outcome[r] = "active" THEN "lost" ELSE outcome[r]]
      BY <2>2 DEF Dies
    <3> QED
      BY <1>0, <3>1, CallerNames DEF TurnTypes
  <2>3. CASE UserTurn(c)
    BY <1>0, <2>3 DEF UserTurn, TurnTypes
  <2> QED
    BY <2>1, <2>2, <2>3
<1>4. CallerTypes' /\ AgentTypes' /\ CallersSound'
  BY <1>0, <1>1 DEF CallerTypes, AgentTypes, CallersSound, CallerSound
<1>5. WakeSound'
  BY <1>0, <1>1, <1>3, WakeSame
<1> QED
  BY <1>1, <1>2, <1>3, <1>4, <1>5, Assembled, Quiet

(* The manager forgets the process it signals, or has none. *)
LEMMA StopOrSame ==
  ASSUME XInv, stopServer \/ UNCHANGED <<servers, breaker>>, UNCHANGED <<orphans, displaced>>
  PROVE  ServerTypes' /\ Processes' /\ killed \subseteq killed' /\ bringUp' = bringUp
<1>0. ServerTypes /\ Processes
  BY Parts
<1>1. CASE stopServer
  BY <1>0, <1>1, StopKept DEF stopServer
<1>2. CASE UNCHANGED <<servers, breaker>>
  BY <1>0, <1>2, ServersSame
<1> QED
  BY <1>1, <1>2

LEMMA ShutdownStep == ASSUME XInv, Shutdown PROVE XInv' /\ Told
<1>0. /\ ServerTypes /\ CallerTypes /\ TurnTypes /\ AgentTypes
      /\ Processes /\ CallersSound /\ WakeSound
  BY Parts
<1>1. /\ UNCHANGED <<archived, thread, rollout, orphans, displaced>> /\ stopping' = TRUE
      /\ stopServer \/ UNCHANGED <<servers, breaker>>
  BY DEF Shutdown, threads
<1>2. ServerTypes' /\ Processes' /\ killed \subseteq killed' /\ bringUp' = bringUp
  BY <1>1, StopOrSame
<1>3. CASE stage["wake"] = "parked" /\ Ends("wake", Reason("interrupted"))
  <2>1. XInv'
    BY <1>1, <1>2, <1>3, EndsAnyway, CallerNames
  <2>2. ~acked /\ outcome["wake"] # "active"
    BY <1>0, <1>3, StageNames DEF WakeSound
  <2>3. last' = "resumeFail"
    BY <1>3, <2>2 DEF Ends, settle, Reason
  <2> QED
    BY <2>1, <2>2, <2>3, TellsFailure
<1>4. CASE /\ aborted' = (aborted \/ stage["wake"] # "idle") /\ marker' = 0
           /\ UNCHANGED <<client, acked, turn, outcome, last>>
  <2>1. UNCHANGED <<stage, goal, conn, turn, outcome, acked>>
    BY <1>4 DEF client
  <2>2. AgentTypes'
    <3>1. aborted' \in BOOLEAN
      BY <1>4, Zenon
    <3> QED
      BY <1>0, <1>1, <1>4, <3>1 DEF AgentTypes
  <2>3. CallerTypes' /\ TurnTypes' /\ CallersSound'
    BY <1>0, <1>2, <2>1 DEF CallerTypes, TurnTypes, CallersSound, CallerSound
  <2>4. WakeSound'
    BY <1>0, <1>1, <1>2, <1>4, <2>1, WakeSame
  <2> QED
    BY <1>2, <2>1, <2>2, <2>3, <2>4, Assembled, Quiet
<1> QED
  BY <1>3, <1>4 DEF Shutdown

LEMMA AgentStep ==
  ASSUME XInv, Archive \/ CoolsDown
  PROVE  XInv' /\ Told
<1>0. /\ ServerTypes /\ CallerTypes /\ TurnTypes /\ AgentTypes
      /\ Processes /\ CallersSound /\ WakeSound
  BY Parts
<1>1. /\ UNCHANGED <<stage, goal, conn, turn, outcome, thread, rollout, marker, aborted, acked,
                     stopping, orphans, displaced>>
      /\ archived' \in {TRUE, archived}
  BY DEF Archive, CoolsDown, client, engine, threads, signal, seen
<1>2. ServerTypes' /\ Processes' /\ killed \subseteq killed' /\ bringUp' = bringUp
  <2>1. CASE Archive
    BY <1>1, <2>1, StopOrSame DEF Archive
  <2>2. CASE CoolsDown
    <3>1. UNCHANGED <<child, killed, entry, bringUp, socket, fastCrashes>> /\ cooled' = TRUE
      BY <2>2 DEF CoolsDown, servers
    <3> QED
      BY <1>0, <1>1, <3>1, ProcessesSame DEF ServerTypes
  <2> QED
    BY <2>1, <2>2
<1>3. AgentTypes'
  BY <1>0, <1>1 DEF AgentTypes
<1>4. CallerTypes' /\ TurnTypes' /\ CallersSound'
  BY <1>0, <1>1, <1>2 DEF CallerTypes, TurnTypes, CallersSound, CallerSound
<1>5. WakeSound'
  BY <1>0, <1>1, <1>2, WakeSame
<1> QED
  BY <1>1, <1>2, <1>3, <1>4, <1>5, Assembled, Quiet

LEMMA NextHostStep == ASSUME XInv, hosts \in Nat, NextHost PROVE XInv' /\ Told
<1>0. /\ ServerTypes /\ CallerTypes /\ TurnTypes /\ AgentTypes
      /\ Processes /\ CallersSound /\ WakeSound
  BY Parts
<1>1. ServerTypes' /\ Processes'
  BY <1>0, NextHostKept
<1>2. CallerTypes' /\ CallersSound'
  BY <1>0, StageNames DEF NextHost, CallerTypes, CallersSound, CallerSound
<1>3. /\ TurnTypes' /\ outcome'["wake"] = "none"
      /\ \A c \in Children : turn'[c] # "wake"
  BY <1>0, CallerNames DEF NextHost, TurnTypes
<1>4. AgentTypes'
  BY <1>0 DEF NextHost, AgentTypes, threads
<1>5. WakeSound'
  BY <1>3, CallerNames, WakeOff DEF NextHost
<1>6. Told
  <2>1. hosts' = hosts + 1 /\ hosts \in Nat
    BY DEF NextHost
  <2>2. hosts' # hosts
    BY <2>1
  <2> QED
    BY <2>2, Quiet
<1> QED
  BY <1>1, <1>2, <1>3, <1>4, <1>5, <1>6, Assembled


(* The bring-up is over: everyone who shared it goes on, or is told it failed. *)
LEMMA ReadyStep == ASSUME XInv, BringUpReady PROVE XInv' /\ Told
<1>0. /\ ServerTypes /\ CallerTypes /\ TurnTypes /\ AgentTypes
      /\ Processes /\ CallersSound /\ WakeSound
  BY Parts
<1>1. /\ bringUp' = 0 /\ socket \in Children
      /\ UNCHANGED <<child, killed, entry, socket, fastCrashes, cooled, orphans, displaced>>
      /\ UNCHANGED <<stopping, archived, aborted, acked, turn, outcome, thread, rollout, marker>>
  BY <1>0 DEF BringUpReady, breaker, signal, engine, threads, seen, ServerTypes
<1>2. ServerTypes' /\ Processes'
  BY <1>0, <1>1, ProcessesSame DEF ServerTypes
<1>3. \A r \in Callers : stage[r] = "server" =>
        /\ goal[r] \in {"bare", "prepared", "create", "resume", "launch", "poll"}
        /\ After(goal[r]) \in {"bare", "prepared", "create", "resume", "poll"}
  BY <1>0, StageNames DEF CallersSound, CallerSound
<1>4. \A r \in Callers :
        /\ stage'[r] = (IF stage[r] = "server" THEN After(goal[r]) ELSE stage[r])
        /\ goal'[r] = (IF stage[r] = "server" THEN "none" ELSE goal[r])
        /\ conn'[r] = (IF stage[r] = "server" /\ goal[r] = "resume" THEN socket ELSE conn[r])
  BY DEF BringUpReady
<1>5. CallerTypes'
  <2>1. stage' \in [Callers -> OnClient \cup {"idle", "server", "bare", "prepared", "create", "poll"}]
    BY <1>0, <1>3, StageNames DEF BringUpReady, CallerTypes
  <2>2. /\ goal' \in [Callers -> {"none", "bare", "prepared", "create", "resume", "launch", "poll"}]
        /\ conn' \in [Callers -> Children \cup {0}]
    BY <1>0, <1>1 DEF BringUpReady, CallerTypes
  <2> QED
    BY <2>1, <2>2 DEF CallerTypes
<1>6. TurnTypes' /\ AgentTypes'
  BY <1>0, <1>1 DEF TurnTypes, AgentTypes
<1>7. CallersSound'
  <2> SUFFICES ASSUME NEW r \in Callers PROVE CallerSound(r)'
    BY DEF CallersSound
  <2>1. CASE stage[r] = "server"
    <3>1. stage'[r] = After(goal[r]) /\ goal[r] \in GoalsOf(r)
      BY <1>0, <1>4, <2>1 DEF CallersSound, CallerSound
    <3>2. r = "tui" => stage'[r] = "poll"
      BY <3>1, StageNames
    <3>3. stage'[r] # "server" /\ stage'[r] \notin OnClient \ {"resume"}
      BY <1>3, <2>1, <3>1, StageNames
    <3> QED
      BY <3>2, <3>3, StageNames DEF CallerSound
  <2>2. CASE stage[r] # "server"
    BY <1>0, <1>4, <2>2 DEF CallersSound, CallerSound
  <2> QED
    BY <2>1, <2>2
<1>8. WakeSound' /\ Told
  <2>1. CASE stage["wake"] = "server"
    <3>1. ~acked /\ marker = 0 /\ outcome["wake"] # "active" /\ \A c \in Children : turn[c] # "wake"
      BY <1>0, <2>1, WakeIsOff, StageNames
    <3>2. stage'["wake"] \in {"bare", "prepared", "create", "resume", "poll"}
      BY <1>3, <1>4, <2>1, CallerNames
    <3> QED
      BY <1>1, <3>1, <3>2, WakeOff, Quiet
  <2>2. CASE stage["wake"] # "server"
    <3>1. stage'["wake"] = stage["wake"] /\ conn'["wake"] = conn["wake"]
      BY <1>4, <2>2, CallerNames
    <3> QED
      BY <1>0, <1>1, <3>1, WakeSame, Quiet
  <2> QED
    BY <2>1, <2>2
<1> QED
  BY <1>2, <1>5, <1>6, <1>7, <1>8, Assembled

LEMMA TimesOutStep == ASSUME XInv, BringUpTimesOut PROVE XInv' /\ Told
<1>0. /\ ServerTypes /\ CallerTypes /\ TurnTypes /\ AgentTypes
      /\ Processes /\ CallersSound /\ WakeSound
  BY Parts
<1>1. /\ bringUp' = 0
      /\ UNCHANGED <<child, killed, entry, socket, fastCrashes, cooled, orphans, displaced>>
      /\ UNCHANGED <<stopping, archived, turn, outcome, thread, rollout, conn>>
      /\ IF stage["wake"] = "server"
         THEN last' = "spawnFail" /\ marker' = 0 /\ aborted' = FALSE /\ acked' = FALSE
         ELSE UNCHANGED <<last, marker, aborted, acked>>
  BY DEF BringUpTimesOut, breaker, settle, signal, engine, threads
<1>2. ServerTypes' /\ Processes'
  BY <1>0, <1>1, ProcessesSame DEF ServerTypes
<1>4. \A r \in Callers :
        stage'[r] = (IF stage[r] # "server" THEN stage[r]
                     ELSE IF goal[r] = "poll" THEN "poll" ELSE "idle")
  BY DEF BringUpTimesOut
<1>5. CallerTypes'
  BY <1>0, <1>1 DEF BringUpTimesOut, CallerTypes
<1>6. TurnTypes' /\ AgentTypes'
  BY <1>0, <1>1 DEF TurnTypes, AgentTypes
<1>7. CallersSound'
  BY <1>0, <1>1, <1>4, StageNames DEF CallersSound, CallerSound
<1>8. WakeSound' /\ Told
  <2>1. CASE stage["wake"] = "server"
    <3>1. ~acked /\ marker = 0 /\ outcome["wake"] # "active" /\ \A c \in Children : turn[c] # "wake"
      BY <1>0, <2>1, WakeIsOff, StageNames
    <3>2. stage'["wake"] \in {"poll", "idle"}
      BY <1>4, <2>1, CallerNames
    <3> QED
      BY <1>1, <2>1, <3>1, <3>2, WakeOff, TellsFailure
  <2>2. CASE stage["wake"] # "server"
    <3>1. stage'["wake"] = stage["wake"] /\ conn'["wake"] = conn["wake"]
      BY <1>1, <1>4, <2>2, CallerNames
    <3> QED
      BY <1>0, <1>1, <2>2, <3>1, WakeSame, Quiet
  <2> QED
    BY <2>1, <2>2
<1> QED
  BY <1>2, <1>5, <1>6, <1>7, <1>8, Assembled

(* A turn ends: whoever hears of it asks for its own, unless it is an aborted wake. *)
LEMMA TurnEndsStep ==
  ASSUME XInv, NEW c \in Children, NEW how \in Ended(turn[c]),
         TurnEnds(c, how)
  PROVE  XInv' /\ Told
<1>0. /\ ServerTypes /\ CallerTypes /\ TurnTypes /\ AgentTypes
      /\ Processes /\ CallersSound /\ WakeSound
  BY Parts
<1>1. /\ turn' = [turn EXCEPT ![c] = "none"]
      /\ outcome' = [r \in Callers |-> IF turn[c] = r THEN how ELSE outcome[r]]
      /\ UNCHANGED <<servers, breaker, stopping, archived, goal, thread, rollout, orphans, displaced>>
  BY DEF TurnEnds, threads
<1>h. how \in {"completed", "failed", "unlisted", "interrupted"}
  BY DEF Ended
<1>2. PICK heard \in SUBSET {r \in Callers : stage[r] = "parked" /\ conn[r] = c} :
        IF "wake" \in heard /\ aborted
        THEN /\ stage' = [r \in Callers |-> IF r = "wake" THEN "idle"
                             ELSE IF r \in heard THEN "start" ELSE stage[r]]
             /\ conn' = [conn EXCEPT !["wake"] = 0]
             /\ settle(Reason("interrupted"))
        ELSE /\ stage' = [r \in Callers |-> IF r \in heard THEN "start" ELSE stage[r]]
             /\ UNCHANGED <<conn, last, marker, signal>>
  BY DEF TurnEnds
<1>3. ServerTypes' /\ Processes' /\ killed' = killed /\ bringUp' = bringUp
  BY <1>0, <1>1, ServersSame
<1>4. /\ TurnTypes' /\ (outcome'["wake"] = "active" => outcome["wake"] = "active")
      /\ \A x \in Children : turn'[x] = "wake" => turn[x] = "wake"
  BY <1>0, <1>1, <1>h, CallerNames DEF TurnTypes
<1>5. \A r \in heard : r \in Callers /\ stage[r] = "parked"
  OBVIOUS
<1>6. CASE "wake" \in heard /\ aborted
  <2>1. /\ stage' = [r \in Callers |-> IF r = "wake" THEN "idle"
                             ELSE IF r \in heard THEN "start" ELSE stage[r]]
        /\ conn' = [conn EXCEPT !["wake"] = 0]
        /\ last' = Reason("interrupted") /\ marker' = 0 /\ aborted' = FALSE /\ acked' = FALSE
    BY <1>2, <1>6 DEF settle
  <2>2. CallerTypes'
    BY <1>0, <1>1, <2>1, StageNames, ChildrenFacts DEF CallerTypes
  <2>3. AgentTypes'
    BY <1>0, <1>1, <2>1 DEF AgentTypes
  <2>4. \A r \in Callers :
          /\ stage'[r] = (IF r = "wake" THEN "idle" ELSE IF r \in heard THEN "start" ELSE stage[r])
          /\ goal'[r] = goal[r] /\ (r # "wake" => conn'[r] = conn[r])
    BY <1>0, <1>1, <2>1 DEF CallerTypes
  <2>5. CallersSound'
    BY <1>0, <1>3, <1>5, <2>4, StageNames DEF CallersSound, CallerSound
  <2>6. /\ stage["wake"] = "parked" /\ stage'["wake"] = "idle"
        /\ ~acked /\ outcome["wake"] # "active" /\ \A x \in Children : turn[x] # "wake"
    BY <1>0, <1>5, <1>6, <2>4, CallerNames, StageNames DEF WakeSound
  <2>7. WakeSound'
    BY <1>4, <2>1, <2>6, WakeOff
  <2>8. last' = "resumeFail"
    BY <2>1, <2>6 DEF Reason
  <2> QED
    BY <1>3, <1>4, <2>2, <2>3, <2>5, <2>6, <2>7, <2>8, Assembled, TellsFailure
<1>7. CASE ~("wake" \in heard /\ aborted)
  <2>1. /\ stage' = [r \in Callers |-> IF r \in heard THEN "start" ELSE stage[r]]
        /\ UNCHANGED <<conn, last, marker, aborted, acked>>
    BY <1>2, <1>7 DEF signal
  <2>2. CallerTypes' /\ AgentTypes'
    BY <1>0, <1>1, <2>1, StageNames DEF CallerTypes, AgentTypes
  <2>3. \A r \in Callers : stage'[r] = (IF r \in heard THEN "start" ELSE stage[r])
    BY <2>1
  <2>4. CallersSound'
    BY <1>0, <1>1, <1>3, <1>5, <2>1, <2>3, StageNames DEF CallersSound, CallerSound
  <2>5. WakeSound' /\ Told
    <3>1. CASE "wake" \in heard
      <4>1. stage["wake"] = "parked" /\ stage'["wake"] = "start"
        BY <1>5, <2>3, <3>1, CallerNames
      <4>2. ~acked /\ outcome["wake"] # "active" /\ \A x \in Children : turn[x] # "wake"
        BY <1>0, <4>1, StageNames DEF WakeSound
      <4>3. WakeSound'
        BY <1>0, <1>1, <1>3, <1>4, <2>1, <4>1, <4>2, StageNames DEF WakeSound
      <4> QED
        BY <4>1, <4>3, Quiet
    <3>2. CASE "wake" \notin heard
      <4>1. stage'["wake"] = stage["wake"]
        BY <2>3, <3>2, CallerNames
      <4> QED
        BY <1>0, <1>1, <1>3, <1>4, <2>1, <4>1, WakeSame, Quiet
    <3> QED
      BY <3>1, <3>2
  <2> QED
    BY <1>3, <1>4, <2>2, <2>4, <2>5, Assembled
<1> QED
  BY <1>6, <1>7

(* A turn of a replaced thread ends: only its caller hears of it. *)
LEMMA FormerStep ==
  ASSUME XInv, NEW r \in Callers, NEW how \in Ended(r), FormerTurnEnds(r, how)
  PROVE  XInv' /\ Told
<1>0. /\ ServerTypes /\ CallerTypes /\ TurnTypes /\ AgentTypes
      /\ Processes /\ CallersSound /\ WakeSound
  BY Parts
<1>1. /\ outcome' = [outcome EXCEPT ![r] = how]
      /\ UNCHANGED <<servers, breaker, stopping, archived, stage, goal, conn, turn, thread,
                     rollout, marker, aborted, acked, orphans, displaced>>
  BY DEF FormerTurnEnds, client, signal, threads, seen
<1>2. how \in {"completed", "failed", "unlisted", "interrupted"}
  BY DEF Ended
<1>3. ServerTypes' /\ Processes' /\ killed' = killed /\ bringUp' = bringUp
  BY <1>0, <1>1, ServersSame
<1>4. TurnTypes' /\ (outcome'["wake"] = "active" => outcome["wake"] = "active")
  BY <1>0, <1>1, <1>2, CallerNames DEF TurnTypes
<1>5. CallerTypes' /\ AgentTypes' /\ CallersSound'
  BY <1>0, <1>1, <1>3 DEF CallerTypes, AgentTypes, CallersSound, CallerSound
<1>6. WakeSound'
  BY <1>0, <1>1, <1>3, <1>4, WakeSame
<1> QED
  BY <1>1, <1>3, <1>4, <1>5, <1>6, Assembled, Quiet

-----------------------------------------------------------------------------
(* The steps of the callers.                                                 *)

(* The wake, off its client, asks for the server. *)
LEMMA WakeEnsures ==
  ASSUME XInv, stage["wake"] \notin OnClient, stage["wake"] # "idle" \/ stage'["wake"] # "idle",
         NEW next \in GoalsOf("wake"), ensureServer("wake", next),
         next = "resume" \/ marker' = marker, marker' \in {marker, entry},
         UNCHANGED <<stopping, archived, signal, thread, rollout, orphans, displaced>>
  PROVE  XInv' /\ Told
<1>0. /\ ServerTypes /\ CallerTypes /\ TurnTypes /\ AgentTypes
      /\ Processes /\ CallersSound /\ WakeSound
  BY Parts
<1>1. /\ ServerTypes' /\ Processes' /\ CallerTypes' /\ CallersSound'
      /\ stage'["wake"] \in {"server", After(next)}
      /\ stage'["wake"] # "server" => entry # 0 /\ (next = "resume" => conn'["wake"] = socket)
      /\ UNCHANGED <<killed, turn, outcome, last>>
  BY <1>0, EnsureKept, CallerNames
<1>2. TurnTypes' /\ AgentTypes'
  BY <1>0, <1>1 DEF TurnTypes, AgentTypes, ServerTypes, signal
<1>3. /\ ~acked' /\ marker = 0 /\ outcome'["wake"] # "active"
      /\ \A c \in Children : turn'[c] # "wake"
  BY <1>0, <1>1, WakeIsOff DEF signal
<1>4. After(next) \in {"bare", "prepared", "create", "resume"}
      /\ (After(next) = "resume" <=> next = "resume") /\ stage'["wake"] \notin {"subscribe", "race", "blind"}
      /\ stage'["wake"] # "idle"
  BY <1>1, StageNames
<1>5. PICK s : s = stage'["wake"]
  OBVIOUS
<1>6. CASE marker' = 0
  BY <1>1, <1>2, <1>3, <1>4, <1>6, WakeOff, Quiet, Assembled
<1>7. CASE marker' # 0 /\ stage'["wake"] = "server"
  <2>1. entry # 0 /\ marker' = entry
    BY <1>3, <1>7
  <2>2. FALSE
    BY <1>0, <1>4, <1>7, <2>1, CallerNames, StageNames DEF ensureServer, CallerTypes
  <2> QED
    BY <2>2
<1>8. CASE marker' # 0 /\ stage'["wake"] # "server"
  <2>1. /\ marker' = entry /\ next = "resume" /\ stage'["wake"] = "resume"
        /\ conn'["wake"] = socket
    BY <1>1, <1>3, <1>4, <1>8
  <2>2. socket # 0 => socket = entry \/ socket \in killed \cup orphans \cup displaced
    BY <1>0 DEF Processes, ServerTypes
  <2>3. WakeSound'
    BY <1>1, <1>3, <2>1, <2>2, StageNames DEF WakeSound
  <2> QED
    BY <1>1, <1>2, <1>4, <2>3, Quiet, Assembled
<1> QED
  BY <1>6, <1>7, <1>8

LEMMA RunStep == ASSUME XInv, Run PROVE XInv' /\ Told
<1>0. /\ ServerTypes /\ CallerTypes /\ TurnTypes /\ AgentTypes
      /\ Processes /\ CallersSound /\ WakeSound
  BY Parts
<1>1. /\ stage["wake"] = "idle" /\ stage["wake"] \notin OnClient
      /\ UNCHANGED <<stopping, archived, thread, rollout, orphans, displaced>>
  BY StageNames DEF Run, threads
<1>2. ASSUME NEW next \in {"bare", "prepared"}, ensureServer("wake", next),
             UNCHANGED <<signal, marker>>
      PROVE  XInv' /\ Told
  <2>1. stage'["wake"] \in {"server", "bare", "prepared"}
    BY <1>0, <1>1, <1>2, EnsureKept, CallerNames, StageNames
  <2> QED
    BY <1>1, <1>2, <2>1, WakeEnsures, StageNames
<1>3. CASE settle("spawnFail") /\ UNCHANGED <<servers, breaker, client, turn, outcome>>
  <2>1. /\ marker' = 0 /\ aborted' = FALSE /\ acked' = FALSE
        /\ UNCHANGED <<stage, goal, conn, turn, outcome>>
    BY <1>3 DEF settle, client
  <2>2. ServerTypes' /\ Processes' /\ bringUp' = bringUp
    BY <1>0, <1>1, <1>3, ServersSame
  <2>3. CallerTypes' /\ TurnTypes' /\ AgentTypes' /\ CallersSound'
    BY <1>0, <1>1, <2>1, <2>2 DEF CallerTypes, TurnTypes, AgentTypes, CallersSound, CallerSound
  <2>4. WakeSound'
    BY <1>0, <1>1, <2>1, WakeIsOff, WakeOff
  <2> QED
    BY <1>1, <2>2, <2>3, <2>4, Assembled, Quiet
<1> QED
  BY <1>2, <1>3 DEF Run

(* A step that ends r's call, and what it tells if r is the wake. *)
LEMMA EndsTold ==
  ASSUME XInv, NEW r \in Callers, NEW reason, Ends(r, reason),
         UNCHANGED <<servers, breaker, stopping, archived, thread, rollout, orphans, displaced>>,
         r = "wake" => /\ reason = "ok" =>
                            /\ acked
                            /\ \/ outcome["wake"] \in {"completed", "interrupted"} \/ aborted
                               \/ stage["wake"] = "blind"
                               \/ outcome["wake"] = "unlisted"
                       /\ reason = "spawnFail" => ~acked
                       /\ outcome["wake"] = "active" /\ OnServer("wake") => aborted
  PROVE  XInv' /\ Told
<1>1. XInv' /\ (r # "wake" => stage'["wake"] = stage["wake"])
  BY EndsKept
<1>2. CASE r # "wake"
  BY <1>1, <1>2, Quiet
<1>3. CASE r = "wake"
  <2>1. last' = reason
    BY <1>3 DEF Ends, settle
  <2> QED
    BY <1>1, <1>3, <2>1 DEF Told
<1> QED
  BY <1>2, <1>3

LEMMA PreparedStep == ASSUME XInv, Prepared PROVE XInv' /\ Told
<1>0. /\ stage["wake"] \in {"bare", "prepared"} /\ stage["wake"] \notin OnClient
      /\ UNCHANGED <<stopping, archived, thread, rollout, orphans, displaced>>
  BY StageNames DEF Prepared, threads
<1>1. ~acked /\ outcome["wake"] # "active"
  BY <1>0, Parts, WakeIsOff
<1>2. CASE /\ ensureServer("wake", IF stage["wake"] = "bare" THEN "create" ELSE "resume")
           /\ marker' = IF stage["wake"] = "prepared" /\ entry # 0 THEN entry ELSE marker
           /\ UNCHANGED signal
  <2>1. CASE stage["wake"] = "prepared"
    BY <1>0, <1>2, <2>1, WakeEnsures, StageNames
  <2>2. CASE stage["wake"] = "bare"
    <3>1. ensureServer("wake", "create") /\ marker' = marker
      BY <1>2, <2>2
    <3> QED
      BY <1>0, <1>2, <2>2, <3>1, WakeEnsures, StageNames
  <2> QED
    BY <1>0, <2>1, <2>2
<1>3. CASE Ends("wake", "spawnFail") /\ UNCHANGED <<servers, breaker>>
  BY <1>0, <1>1, <1>3, EndsTold, CallerNames
<1> QED
  BY <1>2, <1>3 DEF Prepared

(* A caller moves to another await, its connection as it was. *)
LEMMA MovesKept ==
  ASSUME XInv, NEW r \in Callers, NEW s \in {"prepared", "parked", "start", "first", "idle", "poll"},
         stage' = [stage EXCEPT ![r] = s], s \in OnClient => conn[r] # 0 /\ r # "tui",
         UNCHANGED <<servers, breaker, goal, conn, turn, outcome, marker, aborted, acked,
                     stopping, archived, orphans, displaced>>,
         thread' \in BOOLEAN, rollout' \in BOOLEAN,
         r = "wake" => s # "idle" /\ stage["wake"] \notin OnTurn
                       /\ (stage["wake"] \in OnClient => s \in OnClient)
  PROVE  XInv' /\ Told
<1>0. /\ ServerTypes /\ CallerTypes /\ TurnTypes /\ AgentTypes
      /\ Processes /\ CallersSound /\ WakeSound
  BY Parts
<1>1. ServerTypes' /\ Processes' /\ killed' = killed /\ bringUp' = bringUp
  BY <1>0, ServersSame
<1>2. CallerTypes' /\ TurnTypes' /\ AgentTypes'
  BY <1>0, StageNames DEF CallerTypes, TurnTypes, AgentTypes
<1>3. stage'[r] = s /\ \A q \in Callers : q # r => stage'[q] = stage[q]
  BY <1>0 DEF CallerTypes
<1>4. CallersSound'
  BY <1>0, <1>1, <1>3, StageNames DEF CallersSound, CallerSound
<1>5. WakeSound' /\ Told
  <2>1. CASE r = "wake"
    <3>1. /\ ~acked /\ outcome["wake"] # "active" /\ \A c \in Children : turn[c] # "wake"
          /\ (marker # 0 => stage["wake"] \in OnClient)
      BY <1>0, <2>1 DEF WakeSound
    <3>2. WakeSound'
      BY <1>0, <1>1, <1>3, <2>1, <3>1, StageNames DEF WakeSound
    <3> QED
      BY <1>3, <2>1, <3>2, Quiet
  <2>2. CASE r # "wake"
    BY <1>0, <1>1, <1>3, <2>2, CallerNames, WakeSame, Quiet
  <2> QED
    BY <2>1, <2>2
<1> QED
  BY <1>1, <1>2, <1>4, <1>5, Assembled

LEMMA ThreadCreatedStep == ASSUME XInv, ThreadCreated PROVE XInv' /\ Told
<1>0. /\ stage["wake"] = "create" /\ stage["wake"] \notin OnClient
      /\ UNCHANGED <<servers, breaker, stopping, archived, orphans, displaced>>
  BY StageNames DEF ThreadCreated
<1>1. ~acked /\ outcome["wake"] # "active"
  BY <1>0, Parts, WakeIsOff
<1>2. CASE /\ thread' = TRUE /\ rollout' = FALSE
           /\ stage' = [stage EXCEPT !["wake"] = "prepared"]
           /\ UNCHANGED <<goal, conn, turn, outcome, last, marker, signal>>
  BY <1>0, <1>2, MovesKept, CallerNames, StageNames DEF signal
<1>3. CASE Ends("wake", "resumeFail") /\ UNCHANGED threads
  <2>1. UNCHANGED <<thread, rollout>>
    BY <1>3 DEF threads
  <2> QED
    BY <1>0, <1>1, <1>3, <2>1, EndsTold, CallerNames
<1> QED
  BY <1>2, <1>3 DEF ThreadCreated

(* Another caller asks for the server. *)
LEMMA OtherEnsures ==
  ASSUME XInv, NEW r \in {"push", "tui"}, NEW next \in GoalsOf(r), ensureServer(r, next),
         UNCHANGED <<stopping, archived, signal, marker, orphans, displaced>>,
         thread' \in BOOLEAN, rollout' \in BOOLEAN
  PROVE  XInv' /\ Told
<1>0. /\ ServerTypes /\ CallerTypes /\ TurnTypes /\ AgentTypes
      /\ Processes /\ CallersSound /\ WakeSound
  BY Parts
<1>1. /\ ServerTypes' /\ Processes' /\ CallerTypes' /\ CallersSound'
      /\ stage'["wake"] = stage["wake"] /\ conn'["wake"] = conn["wake"]
      /\ UNCHANGED <<killed, turn, outcome, last>>
  BY <1>0, EnsureKept, CallerNames
<1>2. TurnTypes' /\ AgentTypes' /\ UNCHANGED acked
  BY <1>0, <1>1 DEF TurnTypes, AgentTypes, signal
<1>3. WakeSound'
  BY <1>0, <1>1, <1>2, WakeSame
<1> QED
  BY <1>1, <1>2, <1>3, Assembled, Quiet

LEMMA OtherStep == ASSUME XInv, Push \/ Launch \/ AdoptionPoll PROVE XInv' /\ Told
<1>0. thread \in BOOLEAN /\ rollout \in BOOLEAN
  BY Parts DEF AgentTypes
<1>1. CASE Push
  BY <1>0, <1>1, OtherEnsures, StageNames DEF Push, threads
<1>2. CASE Launch
  BY <1>0, <1>2, OtherEnsures, StageNames DEF Launch, threads
<1>3. CASE AdoptionPoll
  <2>0. UNCHANGED <<stopping, archived, signal, marker, orphans, displaced, aborted, acked>>
    BY <1>3 DEF AdoptionPoll, signal
  <2>1. CASE ensureServer("tui", "poll") /\ UNCHANGED threads
    BY <1>0, <2>0, <2>1, OtherEnsures, StageNames DEF threads
  <2>2. CASE /\ thread' \in {TRUE, thread} /\ UNCHANGED rollout
             /\ stage' = [stage EXCEPT !["tui"] = "idle"]
             /\ UNCHANGED <<servers, breaker, goal, conn, turn, outcome, last>>
    BY <1>0, <2>0, <2>2, MovesKept, CallerNames, StageNames
  <2> QED
    BY <1>3, <2>1, <2>2 DEF AdoptionPoll, threads
<1> QED
  BY <1>1, <1>2, <1>3

(* The turn of r is acknowledged. *)
LEMMA AckStep ==
  ASSUME XInv, NEW r \in Callers, stage[r] \in {"start", "first"}, OnServer(r),
         NEW s \in {"subscribe", "race"},
         turn' = [turn EXCEPT ![conn[r]] = r], outcome' = [outcome EXCEPT ![r] = "active"],
         acked' = (acked \/ r = "wake"), stage' = [stage EXCEPT ![r] = s],
         UNCHANGED <<goal, conn, last, marker, aborted>>,
         UNCHANGED <<servers, breaker, stopping, archived, thread, orphans, displaced>>,
         rollout' \in BOOLEAN
  PROVE  XInv' /\ Told
<1>0. /\ ServerTypes /\ CallerTypes /\ TurnTypes /\ AgentTypes
      /\ Processes /\ CallersSound /\ WakeSound
  BY Parts
<1>1. ServerTypes' /\ Processes' /\ killed' = killed /\ bringUp' = bringUp
  BY <1>0, ServersSame
<1>2. conn[r] \in Children /\ conn[r] # 0
  BY <1>0 DEF OnServer, CallerTypes
<1>3. CallerTypes' /\ TurnTypes' /\ AgentTypes'
  <2>1. r \in {"wake", "push"} /\ acked' \in BOOLEAN
    BY <1>0, CallerNames, StageNames DEF AgentTypes, CallersSound, CallerSound
  <2> QED
    BY <1>0, <1>2, <2>1, StageNames DEF CallerTypes, TurnTypes, AgentTypes
<1>4. /\ stage'[r] = s /\ \A q \in Callers : q # r => stage'[q] = stage[q]
      /\ \A q \in Callers : q # r => outcome'[q] = outcome[q]
      /\ turn'[conn[r]] = r /\ \A c \in Children : c # conn[r] => turn'[c] = turn[c]
  BY <1>0, <1>2 DEF CallerTypes, TurnTypes
<1>5. CallersSound'
  BY <1>0, <1>1, <1>2, <1>4, StageNames DEF CallersSound, CallerSound
<1>6. WakeSound'
  <2>1. CASE r = "wake"
    <3>0. acked'
      BY <2>1, Zenon
    <3>1. /\ stage'["wake"] \in OnTurn /\ stage["wake"] \in OnClient
          /\ stage'["wake"] \in OnClient
      BY <1>4, <2>1, StageNames
    <3>2. UNCHANGED <<marker, conn, killed, orphans, displaced>>
      BY <1>1
    <3> QED
      BY <1>0, <3>0, <3>1, <3>2 DEF WakeSound
  <2>2. CASE r # "wake"
    <3>1. \A c \in Children : turn'[c] = "wake" => turn[c] = "wake"
      BY <1>4, <2>2
    <3>2. UNCHANGED acked /\ stage'["wake"] = stage["wake"] /\ outcome'["wake"] = outcome["wake"]
      BY <1>0, <1>4, <2>2, CallerNames DEF AgentTypes
    <3> QED
      BY <1>0, <1>1, <3>1, <3>2, CallerNames, WakeSame
  <2> QED
    BY <2>1, <2>2
<1>7. Told
  <2>1. s # "idle"
    OBVIOUS
  <2> QED
    BY <1>4, <2>1, CallerNames, Quiet
<1> QED
  BY <1>1, <1>3, <1>5, <1>6, <1>7, Assembled


LEMMA ResumeStep ==
  ASSUME XInv, NEW r \in Callers, ResumeAnswers(r)
  PROVE  XInv' /\ Told
<1>0. /\ ServerTypes /\ CallerTypes /\ TurnTypes /\ AgentTypes
      /\ Processes /\ CallersSound /\ WakeSound
  BY Parts
<1>1. /\ stage[r] = "resume" /\ OnServer(r)
      /\ UNCHANGED <<servers, breaker, stopping, archived, thread, rollout, orphans, displaced>>
  BY DEF ResumeAnswers, threads
<1>2. r # "tui" /\ conn[r] # 0 /\ (r = "wake" => ~acked /\ outcome["wake"] # "active")
  BY <1>0, <1>1, StageNames DEF OnServer, CallersSound, CallerSound, WakeSound
<1>3. ASSUME NEW s \in {"parked", "start", "first"}, stage' = [stage EXCEPT ![r] = s],
             UNCHANGED <<goal, conn, turn, outcome, last, marker, signal>>
      PROVE  XInv' /\ Told
  BY <1>0, <1>1, <1>2, <1>3, MovesKept, StageNames DEF signal, AgentTypes
<1>4. Reason("interrupted") = (IF ~acked THEN "resumeFail" ELSE "ok")
  BY DEF Reason
<1>5. CASE r = "wake" /\ aborted /\ Ends(r, Reason("interrupted"))
  BY <1>1, <1>2, <1>4, <1>5, EndsTold
<1>6. CASE Ends(r, "resumeFail")
  BY <1>1, <1>2, <1>6, EndsTold
<1> QED
  BY <1>3, <1>5, <1>6 DEF ResumeAnswers

LEMMA StartStep ==
  ASSUME XInv, NEW r \in Callers, StartAnswers(r)
  PROVE  XInv' /\ Told
<1>0. thread \in BOOLEAN /\ rollout \in BOOLEAN
  BY Parts DEF AgentTypes
<1>1. /\ stage[r] \in {"start", "first"} /\ OnServer(r)
      /\ UNCHANGED <<servers, breaker, stopping, archived, thread, orphans, displaced>>
  BY DEF StartAnswers
<1>2. r = "wake" => ~acked /\ outcome["wake"] # "active"
  BY <1>1, Parts, StageNames DEF WakeSound
<1>3. CASE Ends(r, "resumeFail") /\ UNCHANGED rollout
  BY <1>1, <1>2, <1>3, EndsTold
<1>4. CASE /\ turn' = [turn EXCEPT ![conn[r]] = r]
           /\ outcome' = [outcome EXCEPT ![r] = "active"]
           /\ rollout' = (rollout \/ stage[r] = "first")
           /\ acked' = (acked \/ r = "wake")
           /\ stage' = [stage EXCEPT ![r] =
                IF @ = "first" /\ r = "wake" THEN "subscribe" ELSE "race"]
           /\ UNCHANGED <<goal, conn, last, marker, aborted>>
  <2>1. rollout' \in BOOLEAN
    BY <1>4, Zenon
  <2>2. PICK s \in {"subscribe", "race"} : stage' = [stage EXCEPT ![r] = s]
    BY <1>4
  <2> QED
    BY <1>1, <1>4, <2>1, <2>2, AckStep
<1> QED
  BY <1>3, <1>4 DEF StartAnswers

(* The second resume has its answer, whichever. *)
LEMMA SubscribedStep == ASSUME XInv, Subscribed PROVE XInv' /\ Told
<1>0. /\ ServerTypes /\ CallerTypes /\ TurnTypes /\ AgentTypes
      /\ Processes /\ CallersSound /\ WakeSound
  BY Parts
<1>1. /\ stage["wake"] = "subscribe"
      /\ UNCHANGED <<servers, breaker, stopping, archived, goal, conn, turn, outcome, thread,
                     rollout, marker, aborted, acked, orphans, displaced>>
  BY DEF Subscribed, signal, engine, threads, seen
<1>2. PICK s \in {"race", "blind"} : stage' = [stage EXCEPT !["wake"] = s]
  BY DEF Subscribed
<1>3. ServerTypes' /\ Processes' /\ killed' = killed /\ bringUp' = bringUp
  BY <1>0, <1>1, ServersSame
<1>4. CallerTypes' /\ TurnTypes' /\ AgentTypes'
  BY <1>0, <1>1, <1>2, StageNames DEF CallerTypes, TurnTypes, AgentTypes
<1>5. stage'["wake"] = s /\ \A q \in Callers : q # "wake" => stage'[q] = stage[q]
  BY <1>0, <1>2, CallerNames DEF CallerTypes
<1>6. CallersSound'
  BY <1>0, <1>1, <1>3, <1>5, CallerNames, StageNames DEF CallersSound, CallerSound
<1>7. WakeSound'
  <2>1. /\ stage["wake"] \in OnTurn /\ stage'["wake"] \in OnTurn
        /\ stage["wake"] \in OnClient /\ stage'["wake"] \in OnClient
    BY <1>1, <1>5, StageNames
  <2> QED
    BY <1>0, <1>1, <1>3, <2>1 DEF WakeSound
<1>8. Told
  <2>1. s # "idle"
    OBVIOUS
  <2> QED
    BY <1>5, <2>1, Quiet
<1> QED
  BY <1>3, <1>4, <1>6, <1>7, <1>8, Assembled

(* The turn of r ended, or its connection broke. *)
LEMMA RaceStep ==
  ASSUME XInv, NEW r \in Callers, OutcomeLearnt(r) \/ ConnectionCloses(r)
  PROVE  XInv' /\ Told
<1>0. UNCHANGED <<servers, breaker, stopping, archived, thread, rollout, orphans, displaced>>
  BY DEF OutcomeLearnt, ConnectionCloses, threads
<1>1. CASE OutcomeLearnt(r)
  <2>1. PICK how \in {"completed", "failed", "interrupted"} :
          /\ stage[r] = "race" /\ Ends(r, Reason(how))
          /\ outcome[r] = how \/ outcome[r] = "unlisted"
    BY <1>1 DEF OutcomeLearnt
  <2>2. /\ r = "wake" => acked
        /\ Reason(how) = "ok" => how # "failed"
        /\ Reason(how) # "spawnFail" /\ outcome[r] # "active"
    BY <2>1, Parts, StageNames DEF WakeSound, Reason
  <2> QED
    BY <1>0, <2>1, <2>2, EndsTold
<1>2. CASE ConnectionCloses(r)
  <2>1. Ends(r, "resumeFail") /\ ~OnServer(r)
    BY <1>2 DEF ConnectionCloses
  <2> QED
    BY <1>0, <2>1, EndsTold
<1> QED
  BY <1>1, <1>2

(* A wake that races blind has lost its connection. *)
Conns ==
  /\ \A r \in Callers : conn[r] # 0 => child[conn[r]] \in {"up", "dead", "gone"}
  /\ stage["wake"] = "blind" => ~OnServer("wake")

LEMMA BlindStep ==
  ASSUME XInv, PollSeesClosed
  PROVE  XInv' /\ (Conns => Told)
<1>0. UNCHANGED <<servers, breaker, stopping, archived, thread, rollout, orphans, displaced>>
  BY DEF PollSeesClosed, threads
<1>1. /\ stage["wake"] = "blind" /\ Ends("wake", Reason("completed")) /\ acked
      /\ Reason("completed") = "ok"
  BY Parts, StageNames DEF PollSeesClosed, WakeSound, Reason
<1>2. XInv'
  BY <1>0, <1>1, EndsKept, CallerNames
<1>3. Conns => Told
  <2>1. Conns => ~OnServer("wake")
    BY <1>1 DEF Conns
  <2>2. last' = "ok"
    BY <1>1 DEF Ends, settle
  <2> QED
    BY <1>1, <2>1, <2>2 DEF Told
<1> QED
  BY <1>2, <1>3

LEMMA AbortStep == ASSUME XInv, PollSeesAbort \/ Abort PROVE XInv' /\ Told
<1>0. /\ ServerTypes /\ CallerTypes /\ TurnTypes /\ AgentTypes
      /\ Processes /\ CallersSound /\ WakeSound
  BY Parts
<1>1. UNCHANGED <<servers, breaker, stopping, archived, thread, rollout, orphans, displaced>>
  BY DEF PollSeesAbort, Abort, threads
<1>2. Reason("interrupted") \in {"resumeFail", "ok"} /\ (Reason("interrupted") = "ok" => acked)
  BY DEF Reason
<1>3. CASE PollSeesAbort
  BY <1>1, <1>2, <1>3, EndsTold, CallerNames DEF PollSeesAbort
<1>4. CASE stage["wake"] = "parked" /\ Ends("wake", Reason("interrupted"))
  <2>1. ~acked /\ outcome["wake"] # "active"
    BY <1>0, <1>4, StageNames DEF WakeSound
  <2> QED
    BY <1>1, <1>2, <1>4, <2>1, EndsTold, CallerNames
<1>5. CASE aborted' = TRUE /\ UNCHANGED <<client, turn, outcome, last, marker, acked>>
  <2>1. ServerTypes' /\ Processes' /\ killed' = killed /\ bringUp' = bringUp
    BY <1>0, <1>1, ServersSame
  <2>2. CallerTypes' /\ TurnTypes' /\ AgentTypes' /\ CallersSound'
    BY <1>0, <1>1, <1>5, <2>1
    DEF CallerTypes, TurnTypes, AgentTypes, CallersSound, CallerSound, client
  <2>3. WakeSound'
    BY <1>0, <1>1, <1>5, <2>1, WakeSame DEF client
  <2> QED
    BY <1>5, <2>1, <2>2, <2>3, Assembled, Quiet DEF client
<1> QED
  BY <1>3, <1>4, <1>5 DEF Abort

-----------------------------------------------------------------------------
(* The specification.                                                        *)

LEMMA CodexStep ==
  ASSUME XInv, hosts \in Nat, Next
  PROVE  XInv' /\ (Conns => Told)
<1>1. CASE Run \/ Prepared \/ ThreadCreated \/ Subscribed \/ PollSeesAbort \/ Abort
           \/ Push \/ Launch \/ AdoptionPoll
  BY <1>1, RunStep, PreparedStep, ThreadCreatedStep, SubscribedStep, AbortStep, OtherStep
<1>2. CASE BringUpReady \/ BringUpTimesOut \/ Archive \/ Shutdown \/ NextHost \/ CoolsDown
  BY <1>2, ReadyStep, TimesOutStep, AgentStep, ShutdownStep, NextHostStep
<1>3. ASSUME NEW c \in Children,
             ExitSeen(c) \/ SpawnError(c) \/ Listens(c) \/ Dies(c) \/ UserTurn(c)
      PROVE  XInv' /\ Told
  BY <1>3, ExitStep, EngineStep
<1>4. ASSUME NEW c \in Children, NEW how \in Ended(turn[c]), TurnEnds(c, how)
      PROVE  XInv' /\ Told
  BY <1>4, TurnEndsStep
<1>5. ASSUME NEW r \in Callers, Answers(r) PROVE XInv' /\ Told
  BY <1>5, ResumeStep, StartStep, RaceStep DEF Answers
<1>6. ASSUME NEW r \in Callers, NEW how \in Ended(r), FormerTurnEnds(r, how)
      PROVE  XInv' /\ Told
  BY <1>6, FormerStep
<1>7. CASE PollSeesClosed
  BY <1>7, BlindStep
<1> QED
  BY <1>1, <1>2, <1>3, <1>4, <1>5, <1>6, <1>7 DEF Next

(* A process that is up never was and never will be starting again, and once dead it
   stays so; a connection is to the process at the socket; the wake races blind only
   without a connection. *)
Onward ==
  /\ \A x \in Children :
       /\ child[x] \in {"up", "dead", "gone"} => child'[x] \in {"up", "dead", "gone"}
       /\ child[x] \in {"dead", "gone"} => child'[x] \in {"dead", "gone"}
  /\ \A r \in Callers : conn'[r] \in {0, conn[r]} \/ (conn'[r] = socket /\ child' = child)
  /\ stage'["wake"] = "blind" =>
       /\ conn'["wake"] = conn["wake"]
       /\ stage["wake"] = "blind" \/ (~OnServer("wake") /\ child' = child)

LEMMA OnwardEnsure ==
  ASSUME XInv, NEW r \in Callers, NEW next \in GoalsOf(r), ensureServer(r, next)
  PROVE  Onward
<1>0. ServerTypes /\ CallerTypes
  BY Parts
<1>1. \/ UNCHANGED child
      \/ \E c \in Spare : child' = [child EXCEPT ![c] = "starting"] /\ UNCHANGED conn
  BY SpareHasFirst DEF ensureServer, servers, spawnServer
<1>2. \A x \in Children :
        /\ child[x] \in {"up", "dead", "gone"} => child'[x] = child[x]
  BY <1>0, <1>1 DEF Spare, ServerTypes
<1>3. /\ \A q \in Callers : q # r => conn'[q] = conn[q] /\ stage'[q] = stage[q]
      /\ conn'[r] \in {0, conn[r]} \/ (conn'[r] = socket /\ child' = child)
      /\ stage'[r] \in {"server", After(next)}
  BY <1>0 DEF ensureServer, servers, CallerTypes
<1>4. stage'[r] # "blind"
  BY <1>3, StageNames
<1> QED
  BY <1>2, <1>3, <1>4, CallerNames DEF Onward

LEMMA OnwardEnds ==
  ASSUME XInv, NEW r \in Callers, NEW reason, Ends(r, reason), UNCHANGED child
  PROVE  Onward
<1>0. CallerTypes
  BY Parts
<1>1. /\ stage'[r] = "idle" /\ conn'[r] = 0
      /\ \A q \in Callers : q # r => conn'[q] = conn[q] /\ stage'[q] = stage[q]
  BY <1>0 DEF Ends, CallerTypes
<1> QED
  BY <1>1, CallerNames DEF Onward

(* No caller's connection changes, and the wake does not go blind. *)
LEMMA OnwardSame ==
  ASSUME XInv, UNCHANGED <<child, conn>>,
         stage'["wake"] = "blind" => stage["wake"] = "blind" \/ ~OnServer("wake")
  PROVE  Onward
  BY DEF Onward

LEMMA OnwardProcess ==
  ASSUME XInv, NEW c \in Children,
         ExitSeen(c) \/ SpawnError(c) \/ Listens(c) \/ Dies(c) \/ UserTurn(c)
  PROVE  Onward
<1>0. ServerTypes /\ Processes
  BY Parts
<1>1. UNCHANGED <<stage, conn>>
  BY DEF ExitSeen, SpawnError, Listens, Dies, UserTurn, client
<1>2. \A x \in Children :
        /\ child[x] \in {"up", "dead", "gone"} => child'[x] \in {"up", "dead", "gone"}
        /\ child[x] \in {"dead", "gone"} => child'[x] \in {"dead", "gone"}
  <2>1. CASE UserTurn(c)
    BY <2>1 DEF UserTurn, servers
  <2>2. CASE Dies(c)
    <3>1. child' = [child EXCEPT ![c] = IF c \in orphans THEN "gone" ELSE "dead"]
      BY <2>2 DEF Dies
    <3> QED
      BY <1>0, <3>1 DEF ServerTypes
  <2>3. CASE ExitSeen(c) \/ SpawnError(c)
    <3>1. child' = [child EXCEPT ![c] = "gone"]
      BY <2>3 DEF ExitSeen, SpawnError
    <3> QED
      BY <1>0, <3>1 DEF ServerTypes
  <2>4. CASE Listens(c)
    <3>1. child' = [child EXCEPT ![c] = "up"] /\ child[c] = "starting"
      BY <2>4 DEF Listens
    <3> QED
      BY <1>0, <3>1 DEF ServerTypes
  <2> QED
    BY <2>1, <2>2, <2>3, <2>4
<1> QED
  BY <1>1, <1>2 DEF Onward

LEMMA OnwardAwaits ==
  ASSUME XInv, BringUpReady \/ BringUpTimesOut \/ NextHost
  PROVE  Onward
<1>0. ServerTypes /\ CallerTypes /\ CallersSound
  BY Parts
<1>1. CASE BringUpReady
  <2>1. \A r \in Callers :
          /\ stage'[r] = (IF stage[r] = "server" THEN After(goal[r]) ELSE stage[r])
          /\ conn'[r] = (IF stage[r] = "server" /\ goal[r] = "resume" THEN socket ELSE conn[r])
          /\ child' = child
    BY <1>1 DEF BringUpReady
  <2>2. stage["wake"] = "server" => After(goal["wake"]) # "blind"
    BY <1>0, CallerNames, StageNames DEF CallersSound, CallerSound
  <2>3. \A r \in Callers : conn'[r] = conn[r] \/ (conn'[r] = socket /\ child' = child)
    BY <2>1
  <2>4. stage'["wake"] = "blind" => stage["wake"] = "blind" /\ conn'["wake"] = conn["wake"]
    BY <2>1, <2>2, CallerNames
  <2>5. child' = child
    BY <1>1 DEF BringUpReady
  <2> QED
    BY <2>3, <2>4, <2>5 DEF Onward
<1>2. CASE BringUpTimesOut
  <2>1. /\ UNCHANGED <<child, conn>>
        /\ stage'["wake"] = (IF stage["wake"] # "server" THEN stage["wake"]
                              ELSE IF goal["wake"] = "poll" THEN "poll" ELSE "idle")
    BY <1>2, CallerNames DEF BringUpTimesOut
  <2> QED
    BY <2>1, OnwardSame
<1>3. CASE NextHost
  <2>1. /\ \A x \in Children : child'[x] = (IF child[x] = "none" THEN "none"
                                 ELSE IF x \in Live THEN child[x] ELSE "gone")
        /\ \A r \in Callers : conn'[r] = 0 /\ stage'[r] = "idle"
    BY <1>3 DEF NextHost
  <2>2. \A x \in Live : child[x] \in {"starting", "up"}
    BY DEF Live
  <2> QED
    BY <2>1, <2>2, CallerNames DEF Onward
<1> QED
  BY <1>1, <1>2, <1>3

LEMMA OnwardTurn ==
  ASSUME XInv, NEW c \in Children, NEW how, TurnEnds(c, how)
  PROVE  Onward
<1>0. CallerTypes /\ UNCHANGED child
  BY Parts DEF TurnEnds, servers
<1>1. \A r \in Callers : conn'[r] \in {0, conn[r]}
  BY <1>0 DEF TurnEnds, CallerTypes
<1>2. stage'["wake"] = "blind" => stage["wake"] = "blind" /\ conn'["wake"] = conn["wake"]
  BY <1>0, CallerNames DEF TurnEnds
<1> QED
  BY <1>0, <1>1, <1>2 DEF Onward

LEMMA OnwardWake ==
  ASSUME XInv, \/ Run \/ Prepared \/ ThreadCreated \/ Subscribed \/ PollSeesClosed
               \/ PollSeesAbort \/ Abort
  PROVE  Onward
<1>0. CallerTypes
  BY Parts
<1>1. CASE Run
  <2>1. CASE ensureServer("wake", IF thread THEN "prepared" ELSE "bare")
    BY <2>1, OnwardEnsure, CallerNames, StageNames
  <2>2. CASE UNCHANGED <<servers, client>>
    BY <2>2, OnwardSame DEF servers, client
  <2> QED
    BY <1>1, <2>1, <2>2 DEF Run
<1>2. CASE Prepared
  <2>1. CASE ensureServer("wake", IF stage["wake"] = "bare" THEN "create" ELSE "resume")
    BY <2>1, OnwardEnsure, CallerNames, StageNames
  <2>2. CASE Ends("wake", "spawnFail") /\ UNCHANGED servers
    BY <2>2, OnwardEnds, CallerNames DEF servers
  <2> QED
    BY <1>2, <2>1, <2>2 DEF Prepared
<1>3. CASE ThreadCreated
  <2>0. UNCHANGED child
    BY <1>3 DEF ThreadCreated, servers
  <2>1. CASE stage' = [stage EXCEPT !["wake"] = "prepared"] /\ UNCHANGED conn
    BY <1>0, <2>0, <2>1, OnwardSame, CallerNames DEF CallerTypes
  <2>2. CASE Ends("wake", "resumeFail")
    BY <2>0, <2>2, OnwardEnds, CallerNames
  <2> QED
    BY <1>3, <2>1, <2>2 DEF ThreadCreated
<1>4. CASE Subscribed
  <2>1. stage' = [stage EXCEPT !["wake"] = IF OnServer("wake") THEN "race" ELSE "blind"]
        /\ UNCHANGED <<child, conn>>
    BY <1>4 DEF Subscribed, servers
  <2>2. stage'["wake"] = "blind" => ~OnServer("wake")
    BY <1>0, <2>1, CallerNames DEF CallerTypes
  <2> QED
    BY <2>1, <2>2, OnwardSame
<1>5. CASE PollSeesClosed \/ PollSeesAbort
  BY <1>5, OnwardEnds, CallerNames DEF PollSeesClosed, PollSeesAbort, servers
<1>6. CASE Abort
  <2>0. UNCHANGED child
    BY <1>6 DEF Abort, servers
  <2>1. CASE Ends("wake", Reason("interrupted"))
    BY <2>0, <2>1, OnwardEnds, CallerNames
  <2>2. CASE UNCHANGED client
    BY <2>0, <2>2, OnwardSame DEF client
  <2> QED
    BY <1>6, <2>1, <2>2 DEF Abort
<1> QED
  BY <1>1, <1>2, <1>3, <1>4, <1>5, <1>6

LEMMA OnwardOthers ==
  ASSUME XInv, \/ Push \/ Launch \/ AdoptionPoll \/ Archive \/ Shutdown \/ CoolsDown
  PROVE  Onward
<1>0. CallerTypes
  BY Parts
<1>1. CASE Push \/ Launch
  BY <1>1, OnwardEnsure, CallerNames, StageNames DEF Push, Launch
<1>2. CASE AdoptionPoll
  <2>1. CASE ensureServer("tui", "poll")
    BY <2>1, OnwardEnsure, CallerNames, StageNames
  <2>2. CASE stage' = [stage EXCEPT !["tui"] = "idle"] /\ UNCHANGED <<servers, conn>>
    <3>1. stage'["wake"] = stage["wake"]
      BY <1>0, <2>2, CallerNames DEF CallerTypes
    <3> QED
      BY <2>2, <3>1, OnwardSame DEF servers
  <2> QED
    BY <1>2, <2>1, <2>2 DEF AdoptionPoll
<1>3. CASE Archive \/ Shutdown \/ CoolsDown
  <2>0. UNCHANGED child
    BY <1>3 DEF Archive, Shutdown, CoolsDown, stopServer, servers
  <2>1. CASE Ends("wake", Reason("interrupted"))
    BY <2>0, <2>1, OnwardEnds, CallerNames
  <2>2. CASE UNCHANGED client
    BY <2>0, <2>2, OnwardSame DEF client
  <2> QED
    BY <1>3, <2>1, <2>2 DEF Archive, Shutdown, CoolsDown
<1> QED
  BY <1>1, <1>2, <1>3

LEMMA OnwardAnswers ==
  ASSUME XInv, NEW r \in Callers, Answers(r) \/ \E how \in Ended(r) : FormerTurnEnds(r, how)
  PROVE  Onward
<1>0. CallerTypes /\ UNCHANGED child
  BY Parts DEF Answers, ResumeAnswers, StartAnswers, OutcomeLearnt, ConnectionCloses,
               FormerTurnEnds, servers
<1>1. ASSUME NEW reason, Ends(r, reason) PROVE Onward
  BY <1>0, <1>1, OnwardEnds
<1>2. ASSUME NEW s \in {"parked", "start", "first", "subscribe", "race"},
             stage' = [stage EXCEPT ![r] = s], UNCHANGED conn
      PROVE  Onward
  <2>1. stage'["wake"] = "blind" => stage["wake"] = "blind"
    BY <1>0, <1>2, CallerNames DEF CallerTypes
  <2> QED
    BY <1>0, <1>2, <2>1, OnwardSame
<1>3. CASE ResumeAnswers(r)
  BY <1>1, <1>2, <1>3 DEF ResumeAnswers
<1>4. CASE StartAnswers(r)
  <2>1. CASE /\ stage' = [stage EXCEPT ![r] =
                  IF @ = "first" /\ r = "wake" THEN "subscribe" ELSE "race"]
             /\ UNCHANGED conn
    BY <1>2, <2>1
  <2> QED
    BY <1>1, <1>4, <2>1 DEF StartAnswers
<1>5. CASE OutcomeLearnt(r) \/ ConnectionCloses(r)
  BY <1>1, <1>5 DEF OutcomeLearnt, ConnectionCloses
<1>6. CASE \E how \in Ended(r) : FormerTurnEnds(r, how)
  BY <1>0, <1>6, OnwardSame DEF FormerTurnEnds, client
<1> QED
  BY <1>3, <1>4, <1>5, <1>6 DEF Answers

LEMMA StepsOnward == ASSUME XInv, Next PROVE Onward
  BY OnwardWake, OnwardOthers, OnwardAwaits, OnwardProcess, OnwardTurn, OnwardAnswers DEF Next

LEMMA ConnsKept == ASSUME XInv, Conns, [Next]_vars PROVE Conns'
<1>0. /\ \A r \in Callers : conn[r] \in Children \cup {0}
      /\ socket \in Children \cup {0} /\ (socket # 0 => child[socket] = "up")
  BY Parts DEF CallerTypes, ServerTypes, Processes
<1>1. CASE Next
  <2>1. Onward
    BY <1>1, StepsOnward
  <2>2. \A r \in Callers : conn'[r] # 0 => child'[conn'[r]] \in {"up", "dead", "gone"}
    BY <1>0, <2>1 DEF Onward, Conns
  <2>3. stage'["wake"] = "blind" => ~OnServer("wake")'
    <3> SUFFICES ASSUME stage'["wake"] = "blind", conn'["wake"] # 0
                 PROVE  child'[conn'["wake"]] # "up"
      BY DEF OnServer
    <3>1. conn'["wake"] = conn["wake"] /\ conn["wake"] \in Children /\ ~OnServer("wake")
      BY <1>0, <2>1, CallerNames DEF Onward, Conns
    <3>2. child[conn["wake"]] \in {"dead", "gone"}
      BY <1>0, <3>1, CallerNames DEF Conns, OnServer
    <3> QED
      BY <2>1, <3>1, <3>2 DEF Onward
  <2> QED
    BY <2>2, <2>3 DEF Conns
<1>2. CASE UNCHANGED vars
  BY <1>2 DEF vars, servers, client, Conns, OnServer
<1> QED
  BY <1>1, <1>2

LEMMA XInvSame == ASSUME XInv, UNCHANGED vars PROVE XInv'
<1>1. /\ UNCHANGED <<servers, breaker, orphans, displaced>>
      /\ UNCHANGED <<stage, goal, conn, turn, outcome, thread, rollout, marker, stopping, archived,
                     aborted, acked>>
  BY DEF vars, client, engine, threads, signal, seen
<1>2. ServerTypes' /\ Processes' /\ killed' = killed /\ bringUp' = bringUp
  BY <1>1, Parts, ServersSame
<1>3. CallerTypes' /\ TurnTypes' /\ AgentTypes' /\ CallersSound'
  BY <1>1, <1>2, Parts DEF CallerTypes, TurnTypes, AgentTypes, CallersSound, CallerSound
<1>4. WakeSound'
  BY <1>1, <1>2, Parts, WakeSame
<1> QED
  BY <1>2, <1>3, <1>4, Assembled

(* How many hosts there were is a number. *)
HostsAreCounted == hosts \in Nat
LEMMA HostsCounted == Spec => []HostsAreCounted
<1>1. Init => HostsAreCounted
  BY DEF Init, HostsAreCounted
<1>2. HostsAreCounted /\ [Next]_vars => HostsAreCounted'
  <2> SUFFICES ASSUME hosts \in Nat, [Next]_vars PROVE hosts' \in Nat
    BY DEF HostsAreCounted
  <2>1. CASE NextHost
    BY <2>1 DEF NextHost
  <2>2. CASE Run \/ Push
    BY <2>2 DEF Run, Push
  <2>3. CASE Prepared \/ ThreadCreated \/ Subscribed \/ PollSeesClosed \/ PollSeesAbort
             \/ Abort \/ Launch \/ AdoptionPoll
             \/ BringUpReady \/ BringUpTimesOut \/ Archive \/ Shutdown \/ CoolsDown
    BY <2>3 DEF Prepared, ThreadCreated, Subscribed, PollSeesClosed, PollSeesAbort, Abort, Launch, AdoptionPoll,
                BringUpReady, BringUpTimesOut, Archive, Shutdown, CoolsDown, bounds
  <2>4. ASSUME NEW c \in Children,
               \/ ExitSeen(c) \/ SpawnError(c) \/ Listens(c) \/ Dies(c) \/ UserTurn(c)
               \/ \E how \in Ended(turn[c]) : TurnEnds(c, how)
        PROVE  hosts' \in Nat
    BY <2>4 DEF ExitSeen, SpawnError, Listens, Dies, UserTurn, TurnEnds, bounds
  <2>5. ASSUME NEW r \in Callers, Answers(r) \/ \E how \in Ended(r) : FormerTurnEnds(r, how)
        PROVE  hosts' \in Nat
    BY <2>5 DEF Answers, ResumeAnswers, StartAnswers, OutcomeLearnt, ConnectionCloses,
                FormerTurnEnds, bounds
  <2>6. CASE UNCHANGED vars
    BY <2>6 DEF vars, bounds
  <2> QED
    BY <2>1, <2>2, <2>3, <2>4, <2>5, <2>6 DEF Next
<1> QED
  BY <1>1, <1>2, PTL DEF Spec

(* The inductive invariant of the app-server: processes are spawned in order, only the
   latest is tracked, every other that lives was signalled, displaced or left behind,
   and a wake's turn, its acknowledgement and its marker go together. *)
THEOREM CodexInductive == Spec => []XInv
<1>1. XInv /\ HostsAreCounted /\ [Next]_vars => XInv'
  BY CodexStep, XInvSame DEF HostsAreCounted
<1> QED
  BY InitHolds, <1>1, HostsCounted, PTL DEF Spec

(* Every live server process is tracked, signalled, left behind or displaced by a late
   exit of one that was signalled before it, and the marker of a running wake names the
   process it is connected to unless that one is such a process
   (codex-app-server.ts: ensureServerInner, stopServer, the exit handler). *)
THEOREM ProcessesAccounted == Spec => []ServersAccounted
<1>1. XInv => ServersAccounted
  <2> SUFFICES ASSUME XInv PROVE ServersAccounted
    OBVIOUS
  <2>1. /\ ServerTypes /\ CallerTypes /\ Processes /\ WakeSound /\ TypeOK
    BY Parts DEF XInv
  <2>2. Live \subseteq ({entry} \cup killed \cup orphans \cup displaced)
    BY <2>1 DEF Live, Processes
  <2>3. stage["wake"] \in OnClient /\ OnServer("wake") =>
          marker = conn["wake"] \/ conn["wake"] \in killed \cup orphans \cup displaced
          \/ marker = 0
    BY <2>1 DEF WakeSound, OnServer
  <2>4. \A c \in displaced : \E d \in killed : d < c
    BY <2>1 DEF Processes
  <2> QED
    BY <2>1, <2>2, <2>3, <2>4 DEF ServersAccounted
<1> QED
  BY <1>1, CodexInductive, PTL

(* A connection was made to a process that listened, and a wake that races blind has
   none. *)
LEMMA ConnsHold == Spec => []Conns
<1>1. Init => Conns
  BY CallerNames DEF Init, Conns, OnServer
<1>2. XInv /\ Conns /\ [Next]_vars => Conns'
  BY ConnsKept
<1> QED
  BY <1>1, <1>2, CodexInductive, PTL DEF Spec

(* What a wake reports is what happened to its turn, but for the two ways in which the
   code takes a turn it lost sight of for completed: a connection closed during the
   swallowed second thread/resume, and an idle thread without a record of the turn
   (CodexHeadlessStrategy.run, CodexClient.runTurn, pollTurnOutcome). *)
THEOREM OutcomesTold == Spec => OutcomeSound
<1>1. XInv /\ HostsAreCounted /\ Conns /\ [Next]_vars => [Told]_vars
  BY CodexStep DEF HostsAreCounted
<1> QED
  BY <1>1, CodexInductive, HostsCounted, ConnsHold, PTL DEF Spec, OutcomeSound, Told
=============================================================================
