---------------------------- MODULE SleepGuard ----------------------------
(***************************************************************************)
(* Keeping the machine awake during headless runs: one power assertion per *)
(* run, held by the agent's writer, the guard's table of what it holds,    *)
(* and the coordinator's audit for leaks (wake/sleep-guard.ts,             *)
(* wake/coordinator.ts).                                                   *)
(*                                                                         *)
(* The guard is a function on records g of its state, for one action of    *)
(* the writers may release, audit and hold in turn.                        *)
(*                                                                         *)
(* Definitions marked "Slip" are mistaken variants of the definition that  *)
(* follows them; no action uses them.                                      *)
(***************************************************************************)
EXTENDS Naturals

CONSTANTS
  Writers,     \* one per agent
  MaxHolds     \* bound: assertions powerd creates

NoId == 0
Ids == 1 .. MaxHolds

VARIABLES
  guard,       \* run, release, held: the host; powerd: the assertions in force
  bound,       \* is IOKit bound: "unset", "yes", "failed"
  made,        \* assertions created so far
  lapsed       \* history: assertions powerd dropped by itself

vars == <<guard, bound, made, lapsed>>

Init ==
  /\ guard = [run |-> [w \in Writers |-> "none"], release |-> [w \in Writers |-> NoId],
              held |-> {}, powerd |-> {}]
  /\ bound = "unset" /\ made = 0 /\ lapsed = {}

\* release: the table forgets the assertion; powerd may not have it any more.  (A
\* call into IOKit that throws is not modelled.)
Dropped(g, ids) == [g EXCEPT !.held = @ \ ids, !.powerd = @ \ ids]

\* Slip: a writer gives up its release without calling it.
ForgottenSleep(g, w) == [g EXCEPT !.release[w] = NoId]

\* releaseSleep; a second call finds no release left.
ReleasedSleep(g, w) == [Dropped(g, {g.release[w]}) EXCEPT !.release[w] = NoId]

Running(g) == {w \in Writers : g.run[w] = "headless"}

\* Slip: the audit asks only the writer whose run ended.
AuditedAlone(g) == Dropped(g, g.held)

\* auditSleepGuard: with no run left, whatever is held is a leak.
Audited(g) == IF Running(g) = {} THEN Dropped(g, g.held) ELSE g

\* hold: assertion id for writer w, or none if it is NoId.
Holding(g, w, id) ==
  [g EXCEPT !.release[w] = id,
            !.held = @ \cup ({id} \ {NoId}),
            !.powerd = @ \cup ({id} \ {NoId})]

\* io: IOKit is bound on first use, and a failure is final; create may be refused.
Hold(g, w) ==
  \/ /\ bound' = IF bound = "unset" THEN "failed" ELSE bound
     /\ guard' = Holding(g, w, NoId)
     /\ UNCHANGED made
  \/ /\ bound # "failed" /\ made < MaxHolds
     /\ bound' = "yes"
     /\ made' = made + 1
     /\ guard' = Holding(g, w, made + 1)
  \/ /\ bound # "failed"
     /\ bound' = "yes"
     /\ guard' = Holding(g, w, NoId)
     /\ UNCHANGED made

\* startHeadless, from guard g: the run starts and an assertion is asked for.
Starts(g, w) == Hold(ReleasedSleep([g EXCEPT !.run[w] = "headless"], w), w)

StartHeadless(w) ==
  /\ guard.run[w] = "none"
  /\ Starts(guard, w)
  /\ UNCHANGED lapsed

\* headlessExited: release, and the transition out of the run audits; then the
\* next queued wake may start.
HeadlessExits(w) ==
  /\ guard.run[w] = "headless"
  /\ LET g == Audited([ReleasedSleep(guard, w) EXCEPT !.run[w] = "none"]) IN
     \/ guard' = g /\ UNCHANGED <<bound, made>>
     \/ Starts(g, w)
  /\ UNCHANGED lapsed

\* powerd drops an assertion whose timeout is due: its clock goes on while the
\* machine sleeps, the run's kill timer does not.
Lapses(id) ==
  /\ id \in guard.powerd
  /\ guard' = [guard EXCEPT !.powerd = @ \ {id}]
  /\ lapsed' = lapsed \cup {id}
  /\ UNCHANGED <<bound, made>>

\* The hourly audit.
Audit ==
  /\ guard.held # {}
  /\ guard' = Audited(guard)
  /\ UNCHANGED <<bound, made, lapsed>>

\* stopAll disposes every writer and the host exits, or it crashes: either way
\* powerd drops what the process held.
HostStops ==
  /\ guard' = [run |-> [w \in Writers |-> "none"], release |-> [w \in Writers |-> NoId],
               held |-> {}, powerd |-> {}]
  /\ bound' = "unset"
  /\ UNCHANGED <<made, lapsed>>

Next ==
  \/ \E w \in Writers : StartHeadless(w) \/ HeadlessExits(w)
  \/ \E id \in Ids : Lapses(id)
  \/ Audit \/ HostStops

Spec == Init /\ [][Next]_vars

-----------------------------------------------------------------------------
(* Properties                                                                *)

\* "An assertion is held iff some writer has a `-p' child alive": the machine is
\* never kept awake by a run that is over, even while another agent's goes on, and
\* no agent's end or audit takes the assertion from another's run; only powerd
\* does, when its own timeout is due.
HeldForTheRun ==
  LET claimed == {guard.release[w] : w \in Running(guard)} \ {NoId} IN
  /\ guard.powerd = claimed \ lapsed
  /\ guard.held = claimed
=============================================================================
