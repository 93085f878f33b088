------------------------------- MODULE MCHost -------------------------------
(***************************************************************************)
(* What the host does over several lives, in parts that share no state,    *)
(* checked by one run: how it is launched, what becomes of its headless    *)
(* children, and the order books it keeps.                                 *)
(* Each behaviour takes the steps of one of them while the others rest as  *)
(* they start.                                                             *)
(***************************************************************************)
EXTENDS HostLaunch, TLC

CONSTANTS
  s1, s2,
  Orders, Linked, Lists, ListOf, MaxDays, MaxRefreshes, MaxEnds, MaxFailures,   \* OrderLedger
  MAX_RESUME_FAILS, MaxQueue, MaxRuns                                           \* SpawnRecovery

VARIABLES
  part,
  remote, aged, connected, ledger, sweepDue, poll, refresh, offline, failed, lastLog,
    suppressed, days, refreshes, ends, notified, rewound, owed, failures, logged,
  life, hosts, state, queue, resumeFails, child, resuming, writing, marker, last, minted,
    spawned, alive, session, tui, signalled, unknown, unmarked, cut, late

\* Two launchers, one updated and one not.
const_Starters == {s1, s2}
const_Version == s1 :> 1 @@ s2 :> 2

\* An equity order "e" and an option order "p".
const_ListOf == [e |-> 1, p |-> 2]

Books == INSTANCE OrderLedger

ASSUME BooksAssumption == Books!LedgerAssumption

Children == INSTANCE SpawnRecovery

ASSUME ChildrenAssumption == Children!RecoveryAssumption

bookVars == <<remote, aged, connected, ledger, sweepDue, poll, refresh, offline, failed,
              lastLog, suppressed, days, refreshes, ends, notified, rewound, owed, failures,
              logged>>
childVars == <<life, hosts, state, queue, resumeFails, child, resuming, writing, marker, last,
               minted, spawned, alive, session, tui, signalled, unknown, unmarked, cut, late>>

MCInit ==
  /\ part \in {"launch", "books", "children"}
  /\ Init /\ Books!Init /\ Children!Init

MCNext ==
  \/ part = "launch" /\ Next /\ UNCHANGED <<part, bookVars, childVars>>
  \/ part = "books" /\ Books!Next /\ UNCHANGED <<part, vars, childVars>>
  \/ part = "children" /\ Children!Next /\ UNCHANGED <<part, vars, bookVars>>

MCSpec == MCInit /\ [][MCNext]_<<part, vars, bookVars, childVars>>

-----------------------------------------------------------------------------
\* OrderLedger: the books hold every order a sweep found and every failure.
BooksComplete == Books!BooksComplete

\* OrderLedger: one notification for an order that is over.
NotifiedOnce == Books!NotifiedOnce

\* SpawnRecovery: one writer for each transcript, over crashes and restarts.
RecoverySound == Children!RecoverySound
=============================================================================
