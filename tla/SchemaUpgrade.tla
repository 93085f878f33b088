--------------------------- MODULE SchemaUpgrade ---------------------------
(***************************************************************************)
(* The app's database file over builds with different schemas: what a boot *)
(* does before the program may use it (db/client.ts, db/migrate.ts,        *)
(* db/backup.ts), interrupted at any step, with newer and older builds in  *)
(* any order and the user restoring a snapshot.                            *)
(*                                                                         *)
(* A column is the version whose migration adds it; a table that is new in *)
(* a version arrives whole.  The builds before numbered migrations left    *)
(* the stamp at 0.                                                         *)
(*                                                                         *)
(* Definitions marked "Slip" are mistaken variants of the definition that  *)
(* follows them; no action uses them.                                      *)
(***************************************************************************)
EXTENDS Naturals

CONSTANTS
  Newest,       \* SCHEMA_VERSION of the newest build
  Builds,       \* those of the builds a user may run
  Tables,       \* "agents" is the first table of the DDL
  Since,        \* the version each table came with
  Columns,      \* <<table, version>> of each numbered migration's columns
  MaxWrites,    \* bound: changes of the user's data
  MaxBoots,     \* bound: boots
  MaxRestores   \* bound: restores by the user

Versions == 0 .. Newest

\* The agents table is as old as the file.
UpgradeAssumption ==
  /\ Newest \in Nat /\ Builds \subseteq Versions
  /\ "agents" \in Tables /\ Since \in [Tables -> Versions] /\ Since["agents"] = 0
  /\ MaxWrites \in Nat /\ MaxBoots \in Nat /\ MaxRestores \in Nat

VARIABLES
  db,        \* the file: tables (their columns), stamp (user_version), data (its last change)
  step,      \* where the boot is: "off", "snapshot", "ddl", "migrate", "open"
  build,     \* the build that runs, or ran last
  fresh,     \* there was no agents table when the file was opened
  backups,   \* for each source version the snapshot named for it, or NoBackup
  writes, boots, restores,
  first,     \* history: the data when a version was first migrated from, or NoFile
  spoilt     \* history: versions whose snapshot failed or was interrupted

vars == <<db, step, build, fresh, backups, writes, boots, restores, first, spoilt>>

NoFile == MaxWrites + 1
NoBackup == [named |-> FALSE, whole |-> FALSE, file |-> NoFile]
NoTables == [t \in {} |-> {}]

TypeOK ==
  /\ DOMAIN db.tables \subseteq Tables /\ db.stamp \in Versions /\ db.data \in 0 .. writes
  /\ step \in {"off", "snapshot", "ddl", "migrate", "open"}
  /\ build \in Versions /\ fresh \in BOOLEAN
  /\ writes \in 0 .. MaxWrites /\ boots \in 0 .. MaxBoots /\ restores \in 0 .. MaxRestores
  /\ first \in [Versions -> 0 .. NoFile] /\ spoilt \subseteq Versions

\* No database yet, or one of a build before the versions.
Init ==
  /\ db \in {[tables |-> NoTables, stamp |-> 0, data |-> 0],
             [tables |-> [t \in {u \in Tables : Since[u] = 0} |-> {}], stamp |-> 0, data |-> 0]}
  /\ step = "off" /\ build = 0 /\ fresh = FALSE
  /\ backups = [v \in Versions |-> NoBackup]
  /\ writes = 0 /\ boots = 0 /\ restores = 0
  /\ first = [v \in Versions |-> NoFile] /\ spoilt = {}

\* The tables of build b and the columns its DDL gives a table it creates.
TablesOf(b) == {t \in Tables : Since[t] <= b}
ColumnsOf(t, b) == {v \in 1 .. b : <<t, v>> \in Columns}

\* Slip: fresh is read off the stamp.
isFreshSlip(file) == file.stamp = 0

\* createDb: decided before the DDL runs.
isFresh(file) == "agents" \notin DOMAIN file.tables

\* createDb: is the file new, and will it be migrated?
Boot(b) ==
  /\ step = "off" /\ boots < MaxBoots
  /\ boots' = boots + 1
  /\ build' = b
  /\ fresh' = isFresh(db)
  /\ step' = IF ~isFresh(db) /\ db.stamp < b THEN "snapshot" ELSE "ddl"
  /\ UNCHANGED <<db, backups, writes, restores, first, spoilt>>

\* Slip: any snapshot will do.
HasSnapshotSlip(v) == \E u \in Versions : backups[u].named

HasSnapshot(v) == backups[v].named

Taken(whole) == [backups EXCEPT ![db.stamp] = [named |-> TRUE, whole |-> whole, file |-> db]]

(***************************************************************************)
(* backupBeforeMigration: the snapshot of the same source version is       *)
(* reused, whatever it holds.  A failure is only logged; it and a crash of *)
(* the host may leave part of the file.                                    *)
(***************************************************************************)
backupBeforeMigration ==
  /\ step = "snapshot"
  /\ \/ /\ HasSnapshot(db.stamp)
        /\ step' = "ddl"
        /\ UNCHANGED <<backups, spoilt>>
     \/ /\ ~HasSnapshot(db.stamp)
        /\ step' = "ddl"
        /\ backups' = Taken(TRUE)
        /\ UNCHANGED spoilt
     \/ /\ ~HasSnapshot(db.stamp)
        /\ step' \in {"ddl", "off"}
        /\ backups' \in {backups, Taken(FALSE)}
        /\ spoilt' = spoilt \cup {db.stamp}
  /\ first' = IF step' = "ddl" /\ first[db.stamp] = NoFile
              THEN [first EXCEPT ![db.stamp] = db.data] ELSE first
  /\ UNCHANGED <<db, build, fresh, writes, boots, restores>>

\* SCHEMA_DDL: statements of their own, agents first; a table there stays as it is.
Ddl ==
  /\ step = "ddl"
  /\ LET missing == TablesOf(build) \ DOMAIN db.tables
     IN  IF missing = {}
         THEN step' = "migrate" /\ UNCHANGED db
         ELSE /\ \E t \in IF "agents" \in missing THEN {"agents"} ELSE missing :
                   db' = [db EXCEPT !.tables = [u \in DOMAIN @ \cup {t} |->
                            IF u = t THEN ColumnsOf(t, build) ELSE @[u]]]
              /\ UNCHANGED step
  /\ UNCHANGED <<build, fresh, backups, writes, boots, restores, first, spoilt>>

\* MIGRATIONS[v], each column added if it is missing.
Migrated(tables, v) ==
  [t \in DOMAIN tables |-> tables[t] \cup (IF <<t, v>> \in Columns THEN {v} ELSE {})]

(***************************************************************************)
(* migrate: a newer stamp is refused (the boot fails), a fresh file        *)
(* stamped, and each migration is a transaction of its own; one that       *)
(* throws fails the boot.                                                  *)
(***************************************************************************)
migrate ==
  /\ step = "migrate"
  /\ \/ db.stamp > build /\ step' = "off" /\ UNCHANGED db
     \/ db.stamp <= build /\ fresh /\ step' = "open" /\ db' = [db EXCEPT !.stamp = build]
     \/ db.stamp = build /\ ~fresh /\ step' = "open" /\ UNCHANGED db
     \/ /\ db.stamp < build /\ ~fresh
        /\ \/ /\ db' = [db EXCEPT !.stamp = @ + 1, !.tables = Migrated(@, db.stamp + 1)]
              /\ UNCHANGED step
           \/ step' = "off" /\ UNCHANGED db
  /\ UNCHANGED <<build, fresh, backups, writes, boots, restores, first, spoilt>>

\* The program works with its database.
Write ==
  /\ step = "open" /\ writes < MaxWrites
  /\ writes' = writes + 1
  /\ db' = [db EXCEPT !.data = writes + 1]
  /\ UNCHANGED <<step, build, fresh, backups, boots, restores, first, spoilt>>

\* The host ends or is killed, between any two steps.
HostEnds ==
  /\ step # "off"
  /\ step' = "off"
  /\ UNCHANGED <<db, build, fresh, backups, writes, boots, restores, first, spoilt>>

\* The user puts a snapshot back in the database's place.
Restore(v) ==
  /\ step = "off" /\ restores < MaxRestores
  /\ backups[v].whole
  /\ restores' = restores + 1
  /\ db' = backups[v].file
  /\ UNCHANGED <<step, build, fresh, backups, writes, boots, first, spoilt>>

Next ==
  \/ backupBeforeMigration \/ Ddl \/ migrate \/ Write \/ HostEnds
  \/ \E b \in Builds : Boot(b)
  \/ \E v \in Versions : Restore(v)

Spec == Init /\ [][Next]_vars

-----------------------------------------------------------------------------
(***************************************************************************)
(* "fresh and migrated DBs converge" (migrate.ts:26): however the file     *)
(* came about, a boot that succeeds has every table and column its build   *)
(* uses and the stamp of the build; a newer database is never opened.      *)
(***************************************************************************)
Converged ==
  step = "open" =>
    /\ db.stamp = build
    /\ \A t \in TablesOf(build) :
         t \in DOMAIN db.tables /\ ColumnsOf(t, build) \subseteq db.tables[t]

(***************************************************************************)
(* The way back (backup.ts:7-26): once a version was migrated from, its    *)
(* snapshot holds the data of that first time, at that version, unless     *)
(* taking it failed or was cut.  (A later upgrade from the same version,   *)
(* after a restore or a failed migration and more work with the older      *)
(* build, is left with that older copy.)                                   *)
(***************************************************************************)
WayBack ==
  \A v \in Versions \ spoilt :
    first[v] # NoFile =>
      backups[v].whole /\ backups[v].file.data = first[v] /\ backups[v].file.stamp = v

\* The two together.
SchemaSound == TypeOK /\ Converged /\ WayBack
=============================================================================
