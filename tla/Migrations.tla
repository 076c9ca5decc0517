----------------------------- MODULE Migrations -----------------------------
(***************************************************************************)
(* The start of the server: main.go runs db.Migrate before it serves, and  *)
(* processes that share a database may start at the same time (a rolling   *)
(* deployment, an orchestrator that restarts one).  What isolates them is  *)
(* Postgres: a transaction per migration, locks, and the primary key of    *)
(* schema_migrations.                                                      *)
(*                                                                         *)
(* The files are numbered in the order sort.Strings puts their names.      *)
(***************************************************************************)
EXTENDS Integers, Sequences

CONSTANTS
    Processes,     \* server processes on one database
    FileCount,     \* migrations in internal/db/sql
    Clashing,      \* those that fail where they have been applied (CREATE TABLE)
    MaxMishaps     \* bound on stops and failed statements

Files == 1..FileCount

ASSUME FilesAssumption == FileCount \in Nat /\ Clashing \subseteq Files
ASSUME MishapsAssumption == MaxMishaps \in Nat

VARIABLES
    table,         \* schema_migrations exists
    recorded,      \* its committed rows
    applied,       \* the migrations whose contents were committed, in order
    pc,            \* where each process stands
    at,            \* the file its loop has come to
    mishaps        \* stops and failed statements so far

schema == <<table, recorded, applied>>
migrateVars == <<schema, pc, at, mishaps>>

MigratePlaces == {"start", "creating", "loop", "pending", "executed", "inserted",
                  "serving", "exited"}

MigrateTypeOK ==
    /\ table \in BOOLEAN
    /\ recorded \subseteq Files
    /\ applied \in Seq(Files)
    /\ pc \in [Processes -> MigratePlaces]
    /\ at \in [Processes -> 1..FileCount + 1]
    /\ mishaps \in 0..MaxMishaps

MigrateInit ==
    /\ table = FALSE
    /\ recorded = {}
    /\ applied = <<>>
    /\ pc = [p \in Processes |-> "start"]
    /\ at = [p \in Processes |-> 1]
    /\ mishaps = 0

Goes(p, place) == pc' = [pc EXCEPT ![p] = place]

IsApplied(file) == \E i \in DOMAIN applied : applied[i] = file

(* Another process holds an uncommitted transaction on p's file that has   *)
(* come to one of these places; Postgres makes p wait for its end.         *)
Locked(p, places) == \E q \in Processes \ {p} : at[q] = at[p] /\ pc[q] \in places

(* Slips: the row is not looked at; no primary key; a record that waits    *)
(* for every open transaction; a process that goes on after a migration    *)
(* failed.                                                                 *)
SkipAny(p) ==
    /\ pc[p] = "loop"
    /\ at' = [at EXCEPT ![p] = @ + 1]
    /\ UNCHANGED <<schema, pc, mishaps>>

InsertRow(p) ==
    /\ pc[p] = "executed"
    /\ ~Locked(p, {"inserted"})
    /\ Goes(p, "inserted")
    /\ UNCHANGED <<schema, at, mishaps>>

InsertAlone(p) ==
    /\ pc[p] = "executed"
    /\ ~Locked(p, {"executed", "inserted"})
    /\ Goes(p, IF at[p] \in recorded THEN "exited" ELSE "inserted")
    /\ UNCHANGED <<schema, at, mishaps>>

SkipFailed(p) ==
    /\ mishaps < MaxMishaps
    /\ pc[p] \in {"pending", "executed", "inserted"}
    /\ Goes(p, "loop")
    /\ at' = [at EXCEPT ![p] = @ + 1]
    /\ mishaps' = mishaps + 1
    /\ UNCHANGED schema

-----------------------------------------------------------------------------
(* CREATE TABLE IF NOT EXISTS.  Of two that both found no table, the       *)
(* second fails on the catalog's unique index when the first commits.      *)
EnsureTable(p) ==
    /\ pc[p] = "start"
    /\ \/ table /\ Goes(p, "loop")
       \/ ~table /\ Goes(p, "creating")
    /\ UNCHANGED <<schema, at, mishaps>>

CreateTable(p) ==
    /\ pc[p] = "creating"
    /\ \/ ~table /\ Goes(p, "loop")
       \/ table /\ Goes(p, "exited")
    /\ table' = TRUE
    /\ UNCHANGED <<recorded, applied, at, mishaps>>

(* SELECT EXISTS sees committed rows only. *)
SkipApplied(p) ==
    /\ pc[p] = "loop" /\ at[p] \in recorded
    /\ at' = [at EXCEPT ![p] = @ + 1]
    /\ UNCHANGED <<schema, pc, mishaps>>

FindPending(p) ==
    /\ pc[p] = "loop" /\ at[p] \in Files \ recorded
    /\ Goes(p, "pending")
    /\ UNCHANGED <<schema, at, mishaps>>

(* Begin and Exec of the file's contents. *)
ExecContents(p) ==
    /\ pc[p] = "pending"
    /\ IF at[p] \in Clashing
       THEN /\ ~Locked(p, {"executed", "inserted"})
            /\ Goes(p, IF IsApplied(at[p]) THEN "exited" ELSE "executed")
       ELSE Goes(p, "executed")
    /\ UNCHANGED <<schema, at, mishaps>>

(* INSERT INTO schema_migrations: the primary key refuses a second row. *)
RecordMigration(p) ==
    /\ pc[p] = "executed"
    /\ ~Locked(p, {"inserted"})
    /\ Goes(p, IF at[p] \in recorded THEN "exited" ELSE "inserted")
    /\ UNCHANGED <<schema, at, mishaps>>

Publish(p) ==
    /\ applied' = Append(applied, at[p])
    /\ recorded' = recorded \cup {at[p]}
    /\ UNCHANGED table

CommitMigration(p) ==
    /\ pc[p] = "inserted"
    /\ Publish(p)
    /\ at' = [at EXCEPT ![p] = @ + 1]
    /\ Goes(p, "loop")
    /\ UNCHANGED mishaps

(* The loop ends; run goes on to the object store and to ListenAndServe. *)
StartServing(p) ==
    /\ pc[p] = "loop" /\ at[p] = FileCount + 1
    /\ Goes(p, "serving")
    /\ UNCHANGED <<schema, at, mishaps>>

(* A statement fails or the process is stopped: Postgres rolls the open    *)
(* transaction back and run returns the error.                             *)
FailStart(p) ==
    /\ mishaps < MaxMishaps
    /\ pc[p] \notin {"serving", "exited"}
    /\ Goes(p, "exited")
    /\ mishaps' = mishaps + 1
    /\ UNCHANGED <<schema, at>>

(* The commit takes effect and its caller is told that it failed. *)
CommitUnanswered(p) ==
    /\ mishaps < MaxMishaps
    /\ pc[p] = "inserted"
    /\ Publish(p)
    /\ Goes(p, "exited")
    /\ mishaps' = mishaps + 1
    /\ UNCHANGED at

StopServing(p) ==
    /\ mishaps < MaxMishaps
    /\ pc[p] = "serving"
    /\ Goes(p, "exited")
    /\ mishaps' = mishaps + 1
    /\ UNCHANGED <<schema, at>>

(* Something outside starts an exited process again. *)
StartAgain(p) ==
    /\ pc[p] = "exited"
    /\ Goes(p, "start")
    /\ at' = [at EXCEPT ![p] = 1]
    /\ UNCHANGED <<schema, mishaps>>

Migrate(p) ==
    \/ EnsureTable(p) \/ CreateTable(p)
    \/ SkipApplied(p) \/ FindPending(p)
    \/ ExecContents(p) \/ RecordMigration(p) \/ CommitMigration(p)
    \/ StartServing(p)

MigrateNext ==
    \E p \in Processes : \/ Migrate(p)
                         \/ FailStart(p) \/ CommitUnanswered(p) \/ StopServing(p)
                         \/ StartAgain(p)

MigrateSpec == MigrateInit /\ [][MigrateNext]_migrateVars

-----------------------------------------------------------------------------
(* The contents of every migration take effect at most once, in file       *)
(* order, and together with their row of schema_migrations, whichever      *)
(* processes race, stop or are told a commit failed (migrate.go:39-69).    *)
AppliedOnce ==
    /\ \A i \in DOMAIN applied : applied[i] = i
    /\ recorded = 1..Len(applied)

(* A process serves only when every migration is in place.                 *)
ServesWholeSchema == \A p \in Processes : pc[p] = "serving" => recorded = Files

(* While nothing but the race itself goes wrong, some process comes up     *)
(* without being started again: the one that loses a race loses it to one  *)
(* that is ahead, and never do all of them wait for each other or exit.    *)
OneComesUp ==
    <>(mishaps > 0 \/ \E p \in Processes : pc[p] = "serving")
=============================================================================
