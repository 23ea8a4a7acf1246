------------------------------- MODULE Migrations -------------------------------
(***************************************************************************)
(* applyMigrations, which every process runs when it opens the engine, on  *)
(* a database that several processes may open at a time.                   *)
(*                                                                         *)
(* The one migration is a script: its first statement creates the table    *)
(* schema_version, its second records version 1, the others create the     *)
(* tables of the program.  SQLite executes and commits it statement by     *)
(* statement; a query of several statements is one transaction on          *)
(* Postgres.                                                               *)
(***************************************************************************)
EXTENDS Naturals

CONSTANTS
  Procs,   \* processes: a server, a command line
  Script,  \* number of statements of 001-initial.sql
  Atomic   \* TRUE: Postgres; FALSE: SQLite

ASSUME MigrationsAssumption == Script \in Nat /\ Script > 2 /\ Atomic \in BOOLEAN

VARIABLES
  done,  \* statements of the script in effect
  at,    \* what each process awaits
  torn   \* history: a process has died inside the script, its version recorded

schemaVars == <<done, torn>>

\* The version's table, and its one row.
Table == 1
Version == 2

\* What a process awaits before it has opened the engine.
Opening == {"table", "version", "script", "statement"}

\* What follows openEngine.
Opened == "wiring"

Stage(p, a) == at' = [at EXCEPT ![p] = a]

\* A rejected promise of the main program: it exits with status 1.
Exit1(p) == Stage(p, "down")

\* schemaVersionTableExists
FindTable(p) ==
  /\ at[p] = "table"
  /\ Stage(p, IF done >= Table THEN "version" ELSE "script")
  /\ UNCHANGED schemaVars

TableSuffices == done >= Table
UpToDate == done >= Version

\* SELECT MAX(version): the script is skipped if it has recorded its version.
ReadVersion(p) ==
  /\ at[p] = "version"
  /\ Stage(p, IF UpToDate THEN Opened ELSE "script")
  /\ UNCHANGED schemaVars

\* engine.exec: CREATE TABLE schema_version, which throws if the table exists.
ExecScript(p) ==
  /\ at[p] = "script"
  /\ IF done >= Table
       THEN Exit1(p) /\ UNCHANGED done
       ELSE IF Atomic
         THEN done' = Script /\ Stage(p, Opened)
         ELSE done' = Table /\ Stage(p, "statement")
  /\ UNCHANGED torn

OneTooMany(n) == n > Script
Complete(n) == n = Script

\* The next statement of the script.
Statement(p) ==
  /\ at[p] = "statement"
  /\ done' = done + 1
  /\ Stage(p, IF Complete(done + 1) THEN Opened ELSE "statement")
  /\ UNCHANGED torn

\* A process that dies here leaves a script that no later start completes.
Tears(p) == at[p] = "statement" /\ done >= Version

Migrate(p) == FindTable(p) \/ ReadVersion(p) \/ ExecScript(p) \/ Statement(p)
=============================================================================
