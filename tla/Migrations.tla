------------------------------ MODULE Migrations ------------------------------
(* db/migrate.mjs: the migrations of a release applied in order, each in a     *)
(* transaction of its own that also logs it, over the versions the run read at *)
(* its start. Several runners, of older and newer releases, may run at once    *)
(* and die anywhere. The files of a release are 1..n; what a migration's SQL   *)
(* does is its number, and the server keeps its effects and the log together   *)
(* or not at all.                                                              *)
EXTENDS Integers, Sequences, FiniteSets

CONSTANTS Runners, Releases, MaxRuns    \* bound: runs of the script

ASSUME MigrationsAssumption == Releases \subseteq Nat \ {0} /\ MaxRuns \in Nat

VARIABLES schema,   \* the SQL committed, in order
          logged,   \* schema_migrations
          runner, runs
migrateVars == <<schema, logged, runner, runs>>

\* next: the file the loop is at.
Ran(pc, release, applied, next) == [pc |-> pc, release |-> release, applied |-> applied, next |-> next]
Exited == Ran("exited", 0, {}, 0)

MigrateInit ==
  /\ schema = <<>> /\ logged = {} /\ runs = 0
  /\ runner = [r \in Runners |-> Exited]

----------------------------------------------------------------------------
Moves(r, to) == runner' = [runner EXCEPT ![r] = to]
Keeps == UNCHANGED <<schema, logged, runs>>

\* CREATE TABLE IF NOT EXISTS, SELECT version.
Started(r, release) ==
  /\ runner[r].pc = "exited" /\ runs < MaxRuns
  /\ Moves(r, Ran("loop", release, logged, 1))
  /\ runs' = runs + 1 /\ UNCHANGED <<schema, logged>>

SkipApplied(r) ==
  LET at == runner[r] IN
  /\ at.pc = "loop" /\ at.next <= at.release /\ at.next \in at.applied
  /\ Moves(r, [at EXCEPT !.next = @ + 1]) /\ Keeps

\* BEGIN and the file's SQL, uncommitted.
RunSql(r) ==
  LET at == runner[r] IN
  /\ at.pc = "loop" /\ at.next <= at.release /\ at.next \notin at.applied
  /\ Moves(r, [at EXCEPT !.pc = "sql"]) /\ Keeps

\* Mutant of MayLog: ON CONFLICT DO NOTHING.
MayLogTwice(v) == TRUE
MayLog(v) == v \notin logged

\* INSERT, refused if the version is there, and COMMIT.
CommitMigration(r) ==
  LET at == runner[r] IN
  /\ at.pc = "sql" /\ MayLog(at.next)
  /\ schema' = Append(schema, at.next) /\ logged' = logged \cup {at.next}
  /\ Moves(r, Ran("loop", at.release, at.applied, at.next + 1))
  /\ UNCHANGED runs

\* Either query fails: ROLLBACK and exit; or the process dies and the server rolls back.
Quit(r) == runner[r].pc # "exited" /\ Moves(r, Exited) /\ Keeps

MigrateNext ==
  \E r \in Runners : \/ \E n \in Releases : Started(r, n)
                     \/ SkipApplied(r) \/ RunSql(r) \/ CommitMigration(r) \/ Quit(r)
MigrateSpec == MigrateInit /\ [][MigrateNext]_migrateVars

----------------------------------------------------------------------------
(* The schema is what its log says: the migrations up to the newest logged,    *)
(* each run once and in order, whoever else was migrating and wherever they    *)
(* died (db/migrate.mjs).                                                      *)
SchemaIsTheLog == /\ logged = 1..Len(schema)
                  /\ \A i \in DOMAIN schema : schema[i] = i
=============================================================================
