------------------------------- MODULE Runner -------------------------------
(***************************************************************************)
(* The fixed runner and the shadow database it works on.  The stages of a  *)
(* run ask for five actions, one container each: upgrade to the baseline,  *)
(* upgrade to the target, load test data, run the smoke checks, and verify *)
(* the roundtrip target - baseline - target.                               *)
(*                                                                         *)
(* A database is its revision and, for each table, the columns and rows.   *)
(* Alembic and the migrations are external: a migration changes one table, *)
(* or raises.  A table's support says what the generator of synthetic rows *)
(* can do with it.  The budgets of observations and fixtures are left out. *)
(*                                                                         *)
(* A container may be stopped in the middle, or its result be lost, and    *)
(* its action be executed again (ShadowSandbox says when): Interrupt.      *)
(***************************************************************************)
EXTENDS Naturals, Sequences

CONSTANTS
  Table,          \* tables of the shadow database
  Histories,      \* the revisions of a repository: sequences of [up, down]
  Fixtures,       \* shadowops-fixture.json: rows by table, or NoFixture
  MaxRows,        \* bound of the model: rows of a table
  MaxInterrupts   \* bound of the model: actions executed again

VARIABLES
  migrations,  \* the revisions of the repository, oldest first
  baseline,    \* the revision below the changed ones, 0 is "base"
  fixture,
  support,     \* of each table: "full", "nullable", "required", "foreign"
  database,
  step,        \* where the runner stands
  before,      \* schema and rows the roundtrip began with
  observed,    \* schema and rows of the smoke checks
  seeded,      \* what the stored seed summary says
  verdict,     \* status and error code of the last result
  interrupts

repositoryVars == <<migrations, baseline, fixture, support>>
runnerVars == <<repositoryVars, database, step, before, observed, seeded,
                verdict, interrupts>>

-----------------------------------------------------------------------------

Target == Len(migrations)

Absent == [columns |-> 0, rows |-> 0]
TableState == [columns : 0 .. 2, rows : 0 .. MaxRows]
Present(t) == database.tables[t].columns > 0

Database == [revision : 0 .. Target, tables : [Table -> TableState]]

NoFixture == <<>>

(* What a migration may do to a table; a column more or less, all rows.    *)
Change == [kind : {"nothing", "raise", "raise_value_error"}] \union
  [kind : {"create", "drop", "add_column", "drop_column", "insert", "delete"},
   table : Table]

(* What an instance must give: revisions, and fixtures that count rows.    *)
ASSUME RunnerAssumption ==
  /\ MaxRows \in Nat /\ MaxInterrupts \in Nat
  /\ Histories \subseteq Seq([up : Change, down : Change])
  /\ \A f \in Fixtures : \A t \in Table \intersect DOMAIN f : f[t] \in Nat

(* Whether PostgreSQL executes the change.                                 *)
CanChange(tables, change) ==
  CASE change.kind = "nothing" -> TRUE
    [] change.kind \in {"raise", "raise_value_error"} -> FALSE
    [] change.kind = "create" -> tables[change.table].columns = 0
    [] change.kind = "add_column" -> tables[change.table].columns = 1
    [] change.kind = "drop_column" -> tables[change.table].columns = 2
    [] change.kind = "insert" ->
         /\ tables[change.table].columns > 0
         /\ tables[change.table].rows < MaxRows
    [] OTHER -> tables[change.table].columns > 0

Changed(tables, change) ==
  CASE change.kind = "nothing" -> tables
    [] change.kind = "create" -> [tables EXCEPT ![change.table].columns = 1]
    [] change.kind = "drop" -> [tables EXCEPT ![change.table] = Absent]
    [] change.kind = "add_column" -> [tables EXCEPT ![change.table].columns = 2]
    [] change.kind = "drop_column" -> [tables EXCEPT ![change.table].columns = 1]
    [] change.kind = "insert" -> [tables EXCEPT ![change.table].rows = @ + 1]
    [] change.kind = "delete" -> [tables EXCEPT ![change.table].rows = 0]

(* The n-th state of a sequence that begins with one, each move from one   *)
(* state to the next.                                                      *)
Repeated(move, n, first) ==
  LET after[i \in 0 .. n] == IF i = 0 THEN first ELSE move[after[i - 1]]
  IN after[n]

(* One migration of command.upgrade, if there is one and it can be made.   *)
UpgradeOne(db, target) ==
  IF db.revision < target /\ CanChange(db.tables, migrations[db.revision + 1].up)
  THEN [revision |-> db.revision + 1,
        tables |-> Changed(db.tables, migrations[db.revision + 1].up)]
  ELSE db

(* One migration of command.downgrade.                                     *)
DowngradeOne(db, target) ==
  IF db.revision > target /\ CanChange(db.tables, migrations[db.revision].down)
  THEN [revision |-> db.revision - 1,
        tables |-> Changed(db.tables, migrations[db.revision].down)]
  ELSE db

(* The two commands, as far as the migrations go.                          *)
Upgraded(db, target) ==
  Repeated([d \in Database |-> UpgradeOne(d, target)], Target, db)

Downgraded(db, target) ==
  Repeated([d \in Database |-> DowngradeOne(d, target)], Target, db)

(* What a command that raised leaves: nothing new if one transaction holds *)
(* all its migrations, or what was reached if each has its own.  The       *)
(* env.py of the audited repository decides.                               *)
LeftBehind(reached) == {database, reached}

(* schema_fingerprint and row_counts.                                      *)
Schema(db) == [t \in Table |-> db.tables[t].columns]
Rows(db) == [t \in Table |-> db.tables[t].rows]
Observation(db) == [schema |-> Schema(db), rows |-> Rows(db)]

Empty == [revision |-> 0, tables |-> [t \in Table |-> Absent]]

Steps == {"baseline", "apply", "load", "smoke", "observe", "downgrade",
          "upgrade", "compare", "recover", "done", "failed"}

Codes == {"none", "INVALID_INPUT", "ROLLBACK_FAILED", "MIGRATION_FAILED",
          "SEED_CONSTRAINT_FAILED", "SEED_TYPE_FAILED", "SEED_FAILED"}

NotSeeded == [source |-> "none", complete |-> FALSE, tables |-> {}]
NotObserved == Observation(Empty)

RunnerTypeOK ==
  /\ database \in Database
  /\ step \in Steps
  /\ before \in [schema : [Table -> 0 .. 2], rows : [Table -> 0 .. MaxRows]]
  /\ observed \in [schema : [Table -> 0 .. 2], rows : [Table -> 0 .. MaxRows]]
  /\ seeded \in [source : {"none", "fixture_manifest", "synthetic"},
                 complete : BOOLEAN, tables : SUBSET Table]
  /\ verdict \in [step : Steps, code : Codes]
  /\ interrupts \in 0 .. MaxInterrupts

RepositoryInit ==
  /\ migrations \in Histories
  /\ baseline \in 0 .. Target - 1
  /\ fixture \in Fixtures
  /\ support \in [Table -> {"full", "nullable", "required", "foreign"}]

DatabaseInit ==
  /\ database = Empty
  /\ step = "baseline"
  /\ before = NotObserved
  /\ observed = NotObserved
  /\ seeded = NotSeeded
  /\ verdict = [step |-> "baseline", code |-> "none"]
  /\ interrupts = 0

RunnerInit == RepositoryInit /\ DatabaseInit

-----------------------------------------------------------------------------

(* The exception that ends a command: the database's or the migration's.   *)
IsValueError(change) == change.kind = "raise_value_error"

(* _error_code.                                                            *)
ErrorCode(action, change) ==
  IF IsValueError(change) THEN "INVALID_INPUT"
  ELSE IF action = "observe" THEN "ROLLBACK_FAILED"
  ELSE "MIGRATION_FAILED"

FailWith(code, next) ==
  /\ verdict' = [step |-> step, code |-> code]
  /\ step' = next

(* Fault: an upgrade begins at the revision before its stage, wherever the *)
(* database is.                                                            *)
UpgradeFromStart(at, target, next) ==
  LET from == IF at = "baseline" THEN 0 ELSE baseline
      reached == Upgraded([database EXCEPT !.revision = from], target)
  IN
  /\ step = at
  /\ IF reached.revision >= target
     THEN database' = reached /\ step' = next /\ UNCHANGED verdict
     ELSE /\ database' \in LeftBehind(reached)
          /\ FailWith(ErrorCode(at, migrations[reached.revision + 1].up), "failed")
  /\ UNCHANGED <<repositoryVars, before, observed, seeded, interrupts>>

(* UPGRADE_BASELINE and APPLY_TARGET.                                      *)
Upgrade(at, target, next) ==
  LET reached == Upgraded(database, target) IN
  /\ step = at
  /\ IF reached.revision >= target
     THEN database' = reached /\ step' = next /\ UNCHANGED verdict
     ELSE /\ database' \in LeftBehind(reached)
          /\ FailWith(ErrorCode(at, migrations[reached.revision + 1].up), "failed")
  /\ UNCHANGED <<repositoryVars, before, observed, seeded, interrupts>>

UpgradeBaseline == Upgrade("baseline", baseline, "apply")
ApplyTarget == Upgrade("apply", Target, "load")

-----------------------------------------------------------------------------
(* LOAD_TEST_DATA: seed_database.                                          *)

Tables == {t \in Table : Present(t)}

(* _manifest_rows: the tables of the fixture, which must be there.         *)
FixtureRows == [t \in Table |-> IF t \in DOMAIN fixture THEN fixture[t] ELSE 0]
FixtureFits == DOMAIN fixture \subseteq Tables

(* _synthetic_rows: one row, unless the table refers to another or has a   *)
(* column that must have a value the generator cannot make.                *)
Seedable == {t \in Tables : support[t] \in {"full", "nullable"}}
SyntheticRows == [t \in Table |-> IF t \in Seedable THEN 1 ELSE 0]
Gaps == {t \in Tables : support[t] # "full"}

(* All rows in one transaction; a constraint, a type or another error of   *)
(* the database may refuse one.                                            *)
InsertRows(rows, summary) ==
  \/ /\ \A t \in Table : database.tables[t].rows + rows[t] <= MaxRows
     /\ database' = [database EXCEPT !.tables =
          [t \in Table |-> [columns |-> @[t].columns, rows |-> @[t].rows + rows[t]]]]
     /\ seeded' = summary
     /\ step' = "smoke"
     /\ UNCHANGED verdict
  \/ /\ \E t \in Table : rows[t] > 0
     /\ \E code \in {"SEED_CONSTRAINT_FAILED", "SEED_TYPE_FAILED",
                     "SEED_FAILED"} :
          FailWith(code, "failed")
     /\ UNCHANGED <<database, seeded>>

LoadFixture ==
  /\ fixture # NoFixture
  /\ IF FixtureFits
     THEN InsertRows(FixtureRows, [source |-> "fixture_manifest", complete |-> TRUE,
                                   tables |-> DOMAIN fixture])
     ELSE FailWith("INVALID_INPUT", "failed") /\ UNCHANGED <<database, seeded>>

(* Fault: a column that may stay empty is no gap.                          *)
SyntheticIgnoresNullable ==
  /\ fixture = NoFixture
  /\ baseline > 0
  /\ InsertRows(SyntheticRows,
        [source |-> "synthetic", tables |-> Seedable,
         complete |-> \A t \in Gaps : support[t] = "nullable"])

LoadSynthetic ==
  /\ fixture = NoFixture
  /\ baseline > 0
  /\ InsertRows(SyntheticRows, [source |-> "synthetic", complete |-> Gaps = {},
                                tables |-> Seedable])

(* no_baseline_schema:synthetic_seed_skipped                               *)
SkipSynthetic ==
  /\ fixture = NoFixture
  /\ baseline = 0
  /\ seeded' = [source |-> "synthetic", complete |-> FALSE, tables |-> {}]
  /\ step' = "smoke"
  /\ UNCHANGED <<database, verdict>>

LoadTestData ==
  /\ step = "load"
  /\ LoadFixture \/ LoadSynthetic \/ SkipSynthetic
  /\ UNCHANGED <<repositoryVars, before, observed, interrupts>>

(* RUN_SMOKE_CHECKS: it reads only; no constraint is deferred in its own   *)
(* transaction, so there is nothing to refuse.                             *)
RunSmokeChecks ==
  /\ step = "smoke"
  /\ observed' = Observation(database)
  /\ step' = "observe"
  /\ UNCHANGED <<repositoryVars, database, before, seeded, verdict, interrupts>>

-----------------------------------------------------------------------------
(* VERIFY_ROLLBACK_ROUNDTRIP.                                              *)

ObserveBefore ==
  /\ step = "observe"
  /\ before' = Observation(database)
  /\ step' = "downgrade"
  /\ UNCHANGED <<repositoryVars, database, observed, seeded, verdict, interrupts>>

DowngradeToBaseline ==
  LET reached == Downgraded(database, baseline) IN
  /\ step = "downgrade"
  /\ IF reached.revision <= baseline
     THEN database' = reached /\ step' = "upgrade" /\ UNCHANGED verdict
     ELSE /\ database' \in LeftBehind(reached)
          /\ FailWith(ErrorCode("observe", migrations[reached.revision].down), "recover")
  /\ UNCHANGED <<repositoryVars, before, observed, seeded, interrupts>>

UpgradeAgain ==
  LET reached == Upgraded(database, Target) IN
  /\ step = "upgrade"
  /\ IF reached.revision = Target
     THEN database' = reached /\ step' = "compare" /\ UNCHANGED verdict
     ELSE /\ database' \in LeftBehind(reached)
          /\ FailWith(ErrorCode("observe", migrations[reached.revision + 1].up), "recover")
  /\ UNCHANGED <<repositoryVars, before, observed, seeded, interrupts>>

(* Fault: the rows are counted and not compared.                           *)
SchemaRestored ==
  database.revision = Target /\ before.schema = Schema(database)

Restored == database.revision = Target /\ before = Observation(database)

Compare ==
  /\ step = "compare"
  /\ IF Restored
     THEN step' = "done" /\ UNCHANGED verdict
     ELSE FailWith("ROLLBACK_FAILED", "recover")
  /\ UNCHANGED <<repositoryVars, database, before, observed, seeded, interrupts>>

(* The best effort after a failed roundtrip.                               *)
Recover ==
  LET reached == Upgraded(database, Target) IN
  /\ step = "recover"
  /\ IF reached.revision = Target THEN database' = reached
                                  ELSE database' \in LeftBehind(reached)
  /\ step' = "failed"
  /\ UNCHANGED <<repositoryVars, before, observed, seeded, verdict, interrupts>>

VerifyRoundtrip ==
  ObserveBefore \/ DowngradeToBaseline \/ UpgradeAgain \/ Compare \/ Recover

-----------------------------------------------------------------------------

(* Where the action that a step belongs to begins.                         *)
Beginning(at) ==
  IF at \in {"downgrade", "upgrade", "compare", "recover"} THEN "observe" ELSE at

(* How far a command may have come when its container is stopped.          *)
PartWay ==
  CASE step = "baseline" -> {Upgraded(database, r) : r \in 0 .. baseline}
    [] step \in {"apply", "upgrade", "recover"} ->
         {Upgraded(database, r) : r \in 0 .. Target}
    [] step = "downgrade" -> {Downgraded(database, r) : r \in baseline .. Target}
    [] OTHER -> {database}

(* The container is stopped, and the action executed again.                *)
Stop ==
  /\ step \notin {"done", "failed"}
  /\ database' \in PartWay
  /\ step' = Beginning(step)

(* The action has ended, its result is lost, and it is executed again.     *)
Finished ==
  [apply |-> "baseline", load |-> "apply", smoke |-> "load", observe |-> "smoke",
   done |-> "observe", failed |-> Beginning(verdict.step)]

LoseResult ==
  /\ step \in DOMAIN Finished
  /\ step' = Finished[step]
  /\ UNCHANGED database

Interrupt ==
  /\ interrupts < MaxInterrupts
  /\ interrupts' = interrupts + 1
  /\ Stop \/ LoseResult
  /\ UNCHANGED <<repositoryVars, before, observed, seeded, verdict>>

RunnerNext ==
  \/ UpgradeBaseline \/ ApplyTarget \/ LoadTestData \/ RunSmokeChecks
  \/ VerifyRoundtrip \/ Interrupt

RunnerSpec == RunnerInit /\ [][RunnerNext]_runnerVars

-----------------------------------------------------------------------------

(* Each migration above the baseline is undone exactly by its downgrade:   *)
(* no rows are touched but those of a table that is dropped, and what a    *)
(* downgrade creates is the table that was dropped.                        *)
Undoes(tables, down, up) ==
  \/ down.kind = "nothing" /\ up.kind = "nothing"
  \/ /\ <<up.kind, down.kind>> \in
          {<<"create", "drop">>, <<"drop", "create">>,
           <<"add_column", "drop_column">>, <<"drop_column", "add_column">>}
     /\ up.table = down.table
     /\ up.kind = "drop" => tables[up.table].columns = 1

Reversible ==
  \A i \in 1 .. Target : i > baseline =>
    Undoes(Upgraded(Empty, i - 1).tables, migrations[i].down, migrations[i].up)

(* Some revision that the roundtrip visits does not have the table.        *)
Vanishes(t) ==
  \E r \in baseline .. Target : Upgraded(Empty, r).tables[t].columns = 0

(* The verdict of a roundtrip that was not interrupted.  If it is stored   *)
(* as SUCCEEDED, the database has the schema and row counts the smoke      *)
(* checks had stored before it.  And a history whose downgrades undo its   *)
(* upgrades fails exactly if a table holds rows that is missing somewhere  *)
(* between baseline and target: it is dropped on the way, and the rows of  *)
(* all other tables survive.                                               *)
RoundtripVerdict ==
  LET failed == step = "failed" /\ verdict.step \in {"downgrade", "upgrade", "compare"}
  IN interrupts = 0 =>
       /\ step = "done" => database.revision = Target /\ observed = Observation(database)
       /\ Reversible /\ (failed \/ step = "done") =>
            (failed <=> \E t \in Table : Vanishes(t) /\ observed.rows[t] > 0)

(* Coverage by synthetic data is never overstated: what is complete when   *)
(* the first smoke checks begin has a row in every table and a value in    *)
(* every column.  (A roundtrip may lose the rows again.)                   *)
CoverageNotOverstated ==
  step = "smoke" /\ interrupts = 0 /\ seeded.source = "synthetic" /\ seeded.complete =>
    \A t \in Tables : support[t] = "full" /\ database.tables[t].rows > 0

(* Migrations are never repeated: up to the first seeding the database is  *)
(* what one undisturbed upgrade makes of an empty one, although the        *)
(* upgrades may be interrupted between two migrations and started again.   *)
UpgradesConverge ==
  step = "load" /\ seeded = NotSeeded => database = Upgraded(Empty, Target)
=============================================================================
