# A TLA+ development of Grizzle

Grizzle is a Go port of Drizzle ORM and Drizzle Kit: schema definitions in Go,
a query builder, drivers for PostgreSQL, MySQL and SQLite, and a kit that brings
a database to the schema in the code. This directory models the parts where
order, failure and concurrency decide whether the result is right: the migration
artifact store, the schema diff, the migration of a live PostgreSQL or SQLite
database, the query
builders, and the drivers' transactions and prepared statements. Paths below are
relative to the root of the repository.

## Inventory

| Component | State | Operations | Hard behaviour | Correct when |
|---|---|---|---|---|
| Artifact store, `kit/filemigrate/artifact*.go` | a directory of migrations, each two files; staging directories | ResolveRoot, CreateArtifact, ReadArtifact, ListArtifacts | several processes share only the file system; crashes between two system calls; non-atomic directory scans | artifacts appear whole, once, and never change; reads and lists are consistent |
| Snapshot and diff, `kit/snapshot.go`, `kit/diff.go` | none (pure) | FromDefs, FromSchema, SaveJSON, LoadJSON, Diff | nine phases whose order must respect every dependency; renames; enum anchors | the statements apply in order and lead to the schema, renames keep data |
| SQL generation, `kit/sqlgen*.go` | none (pure) | GenerateChangeSQL, AllChangeSQL, per dialect | changes without a statement; IF EXISTS | each change does what Diff meant |
| Introspection, `kit/introspect` | reads the catalog | IntrospectPostgres, -MySQL, -SQLite | many queries, no transaction; what comes back differs from what was declared | a migrated database compares equal to its schema |
| Migration, `kit/apply.go`, `kit/migrate*.go` | the database, `_grizzle_migrations` | Push, DryRun, Migrate, Status, per dialect | concurrent calls, broken connections, lost answers, implicit commits, retries | history and schema agree; success means current; current stays current |
| Source stores, `kit/filemigrate/source*.go`, `managed_mem.go` | source files | ResolveSourceRoot, ListSourceFiles, ReadSourceFile, WriteManagedFile | overwrite rules | nothing unmanaged is overwritten |
| Limits, diagnostics, segmentation, `kit/filemigrate/limits.go`, `diag.go`, `migration_sql.go` | none | resolve, Validate, rendering | boundaries | caps hold, errors carry a code |
| Command line, `cmd/grizzle` | snapshot file | gen, snapshot, diff, migrate, status | saving the snapshot and migrating are separate commands | see migration |
| Query builders, `query` | values; the slices inside them are shared arrays | Select, Insert, Update, Delete, set operations, their methods, Build | slices shared by derived builders; errors kept until Build; clauses one dialect lacks | a builder never changes once made; what is built is what was asked for, and the engine accepts it or Build refuses |
| Expressions, `expr` | none (trees); BuildContext collects arguments | columns, comparisons, And/Or/Not, functions, CASE, windows, text search | precedence of text; arguments bound in an order of their own | every placeholder receives its value, every condition keeps its meaning |
| Dialects, `dialect` | none | feature flags, placeholders, quoting | | see builders |
| Drivers, `driver/pgx`, `driver/sql` | connection pool, server sessions | Query, Exec, Transaction, prepared statements, Registry | ended contexts, lost answers, panics, database/sql's own rollback, names prepared on some connections only | connections return clean, transactions are all or nothing and Transaction tells which |
| Schema definitions, code generator, `schema`, `gen` | none | builders of plain records; text | none | out of scope |

The command line and applications call the migration functions, which introspect
the database, turn what they find and the definitions in the code into two
snapshots, call Diff, generate statements and run them. `grizzle snapshot` and
`grizzle diff` do the same with a JSON file in place of the database. Applications build queries with the builders, whose Build renders an expression
tree for a dialect, and run them through a driver, alone, in a transaction or as a
prepared statement. The artifact store is the base of a file migration workflow whose upper layers are
only specified so far (`docs/spec`).

`PROJECT.json` lists, under `hazards`, what is hard to test, line by line, with
the property that covers it or the reason why none does.

## Modules

| Module | What it is |
|---|---|
| `ArtifactRegistry` | the abstract store: every call is one step (`MemArtifactStore`) |
| `ArtifactStore` | `FSArtifactStore`, one step per file-system call, any number of processes, crashes |
| `ArtifactStoreProofs` | the theorems about it |
| `SchemaDiff` | `kit.Diff` as operators on snapshots |
| `SchemaSQL` | `GenerateChangeSQL`: the statements of each change (extends `SchemaDiff`) |
| `PgCatalog` | PostgreSQL's catalog: which statements it accepts and what they do (external; extends `SchemaSQL`) |
| `Evolution` | what a schema may change from one version to the next, shared by both databases (extends `SchemaSQL`) |
| `SchemaApply` | a PostgreSQL database and the successive schemas of its program (extends `PgCatalog`, `Evolution`) |
| `SchemaApplyProofs`, `SchemaTablesProofs` | the theorems about it: types and enums; tables, columns, views and data |
| `SqliteDDL` | `GenerateChangeSQLSQLite`: statements, types and defaults, and what SQLite cannot do (extends `SchemaSQL`) |
| `SqliteCatalog` | which of them SQLite accepts and what they do (external; extends `SqliteDDL`, `PgCatalog`) |
| `SqliteApply` | a SQLite database and the successive schemas of its program (extends `SqliteCatalog`, `Evolution`) |
| `MigrationLedger` | the abstract database with its history: whole batches with their rows |
| `Migrate` | Push, Migrate, Status and DryRun as interleaved processes on three dialects |
| `MigrateProofs`, `MigrateAgreement` | what its operators compute, and the theorems about history and ledger; theorems about processes that want the same schema |
| `Dialects` | feature flags of `dialect/dialect.go` |
| `Expressions` | package expr: expression trees and the pieces of SQL they consist of (extends `Dialects`) |
| `Queries` | package query: the records of the builders and the pieces of their statements (extends `Expressions`) |
| `Rendering` | BuildContext: how pieces become text, recursively, and the arguments they bind (extends `Queries`) |
| `SQLEngines` | what the engines refuse, how they read a WHERE clause and which value a placeholder receives (external; extends `Rendering`) |
| `Builders` | a program that calls builder methods, in any order, on any builder it has (extends `Queries`; how pieces are rendered is its constant `Rendered`) |
| `BuiltQueries` | what those programs build, as the engines read it (extends `Builders`, `SQLEngines`) |
| `BuildersProofs` | the theorems about `Builders` |
| `Sessions` | transactions, queries and executions of several goroutines over one pool |
| `PreparedStatements` | prepared statements and the registry over that pool (extends `Sessions`; its steps are those of `Sessions` and its own) |
| `SessionsProofs` | the theorems about them |
| `SequenceLemmas` | sequences that are concatenated, flattened, mapped and inserted into; induction on numbers (for the proofs) |
| `MCArtifactStore`, `MCSchemaApply`, `MCSqliteApply`, `MCMigrate`, `MCBuilders`, `MCSessions` | instances for TLC |

### Artifact store

`published`, `staging` and `foreign` are the entries of the migrations directory,
`rootDir` whether it exists; `pc` and `frame` are the program counter and the
locals of each process's call and `result` what it returned. A payload is one
value that stands for both files, so that a torn pair of files is a directory
whose two fields differ. `os.Create` leaves a file `Partial` until it is written
and closed. `CreateArtifact` is the steps CreateLstat, CreateMkdirTemp,
CreateSQL, FillSQL, CreateSnap, FillSnap, CreateRename, each of which may fail
and lead to CreateCleanup (the deferred RemoveAll, which may fail too).
ReadArtifact and ListArtifacts are split in the same way; a directory scan may or
may not see an entry that comes or goes while it runs. Crash kills a process at
any point; `orphans` is a history variable that remembers the staging directories
without an owner.

Left out: symlinks and hard links inside an artifact (rejected by one Lstat
each), digests, and file systems whose completed writes do not survive.
`os.Rename` is modelled by what Go documents: a directory is never renamed over
an existing one.

### Schema diff

`SchemaDiff` keeps the phases of Diff in their order, with 3b and 8b, the
claims of renames, the anchors of enum labels, constraint keys, the
normalisation of constraints under renames and the ordering of new tables. Names
are strings, sorted by the constant `Alphabet`. A view is the table and columns it
reads; a constraint is its kind, name, columns, target, expression and action.

`SchemaApply` is one database. Start diffs a baseline with the next schema and
queues its statements, Execute runs one, Rollback abandons the transaction at any
statement, Commit ends it. The baseline is the saved snapshot of the last schema
(flow "snapshot": `grizzle snapshot`, `grizzle diff`) or what introspection makes
of the catalog (flow "live": Push and Migrate, which do not manage views and
enums). `PgCatalog` names every column's data, so that a column that is dropped
and created anew is told from one that is renamed.

Some changes of a schema Diff does not support, and the run that checks it
assumes a schema changes within `Compatible`: ten restrictions, each named
and commented, each a hazard in `PROJECT.json` with its line. Within them any
schema may follow any other. One of them is `TypesConvert`: `ALTER COLUMN TYPE` is
generated without USING (`kit/sqlgen.go:99`), so a column gets another type only where
PostgreSQL converts by itself (among the types of the model, to text), and only if no
foreign key of either schema uses it. That a foreign key refers to unique columns of
its own types is taken for granted. The runs `schema_reindex` and `schema_rerun` step
outside and show what happens there.

### SQLite

SQLite cannot alter a column or a constraint of a table, so the generator writes
comments in their place, which are not executed, and `SQLiteApplyableChanges` takes
some of those changes out first. `SqliteApply` keeps the variables and actions of
`SchemaApply`, with Insert for the program that stores rows: whether a column can be
added, or a table dropped, depends on them and on `PRAGMA foreign_keys`. Columns have
a primary key and a unique clause of their own here, since `PRAGMA table_info`,
`index_list` and `foreign_key_list` return them in another form than they were
declared in: types and defaults translated (`SqliteType`, `SqliteDefaultExpr`),
foreign keys under made-up names, the index of a UNIQUE clause as one of the table.
CHECKs and views are not introspected.

`SqliteCompatible` are the seven restrictions on how a schema may change. Unlike
`Compatible` they look at the database too, because what SQLite could not follow is
still there after the migration: a foreign key, a CHECK, an old type. Taking away
any one of the seven gives a violation.

### Migration

`Migrate` interleaves processes that each make one call (`call`) for one schema
(`target`) and make it again if it failed (Rerun). Ensure, LoadHistory,
ListTables, Read, Compare, Execute, Record, Commit are the queries and statements
in the order of the code; Read is one query of the introspection. Under
PostgreSQL and SQLite a transaction keeps its changes in `work`, invisible to
others, and holds the tables it has touched (SQLite: all of them) until it
commits; who needs one waits, and a mutual wait is ended by Deadlock. Under MySQL
every statement commits by itself. Refuse is a statement the database rejects,
Fault a broken connection or a crash, CommitUnanswered a commit whose answer is
lost. Tables consist of themselves, a column and an index: enough for statements
that tolerate repetition (CREATE TABLE IF NOT EXISTS, DROP TABLE IF EXISTS, DROP
INDEX IF EXISTS, and under SQLite CREATE INDEX IF NOT EXISTS, with which the slower of
two equal calls goes on and records its batch too) and those that do not.

`MigrationLedger` is the promise: the database changes by whole batches, each
applied to the database as it is at that moment, together with its row. `Migrate`
implements it under PostgreSQL and SQLite by the identity mapping of `db` and
`history`.

### Builders

A builder is a record with the fields of its Go struct; `built` holds every builder
a program has made, and each method is one action that appends the builder it
returns, made from any earlier one (`SetOperation`, `With`, `FromSelect` take two).
`said` is a history variable: from which builder and by which call a builder was
made, which conditions and rows were asked for along the way, and whether a row
was invalid. Methods copy their slices, with two exceptions. One is outside the builders: And and Or
drop nil operands by compacting the caller's variadic slice in place (`expr/expr.go:65`),
so that a program that passes one slice twice finds its operands moved; here operands are
given one by one, and `FilterNil` is a function. So slices are values, except for the
assignments of an upsert clause, the other exception: those are an array in `heap` and a
length, `AppendInPlace` and `AppendToCopy` are Go's `append` with its doubling
capacity. `BuildNewest` is Build: `out` is what it returns for every dialect, a
sequence of tokens (words, names, placeholders with the value meant for them) and
the list of arguments, or an error. `Builders` itself knows only the pieces of a
statement (`BuilderPieces`) and takes what they render to as a constant, `Rendered`;
the runs give it `RenderStatement` of `Rendering`. `SQLEngines` then reads the tokens as an engine
does: it resolves placeholders by number or by position, reads the WHERE clause with
SQL's precedence of NOT, AND and OR, and lists what the engine refuses.

Names and literals are members of small sets; the text of identifiers, quoting and
error messages are left out (quoting makes any name one identifier token). Struct
fields keep what `structToColVals` looks at: tag, pointer, `omitempty`, and whether
they are exported.

### Sessions

A client is a goroutine. `stage` is where its call of Transaction is, `waits` the
call on the DB (Query or Exec, outside or within its callback) for which it needs a
connection, `live` says whether the context of its call goes on. `owner`, `tx`,
`pending` and `rows` are the connections: who holds them, the transaction on them,
the writes it will commit, and whether a result is being read. `sent` and `acked`
are the writes of a client's last transaction, `outcome` what Transaction returned,
`data` what is committed. Begin, the callback's calls, CommitOk, CommitRefused,
CommitLost, CommitTooLate and Rollback are the calls of `Transaction` in either
driver; Execute, TxQuery, TxScan, TxExecFails, TxRolledBack are those of `Tx`; Ask, Exec, Query,
Scan those of `DB`. The drivers differ where their libraries do: pgx refuses a
statement while rows are open, and PostgreSQL aborts the transaction with a failed
statement; MySQL and SQLite keep it, except for errors that roll it back (a deadlock of
MySQL, a full disk), after which COMMIT would succeed without the writes: `TxRolledBack`
has the callback return such an error, as in `docs/spec/transactions.md:25`, and a callback that
swallows one is outside the model (Transaction would then return nil for nothing).
database/sql rolls back by itself when the context ends (`AwaitDone`), which is
also what frees a connection that a panic left behind, but only then.
`ConnectionBreaks`, `ContextEnds`, lost answers and server errors draw on one
budget of faults.

`PreparedStatements` adds the names prepared on each connection (`known`), the
registry, and PrepareAll, one connection and one statement at a time. `verdict` is how
it ended: with nil, refused by the server, with the error of its ended context, or
because no connection could be had or the one it had broke while preparing (the actions
`ValidateRefused`, `AcquireFails` and `PrepareBreaks`; to the caller "refused" and
"unreachable" are one error). A connection that returns to the pool, or is idle in it, may
be replaced, and forgets its names. Run executes a statement's SQL text on an idle
connection or in a transaction. pgx looks the text up among the names prepared on that
connection before it takes it for SQL (`Meant`), and the server refuses what is no valid
SQL (`Executes`), which aborts a transaction. Which SQL is valid does not change in the
model: a migration between validation and execution is not.

## Runs

| Run | Expect | Question | States |
|---|---|---|---|
| `artifact_store` | pass | two processes, one name, creates, reads, lists, failures, crashes | 482,098 |
| `schema_apply` | pass | two migrations between 98 schemas, both flows, and a third from those without tables | 39,879 |
| `schema_reindex` | violation | are all necessary changes applied when an index keeps its name? | |
| `schema_rerun` | violation | is a second Migrate a no-op? | |
| `sqlite_apply` | pass | three SQLite migrations between 62 schemas, both flows, with rows and foreign keys enforced or not | 463,006 |
| `sqlite_unique` | violation | can a table with a UNIQUE column be migrated twice? | |
| `migrate_postgres` | pass | two migrations and a status call, PostgreSQL and SQLite, one fault | 357,217 |
| `migrate_mysql` | pass | two calls on MySQL, two faults, with fairness | 54,350 |
| `migrate_mysql_names` | violation | is a second MigrateMySQL a no-op with bare table names? | |
| `query_builders` | pass | all programs of up to two calls from 10 starts, and one query for every expression; four dialects | 39,176 |
| `builders_alias` | violation | are builders immutable when an upsert's array has room? | |
| `sessions` | pass | two goroutines on pools of the least size, one fault, one panic; prepared statements | 319,485 |

**artifact_store.** `PublishedWhole`, `CreatedIsMine`, `OneWinner`,
`PublishedForever`, `StagingOwned`, `ReadUntorn`, `ListingExact`, and
`ImplementsRegistry`. Two processes with one name give every race of two calls,
and a third can add nothing that concerns the same name but a second loser. Two
staging names let one be an orphan while the other is in use. `MaxArtifacts` = 1
and `MaxArtifactDirEntries` = 2 put both caps within reach of the entries that
exist. The root is absent, or holds a foreign entry: a sidecar, a symlink, a stray file or
a dot-directory. Processes and staging names are interchangeable: TLC permutes both.

**schema_apply.** `StatementsApply` (each statement is accepted when its turn
comes; the rows that are there may still refuse a NOT NULL, a key or a check), `Converges` (tables, columns, constraints and views are those of the
code), `EnumsConverge` (labels and their order), `DataKept` (renamed tables and
columns keep what is stored; where several new ones claim an old one, the first table
by name and the first column in the order of the code has it). The 98 schemas combine a table under two names and
three shapes (a renamed and retyped column, an enum column, checks and indexes),
a table that refers to it from a column or by constraints with two referential
actions, or not at all and then with another type in that column, views and an enum that grows by labels at every position, and views and
enums that take over the name of a table. Two migrations reach every ordered
pair, from a database that Grizzle itself built. A third is needed for labels: one
that a schema has given up stays in the database, and matters when a later schema
takes it back. `MaxMigrations` = 3, the third (from schemas without tables only,
which bounds the run) meets such labels.

**sqlite_apply.** `StatementsApply` as above, and `Converges`: tables and views are
those of the code, a new table is what was declared in SQLite's types, an old one
has the declared columns and indexes with every row and value it had, and the next
migration finds nothing to execute. The 62 schemas combine a table under two names
with four primary keys (serial, uuid with a generated default, plain, table-level),
renamed and retyped columns, translated defaults, a CHECK and a unique index; a table
that refers to it from a column or by a constraint with ON DELETE CASCADE, or no
longer does; views and an enum. The third migration meets what SQLite could not
follow in the second.

**migrate_postgres.** `HistoryExplainsSchema` (replaying the history in id order
gives the database), `StatusConsistent`, `SuccessMeansCurrent`, `StaysCurrent`,
`ImplementsLedger`. The targets include a rolling deployment of two versions each
of which drops what the other changes, which is where deadlocks occur. One fault
is enough for a lost answer and for a crash between any two steps; two
migrations and a status call are the smallest set in which everything races.

**migrate_mysql.** `RetriesConverge` is a liveness property under
`WF_vars(Step(p))` for each process: a call that has been started goes on, a
statement that can run is run, and a call that failed is made again. The first
two are the Go scheduler and the server; the last is what an operator or a
supervisor does with a deployment that exits with an error, since the code itself
never retries. Faults carry no fairness and are bounded by `MaxFaults` = 2:
connections stop breaking eventually. No other fairness is assumed, and all
other properties are safety properties.

**query_builders.** `BuildersNeverChange` (no call changes what an earlier builder
builds), `PlaceholdersFit`, `BuiltIsAccepted`, `WhereKeepsMeaning`, `RowsAligned`,
`ErrorsStick`. Programs start from a select, a filtered one, two selects, a set
operation, inserts with and without rows and with an upsert, updates and deletes,
and make two calls (one where the start is rich), so that every pair of methods of
one builder occurs in both orders, and every method is called on the result of every
other. Rows include absent optional fields, structs without columns, duplicate
columns, and values that are no struct; conditions include nested Or and Not, nil
and typed nil. A program without calls builds each of the queries in `MCBuilders`, one for each
method of each column type and for each kind of expression in every clause. Besides
the three engines there is a minimal dialect that supports nothing optional, so that
every gate is seen closed. `BuiltIsAccepted` compares against `KnownGaps`, the
refusals listed below that Build is known to let through; an engine's other refusals
never occur. `Aliasing` is FALSE here: a program in which DoUpdateSetStruct meets an
array with room is the subject of `builders_alias`.

**sessions.** `TransactionAtomic` (what Transaction returns is what happened to the
writes), `PoolClean` (no connection is handed out with somebody's transaction or
rows), `WritesTogether`, `ReadyMeansValid` (after a PrepareAll that returned nil,
every registered statement is one the server can prepare), `ValidatedRuns` (a validated
statement runs its own SQL on every connection), `ErrorsHaveCause` (the server refuses a
statement of PrepareAll only for wrong SQL or for a name another statement has taken), and the liveness property `CallsReturn`. Two
goroutines are enough for a wait on each other; each setting has the least pool for
which its calls return (callbacks may hold one connection and wait for a second,
panics may lose one). Prepared statements have two settings of their own: two statements
on two connections that break and are replaced, and one statement run in a transaction.
They include one SQL under two names, one name for two texts, invalid SQL, and a statement
named by its own SQL; none is named by the SQL of another (`LabelsApart`), which pgx would
confuse. `CallsReturn` assumes weak fairness of each client's progress
(`Proceeds`: callbacks return and scan their rows, the pool hands out a free
connection, a driver call answers, at the latest when its context has ended) and of
database/sql's watching goroutine (`Watches`); starting calls, panics, and faults
carry none, and a connection lost to a panic whose context does not end stays lost.

Deadlock is not checked in the SchemaApply, SqliteApply, Migrate, Builders and Sessions runs:
they end when the migrations bound is reached or all calls are made.

Bounds: `left` (calls a program, or a client, may still make), `LoadType.faults`,
`panics` and `statements`, `MaxMigrations` (committed migrations), `MaxFaults`, `MaxRows` (history
rows; large enough never to bind before the calls end), `StagingIds` (staging
directories at once).

Every property of a passing run has a mutant: an operator next to the definition
it replaces that makes a plausible mistake, under which TLC finds the property
violated (`PROJECT.json`, `mutants`).

## Disagreements between the code and its documentation

Shown by a run:

1. `schema_reindex`: an index that keeps its name while losing a dropped column is
   missing after a successful migration (`kit/diff.go:597`, additions before drops).
2. `schema_rerun`: with a NOT NULL column or a table-level primary key a second
   Migrate finds changes again (`kit/introspect/pg.go:531`), against
   `kit/migrate.go:50`.
3. `migrate_mysql_names`: MySQL introspection files tables under `db.table`, the
   definitions and `schema/mysql/table.go:80` under bare names; a second
   MigrateMySQL drops every table.
4. `builders_alias`: DoUpdateSetStruct appends in place (`query/insert.go:200`), so
   two builders derived from one upsert can overwrite each other's assignments;
   `query/query.go:2` says builders are immutable.
5. `sqlite_unique`: `introspect/sqlite.go:158` says the indexes that come with UNIQUE
   are skipped; the code below it skips those of primary keys only. The next
   migration drops the index, which SQLite refuses, now and every time after.

Met while modelling and built into the models as they are, without a run of
their own:

- `ListArtifacts` returns any directory that is not a staging directory;
  `docs/spec/file-migrations-artifacts.md:324` wants other dot-directories to fail.
- `kit/migrate_mysql.go:143` speaks of a single transaction, which MySQL ends at
  the first DDL statement.
- `kit/diff.go:80` says the phases prevent dependency errors; a column is dropped
  (phase 4) before the views that read it are replaced (6) or dropped (7), which
  PostgreSQL refuses, and before the indexes over it (8), which SQLite refuses.
- A preload replaces the condition of its query (`query/preload.go:54`), where
  `query/preload.go:45` says it adds one.
- MigrateSQLite with an unchanged schema is a no-op for the table of
  `kit/kit_sqlite_test.go:174`, but for one with a CHECK, a named foreign key, a
  table-level primary key or a translated default each call records another batch
  of comments.
- An enum's new first label is anchored before the first label of the snapshot
  (`kit/diff.go:406`). If the database still has a label the schema had given up, and
  the new schema takes that one back too, the new first label comes to stand behind
  it: labels x, a, then a, then v, x, a end as x, v, a. `kit/diff.go:386` promises the
  correct position. `EnumsConverge` says exactly when this can happen.
- A column whose type changes, say from text to integer, gets an `ALTER COLUMN TYPE`
  without USING (`kit/sqlgen.go:99`), which PostgreSQL refuses even for an empty table;
  the migration fails and rolls back. `TypesConvert` leaves such changes out.
- `driver/pgx/prepared.go:265` says that an error of PrepareAll means a SQL problem in at
  least one query. It may as well be a name that another SQL has taken, an ended context
  or a server that cannot be reached, and only the ended context can be told from the rest
  by the caller (`prepared.go:354`).
- `DryRunSQLite` lists what `SQLiteApplyableChanges` takes out of the others.
- Where foreign keys are enforced, dropping a table deletes the rows of a table that
  still refers to it with ON DELETE CASCADE: SQLite cannot drop that key first.
- `DefaultRandom` of `schema/sqlite` (`column.go:110`) is a call without parentheses
  around it, which SQLite refuses as a default.
- `WinCount` renders `COUNT()`, not the `COUNT(*)` of `expr/window.go:213`.
- Build lets through, and the engine refuses (`KnownGaps`): a select list `*`
  without FROM; aliases in ORDER BY, GROUP BY and DISTINCT ON; NOWAIT together with
  SKIP LOCKED; either with MySQL's LOCK IN SHARE MODE; OFFSET without LIMIT on MySQL
  and SQLite; ILIKE, arrays and JSON operators outside PostgreSQL; NULLS LAST on
  MySQL; on SQLite ON CONSTRAINT, LIMIT before RETURNING and parenthesised operands
  of a set operation.
- Joining a subquery drops it (`query/query.go:31`: only its alias is rendered).
- Transaction defers nothing: a panic in the callback leaves its transaction and
  connection behind (for good with pgx, until the context ends with database/sql).
- Callbacks that use the DB beside their transaction wait for each other forever
  when the pool has no more connections than there are such callbacks.

## Proofs

Every theorem holds for every value of the constants that satisfies the named
assumptions, which say no more than what the constants stand for; TLC evaluates
them on every run. `PROJECT.json` lists the theorems with the property each states.

| Module | Theorems |
|---|---|
| `ArtifactStoreProofs` | `TypeOK`, `PublishedWhole`, `CreatedIsMine`, `OneWinner`, `ReadUntorn`, `StagingOwned`, `ListingExact`, `PublishedForever`, `ImplementsRegistry` |
| `MigrateProofs` | `TypeOK`, `HistoryExplainsSchema`, `ImplementsLedger` |
| `MigrateAgreement` | `StaysCurrent`, `SuccessMeansCurrent`, `StatusConsistent` |
| `SchemaApplyProofs` | `TypeOK`, `EnumsConverge` |
| `SchemaTablesProofs` | `DataKept`, and the part of `Converges` that is about tables, columns and views (`TablesConverge`) |
| `BuildersProofs` | `TypeOK`, `BuildersNeverChange`, `ErrorsStick` |
| `SessionsProofs` | `TypeOK`, `TransactionAtomic`, `PoolClean`, `WritesTogether`; for prepared statements `ReadyMeansValid`, `ErrorsHaveCause`, `ValidatedRuns`, and the promises of the sessions again |

### Artifact store

Assumptions: `ArtifactAssumption` (the payloads that are oversized or invalid are
payloads, the markers None and Partial are not values of anything, an artifact's
name is not one the listing skips). None of the safety invariants is inductive by
itself. `IInv` adds, per process, `StagingInv` (while it writes it owns one staging
directory, filled as far as its program counter says; otherwise it owns none) and
`CallInv` (what the call knows of the name, of what it has read, and of its result),
and across processes `OneOwner` (no two own the same staging directory) and
`Accounted` (a staging directory has an owner or is an orphan). The rename publishes
a whole artifact because its owner alone has written to it; a reader's two files
agree because the directory cannot change between the two reads. `ListInv` does the
same for a listing: what was there when it began is still to be looked at or listed,
and artifacts only become more. `LocalStep` carries the many steps that touch only
one process's locals; the others have a lemma each. For the refinement, `StepKinds`
shows that a step either leaves `published` alone or is the rename, and the mapped
step is Create, Read, Other or a stutter.

### Migration

Assumptions: `MigrateAssumption` (finitely many processes, a natural number of
faults, schemas over the given tables). No theorem bounds the processes, tables,
calls or faults.

`MigrateProofs!Inv` has types, what a process reads (`ReadsListed`), where a
transaction can be open (`Phases`) and mutual exclusion on tables (`Exclusive`).
`LedgerInv` adds what makes a commit a whole batch: the statements left are the end
of the plan (`Planned`), the transaction sees the database *as it is now* run
through the statements already executed, although others commit meanwhile
(`Applied`; it holds because the tables it has touched are held), and row numbers
are never reused (`Numbers`). `HistoryExplainsSchema` needs one thing more. Rows get
their number when they are inserted, not when their transaction commits, so a higher
number may be committed first; replaying in the order of numbers still gives the
database because the later row is on tables the earlier transaction does not hold
(`LaterElsewhere`), and batches on different tables commute (`ReplayInsert`).
`ImplementsLedger` takes the same invariant: the commit is a ledger step, everything
else stutters.

Both hold where DDL is transactional and are stated under `"mysql" \notin Dialects`;
for MySQL they are false, which is why the run `migrate_mysql` does not check them.
`Declared = "bare"` is the definitions naming tables as the introspection of these
dialects does; `migrate_mysql_names` shows what happens otherwise.

`MigrateAgreement` is about processes that want the same schema, on every dialect,
MySQL with its implicit commits included, under `NamesMatch` (code and introspection
name the tables alike). Its argument looks at a single object (a table, its column or
its index). `Further(c, e, w)`: on the way from content c to e, where w is wanted,
what was right stays right and a table created since is whole but for its index. Each
executed statement leads further (`AcceptedFurther`), and so what a process found
right stays right (`FoundRight`), a table it missed is whole if it is there
(`MissedWhole`), and what its own statements did lasts (`EffectsLast`), whoever runs
beside it, half-finished batches of failed calls included. At the end of a batch the
three together say that every object is right: `SuccessMeansCurrent`.
`StatusInv` follows a Status call in the same way from the history it loaded to the
schema it read later.

### PostgreSQL schemas

Assumptions: `SchemasAssumption` (snapshots are records of lists; names come from
the alphabet; the labels of an enum are not empty, which CreateEnum enforces, and
distinct, which PostgreSQL enforces) and `MigrationsAssumption`. The theorems hold for
every set of schemas, every relation `Evolves`, in particular without any of the
restrictions of `Compatible`, and any number of migrations.

The proof goes through the generator: what changes `Diff` can list and that it lists
one for every enum that comes, goes or gains a label (`DiffFacts`), what statements
they become (`StatementsFacts`), and what each statement leaves of a well-formed
catalog (`EffectFacts`). `Inv` then says what is done of the enums and that what is
not done waits in `todo` (`EnumsUnderWay`). For the order of labels `Growing` says
how an enum stands between two statements: its labels are in the order of the new
schema, and as long as the new first label is missing so are all labels up to the
first one the old schema has (`Lead`), which is why the place before that one is the
first. An earlier `EnumsConverge`, which demanded the order whenever the database's
labels had not drifted, could not be proved, and was false: TLC finds the case of the
label given up and taken back (listed above) as soon as a third migration is allowed.

`SchemaTablesProofs` is about tables, columns, views and what is stored in them. One more
hypothesis is needed, `TablesFollow`: a schema is one that a database can hold at all (no
two columns of a table share a name, views read what there is); no table has the name of
an index, and none that of a view of the schema before, because CREATE TABLE IF NOT EXISTS
passes silently over any relation that has the name. TLC evaluates the hypothesis for the
98 schemas and for their restriction `Compatible`; `Compatible` itself is not assumed, and
neither is that the statements are accepted: a migration that commits has
executed them all.

The proof follows one idea, *whatever is not done is still to do*. `TablesUnderWay` says of
every table how it stands between two statements: an old one that is to go is gone or a
DROP TABLE waits; a new one has the columns of the code or a CREATE TABLE waits; one that
lives on (`OldTables`, once called `OldName`) has its new name or a rename waits, and of
each of its columns the same is said (`ColumnsUnderWay`), with the type, the nullability
and the default either right or awaiting their statement, and the data what the old column
held. `ViewsUnderWay` does this for views. For each kind of statement a lemma shows what it
leaves of the fields (`CreateTableFields` to `RenameColumnFields`) and another that what it
has done is no longer needed in the queue (`ColumnDone`, `RenameTableDone`, ...;
`TablesStep` puts them together). Three things
make it inductive. Every statement is about what the new schema has (`TableStatement`):
else a statement could undo what was right. A view that is dropped on the way comes back
later (`Restored`). Between migrations the database is that of the last snapshot
(`Settled`), so that the diff is taken from what is there. That a migration starts with
statements for everything is the other half, through the generator: `DiffTells` (Diff lists
every change of tables, columns and views), `SchemaSaidAndDone` (each becomes its
statements). At the end nothing waits, hence everything is done (`TablesEnd`), and the data
is where `TableRenames` and `ColRenames`, which break ties between several claims, have
sent it.

### Sessions

`SessionsProofs` rests on `SessionsAssumption` (the settings are well-formed, the
markers of holders are no clients). `TransactionAtomic` alone is not inductive: that
CommitOk may say "ok" needs `Carried` (an open transaction carries all that its client
has sent, and all of it was acknowledged), that nobody else's answer becomes false by
it needs `Ledger` (every write belongs to one transaction), and that an error before
the commit is truthful needs `Begun` (nothing was told before). Each action has a
lemma; the parts of the invariant it does not touch are dispatched by the Same lemmas,
and the effects many actions share (releasing connections, returning) have lemmas of
their own.

Its second half extends them to `PreparedStatements`: the steps are steps of the
sessions (a statement refused in a transaction is a call of Tx that fails) or leave them
alone, so that they keep those promises. `ReadyMeansValid` and `ErrorsHaveCause` hold
because a name on a connection always stands for valid SQL of a statement the program
still holds (`KnownValid`), and because PrepareAll passes the entries in order (`Passed`).
`ValidatedRuns` needs the same facts and a hypothesis, `LabelsApart`: what was validated is
valid (`ReadyMeansValid`), and if its text is a name on the connection at hand, the
statement of that name has the same text (`ValidatedExecutes`). Without the hypothesis it
is false: a statement whose name is another one's SQL runs in its place, on the
connections that prepared it. `PreparedAssumption` says that the markers of an unknown
name and of a refusal are no SQL, and that only pgx has prepared statements.

### Builders

`BuildersAssumption` says that a program starts with builders the package can have
made, that joins are of the five kinds, that structs have a list of fields, that nothing
assigns the empty value to the empty name (`Unset` stands for an unused cell of an
array), and that a statement which is invalid from its first piece on fails, the only
thing the proofs need of the rendering. The theorems hold for any number of calls, all
arguments and any set of dialects.

`BuildersNeverChange` is where the Go slices matter. An upsert's assignments are an
array and a length, and several builders may look at one array, with different lengths.
`IInv` says (through `TypeOK`) that a slice lies in the *filled* part of its array and
that the filled part of an array is a prefix. A call then either makes a new array
(`CopyExtends`) or writes the cell behind a slice (`AppendExtends`), and if that cell was
empty no slice contains it: `Grown` (filled cells stay filled) keeps every slice in
shape, `Intact` (and keep their value) every view the same. `Extended` carries both
through the loop of DoUpdateSetStruct (`StructAssignments`), where after the first
append the cell behind the slice is empty again (`Free`). The one case left is a first
append that meets a filled cell; `Aliasing` = FALSE leaves it out (it is the violation of
`builders_alias`), and the theorem says so in its hypothesis. That DoUpdateSet copies
first is what makes every other program safe.

`ErrorsStick` needs what `SaidShape` adds: a builder from an invalid row has its
`buildErr`, and every call keeps it. For ValueSlice the recursion over rows shows that a
row that is missing has left an error, and that none missing means none was bad
(`SomeRows`).

### Only model-checked

- `RetriesConverge` and `CallsReturn`: liveness under fairness.
- `StatementsApply` of `SchemaApply`, the part of `Converges` about constraints, and all
  of `SqliteApply`: they relate the order of every kind of change, and every constraint by
  which columns refer to each other, to the whole catalog under the ten (seven)
  restrictions of `Compatible` (`SqliteCompatible`), and hold for what TLC enumerates.
- `PlaceholdersFit`, `BuiltIsAccepted`, `WhereKeepsMeaning` and `RowsAligned` of the
  builders: they are about text that `Rendering` makes with recursive operators, about
  which the provers cannot reason.
- What a recursive function or a fold computes is proved where the theorems need it, by
  induction on a number over a set (`NatSetInduction`, which does not need an operator
  as parameter): `FlattenSeq`, `States`, `ReplayStates`, the order of new tables.

## Not modelled

Text: of SQL identifiers and literals, of Go source, of diagnostics and error
messages. The code generator and the schema definitions: one translates source to
source, the other makes the plain records that `SchemaApply` enumerates. Relation
definitions of the query package (records without behaviour). Scanning rows into
structs. The source stores and the schema discovery: reads of directories by one
caller. The MySQL statement generator beyond what decides whether a retried statement
fails, and what MySQL introspection makes of columns. Under SQLite: partial indexes,
references to references of a dropped table, and `GenerateCreateSQLSQLite`, which
prints the statements of new tables.

## Plan

Done in this order: artifact store with its proofs; schema diff, generation and
catalog; migration with its abstract ledger; expressions, queries and builders;
sessions with their proofs and prepared statements; SQLite's statements,
introspection and catalog; the proofs about `Migrate` and about enums. What is left:

1. The MySQL generator and introspection, in the same form as SQLite's, where every
   statement commits by itself.
2. `ManagedSources`: overwrite rules of WriteManagedFile; the snapshot file's
   window between migrating and saving.
3. Proofs: the constraints of `SchemaApply` in the manner of its tables, then
   `StatementsApply`; the type invariant and the row safety of `SqliteApply` from the same
   lemmas about Diff.
