------------------------------- MODULE SqliteApply -------------------------------
(***************************************************************************)
(* One SQLite database and the successive schemas of the program that uses  *)
(* it, migrated by kit.MigrateSQLite or kit.PushSQLite (flow "live"), or    *)
(* with what grizzle diff prints for the schema and the snapshot file of    *)
(* the one before (flow "snapshot").  Comments are not executed.  The row   *)
(* that MigrateSQLite adds to the history in the same transaction, and      *)
(* several calls at once, are modelled in Migrate.                          *)
(***************************************************************************)
EXTENDS SqliteCatalog, Evolution

CONSTANTS
    Schemas,             \* the snapshots the code may define
    Evolves(_, _, _, _), \* which schema may follow, by flow, database and last schema
    MaxMigrations        \* bound on the finished migrations

ASSUME MigrationsAssumption == MaxMigrations \in Nat

VARIABLES
    flow,      \* "live" or "snapshot"
    saved,     \* the last migrated schema, as LoadJSON gives it
    new,       \* the schema being migrated to, else the last one
    catalog,   \* the database
    before,    \* the database without the open transaction
    todo,      \* the statements left to run
    status,    \* "idle"; "running", in a transaction; "current", without one
    done       \* finished migrations
vars == <<flow, saved, new, catalog, before, todo, status, done>>

--------------------------------------------------------------------------------
(* Introspection                                                             *)

LowerType(type) == CASE type = "INTEGER" -> "integer" [] type = "TEXT" -> "text" [] OTHER -> type

\* sqliteColumns, PRAGMA table_info: keys are NOT NULL, and one of integers has a
\* default of its own.
IntrospectColumn(c) ==
    [name |-> c.name, type |-> LowerType(c.type), notNull |-> c.notNull \/ c.pk,
     default |-> IF c.default # Blank THEN c.default
                 ELSE IF c.pk /\ c.type = "INTEGER" THEN "auto" ELSE Blank,
     ref |-> <<>>, prev |-> Blank, pk |-> c.pk, unique |-> FALSE]

UniqueIndex(name, cols) == [kind |-> "unique_index", name |-> name, cols |-> cols, table |-> Blank,
                            refCols |-> <<>>, expr |-> Blank, act |-> Blank]

\* Mutant: the index of a primary key is taken for one that was declared.
SqliteIndexesWithKeys(cat, t) ==
    ConsOf(cat, t, IndexKinds) \cup {UniqueIndex(x.name, x.cols) : x \in AutoIndexes(cat, t)}

\* PRAGMA index_list.  Only indexes of origin 'pk' are skipped.
SqliteIndexes(cat, t) ==
    ConsOf(cat, t, IndexKinds)
    \cup {UniqueIndex(x.name, x.cols) : x \in {y \in AutoIndexes(cat, t) : y.origin # "pk"}}

\* PRAGMA foreign_key_list has no names: they are made up.
SqliteForeignKeys(cat, t) ==
    LET keys == SetToSeq(ConsOf(cat, t, {"foreign_key"}))
    IN  [i \in DOMAIN keys |-> [keys[i] EXCEPT !.name = "fk_" \o t \o "_" \o ToString(i - 1)]]

\* IntrospectSQLite and liveToSnapshot; CHECKs and views are not read.
LiveSnapshotSQLite(cat) ==
    [EmptySnapshot EXCEPT !.tables =
        [t \in DOMAIN cat.tables |->
            [cols |-> [i \in DOMAIN cat.tables[t].cols |-> IntrospectColumn(cat.tables[t].cols[i])],
             cons |-> SetToSeq(SqliteIndexes(cat, t)) \o SqliteForeignKeys(cat, t),
             prev |-> Blank]]]

--------------------------------------------------------------------------------
(* The migration                                                             *)

\* The changes of MigrateSQLite, PushSQLite and StatusSQLite.
PendingChanges(cat, target) == SQLiteApplyableChanges(Diff(LiveSnapshotSQLite(cat), target))

Init ==
    /\ flow \in {"live", "snapshot"}
    /\ saved = EmptySnapshot /\ new = EmptySnapshot
    /\ \E enforce \in BOOLEAN : catalog = EmptySqlite(enforce)
    /\ before = catalog
    /\ todo = <<>> /\ status = "idle" /\ done = 0

\* The program stores rows in a table that has none.
Insert(t) ==
    /\ status = "idle" /\ t \notin catalog.rows
    /\ catalog' = [catalog EXCEPT !.rows = @ \cup {t}] /\ before' = catalog'
    /\ UNCHANGED <<flow, saved, new, todo, status, done>>

\* PushSQLite and MigrateSQLite take tables only.
Offered == {s \in Schemas : flow = "live" => DOMAIN s.views = {} /\ DOMAIN s.enums = {}}

\* Without changes MigrateSQLite returns AlreadyCurrent.  grizzle diff prints all.
Start(target) ==
    LET changes == IF flow = "live" THEN PendingChanges(catalog, target) ELSE Diff(saved, target)
    IN  /\ done < MaxMigrations
        /\ Evolves(flow, catalog, saved, target)
        /\ new' = target
        /\ todo' = AllChangeSQLSQLite(target, changes)
        /\ status' = IF changes = <<>> THEN "current" ELSE "running"
        /\ UNCHANGED <<flow, saved, catalog, before, done>>

Execute ==
    /\ status = "running" /\ todo # <<>>
    /\ AllowedSQLite(catalog, Head(todo))
    /\ catalog' = EffectSQLite(catalog, Head(todo), done)
    /\ todo' = Tail(todo)
    /\ UNCHANGED <<flow, saved, new, before, status, done>>

\* A statement fails, or the program dies.
Rollback ==
    /\ status = "running"
    /\ catalog' = before /\ new' = saved /\ todo' = <<>> /\ status' = "idle"
    /\ UNCHANGED <<flow, saved, before, done>>

Finish ==
    /\ status \in {"running", "current"} /\ todo = <<>>
    /\ before' = catalog /\ saved' = Saved(new) /\ new' = saved'
    /\ status' = "idle" /\ done' = done + 1
    /\ UNCHANGED <<flow, catalog, todo>>

Next ==
    \/ \E t \in DOMAIN catalog.tables : Insert(t)
    \/ status = "idle" /\ \E target \in Offered : Start(target)
    \/ Execute
    \/ Rollback
    \/ Finish

Spec == Init /\ [][Next]_vars

--------------------------------------------------------------------------------
(* What SQLite can follow in one migration, given the database it has         *)

\* A column is dropped before the indexes over it, and no other constraint can be.
DroppedColumnsUnused(cat, o, n) ==
    \A t \in Kept(o, n) : \A c \in ColNames(o.tables[t]) :
        Heir(o.tables[t], n.tables[Successor(o, n, t)], c) = {} =>
            /\ ~ColOf(cat.tables[t], c).pk /\ \A d \in cat.tables[t].cons : ~Uses(d, c)
            /\ \E k \in ColNames(o.tables[t]) : Heir(o.tables[t], n.tables[Successor(o, n, t)], k) # {}

\* A column that comes later is no key, and rows have a constant to fill it with.
AddedColumnsPlain(cat, o, n) ==
    \A t \in Kept(o, n) : \A c \in ToSet(n.tables[Successor(o, n, t)].cols) :
        LET nt  == n.tables[Successor(o, n, t)]
            def == ColumnDefSQL(c)
        IN  \/ \E k \in ColNames(o.tables[t]) : c.name \in Heir(o.tables[t], nt, k)
            \/ /\ def.keys = 0 /\ ~def.unique
               /\ t \in cat.rows => /\ Literal(def.default)
                                    /\ def.notNull => def.default # Blank
                                    /\ def.ref # <<>> => def.default = Blank

\* A foreign key stays for good: what it refers to may only go with its table.
DroppedTablesUnreferenced(cat, o, n) ==
    \A t \in Dropped(o, n) : \A k \in ForeignKeysTo(cat, t) :
        k.table \in ToSet(SubSeq(Sorted(Dropped(o, n)), 1,
                                SelectInSeq(Sorted(Dropped(o, n)), LAMBDA x : x = t)))

\* The indexes of an old table keep their columns.
IndexesKeepColumns(o, n) ==
    LET Bare(s) == [s EXCEPT !.tables = [t \in DOMAIN @ |-> [@[t] EXCEPT !.cons =
                                          SelectSeq(@, LAMBDA c : c.kind \in IndexKinds)]]]
    IN  NamesKeepColumns(Bare(o), Bare(n)) /\ IndexNamesStay(o, n)

\* Introspection takes the index of a UNIQUE clause for one that can be dropped.
NothingUnique(n) ==
    \A t \in DOMAIN n.tables : /\ \A c \in ToSet(n.tables[t].cols) : ~c.unique
                              /\ \A c \in ToSet(n.tables[t].cons) : c.kind # "unique"

SqliteCompatible(f, cat, o, n) ==
    /\ DroppedColumnsUnused(cat, o, n) /\ AddedColumnsPlain(cat, o, n)
    /\ DroppedTablesUnreferenced(cat, o, n) /\ IndexesKeepColumns(o, n)
    /\ ViewsReadKeptColumns(o, n) /\ NamesFreeInTime(o, n)
    /\ f = "live" => NothingUnique(n)

--------------------------------------------------------------------------------
(* Properties                                                                *)

\* SQLite accepts every statement when its turn comes, whatever SQLite has not been
\* able to follow in the migrations before.  (kit.GenerateChangeSQLSQLite)
StatementsApply == status = "running" /\ todo # <<>> => AllowedSQLite(catalog, Head(todo))

Settled == status # "idle" /\ todo = <<>>

\* A table that was not there is what the code says, in SQLite's types and defaults.
CreatedAsDeclared(t) ==
    LET def  == new.tables[t]
        defs == [i \in DOMAIN def.cols |-> ColumnDefSQL(def.cols[i])]
    IN  /\ [i \in DOMAIN def.cols |-> [catalog.tables[t].cols[i] EXCEPT !.pk = FALSE, !.data = <<>>]]
             = [i \in DOMAIN def.cols |-> SqliteColumn(defs[i], FALSE, <<>>)]
        /\ catalog.tables[t].cons = {Stored(c) : c \in ToSet(def.cons)} \cup ColumnCons(t, defs)

\* A table that was there, as u, has the columns and the indexes of the code; the
\* columns it had are what they were, with what is stored in them.
KeptAsDeclared(u, t) ==
    LET had == before.tables[u]
        has == catalog.tables[t]
        def == new.tables[t]
        Inherited(n) == {c \in ColNames(had) : n \in Heir(had, def, c)}
    IN  /\ ColNames(has) = ColNames(def) /\ Len(has.cols) = Len(def.cols)
        /\ \A n \in ColNames(has) : \A c \in Inherited(n) :
             [ColOf(has, n) EXCEPT !.name = c] = ColOf(had, c)
        /\ \A n \in {m \in ColNames(has) : Inherited(m) = {}} :
             [ColOf(has, n) EXCEPT !.data = <<>>] = SqliteColumn(ColumnDefSQL(ColOf(def, n)), FALSE, <<>>)
        /\ {c \in has.cons : c.kind \in IndexKinds}
             = {Stored(c) : c \in {d \in ToSet(def.cons) : d.kind \in IndexKinds}}
        /\ (t \in catalog.rows) = (u \in before.rows)

\* Migrating to the same schema again would execute nothing.
NothingLeftToRun ==
    LET again == AllChangeSQLSQLite(new, PendingChanges(catalog, new))
    IN  flow = "live" => \A i \in DOMAIN again : again[i].op = "comment"

\* After a migration the database is what the code says as far as SQLite can alter a
\* table: the same tables and views, new ones in full, old ones with the columns
\* and indexes of the code and no row or value lost; and the next call finds
\* nothing more to execute, although introspection reads other types, defaults
\* and names than were declared.  (kit.MigrateSQLite, "applies all necessary DDL
\* changes")
Converges ==
    Settled =>
        /\ DOMAIN catalog.tables = DOMAIN new.tables
        /\ \A t \in Added(before, new) : CreatedAsDeclared(t)
        /\ \A u \in Kept(before, new) : KeptAsDeclared(u, Successor(before, new, u))
        /\ catalog.views = [v \in DOMAIN new.views |-> [on |-> new.views[v].on, uses |-> new.views[v].uses]]
        /\ NothingLeftToRun

================================================================================
