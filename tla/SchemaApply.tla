------------------------------- MODULE SchemaApply -------------------------------
(***************************************************************************)
(* One PostgreSQL database and the successive schemas of the program that   *)
(* uses it.  A migration diffs a baseline with the schema in the code,      *)
(* generates the statements and runs them in one transaction.  The baseline *)
(* is the snapshot file written after the last migration (grizzle snapshot, *)
(* grizzle diff), or what introspection reads in the database (kit.Push,    *)
(* kit.Migrate).                                                            *)
(***************************************************************************)
EXTENDS PgCatalog, Evolution

CONSTANTS
    Schemas,             \* the snapshots the code may define
    Evolves(_, _, _, _), \* which schema may follow which, by flow and migrations done (see Compatible)
    MaxMigrations        \* bound on the committed migrations

ASSUME MigrationsAssumption == MaxMigrations \in Nat

\* What a snapshot is; an enum has labels, none of them empty (CreateEnum panics), and
\* none twice, which the database refuses.
SnapshotShape(s) ==
    /\ DOMAIN s = {"tables", "views", "enums"}
    /\ DOMAIN s.tables \cup DOMAIN s.views \cup DOMAIN s.enums \subseteq ToSet(Alphabet)
    /\ \A t \in DOMAIN s.tables :
         /\ DOMAIN s.tables[t] = {"cols", "cons", "prev"}
         /\ s.tables[t].cols \in Seq(ToSet(s.tables[t].cols))
         /\ s.tables[t].cons \in Seq(ToSet(s.tables[t].cons))
         /\ \A c \in ToSet(s.tables[t].cols) : DOMAIN c = {"name", "type", "notNull", "default", "ref", "prev"}
         /\ \A c \in ToSet(s.tables[t].cons) :
              DOMAIN c = {"kind", "name", "cols", "table", "refCols", "expr", "act"}
    /\ \A v \in DOMAIN s.views : DOMAIN s.views[v] = {"on", "uses", "semi"}
    /\ \A e \in DOMAIN s.enums :
         /\ s.enums[e] \in Seq(ToSet(s.enums[e]) \ {Blank}) /\ s.enums[e] # <<>>
         /\ \A i, j \in DOMAIN s.enums[e] : s.enums[e][i] = s.enums[e][j] => i = j

ASSUME SchemasAssumption ==
    Alphabet \in Seq(ToSet(Alphabet)) /\ \A s \in Schemas : SnapshotShape(s)

VARIABLES
    flow,      \* "snapshot" or "live": where the baseline comes from
    saved,     \* the snapshot of the last migrated schema, as LoadJSON gives it
    new,       \* the schema of the open transaction, else that of the last one
    catalog,   \* the database
    before,    \* the database without the open transaction
    todo,      \* the statements left to run
    status,    \* "idle", "running" (a transaction is open)
    done       \* committed migrations
vars == <<flow, saved, new, catalog, before, todo, status, done>>

--------------------------------------------------------------------------------
(* Introspection                                                             *)

\* PostgreSQL reports NOT NULL of a column among the check constraints.
NotNullCheck(n) == [kind |-> "check", name |-> n \o "_not_null", cols |-> <<>>,
                    table |-> Blank, refCols |-> <<>>, expr |-> n \o " IS NOT NULL", act |-> Blank]

ByName(cons) == LET names == SetToSeq({c.name : c \in cons})
                IN  FlatMap(LAMBDA n : SetToSeq({c \in cons : c.name = n}), names)

\* queryIndexes: any unique index is a unique_index; queryCheckConstraints: no
\* columns; queryForeignKeys; primary keys are skipped by the name of their index.
IntrospectTable(t) ==
    LET Of(kinds) == {c \in t.cons : c.kind \in kinds}
        indexes   == {[c EXCEPT !.kind = IF @ = "index" THEN @ ELSE "unique_index"]
                      : c \in Of(IndexKinds \cup {"unique"})}
        checks    == {[c EXCEPT !.cols = <<>>] : c \in Of({"check"})}
                     \cup {NotNullCheck(t.cols[i].name) : i \in {j \in DOMAIN t.cols : t.cols[j].notNull}}
        Col(c)    == [name |-> c.name, type |-> c.type, notNull |-> c.notNull,
                      default |-> c.default, ref |-> <<>>, prev |-> Blank]
    IN  [cols |-> [i \in DOMAIN t.cols |-> Col(t.cols[i])], prev |-> Blank,
         cons |-> ByName(indexes) \o ByName(checks) \o ByName(Of({"foreign_key"}))]

\* liveToSnapshot: views and enums are not this flow's business.
LiveSnapshot(cat) ==
    [EmptySnapshot EXCEPT !.tables = [t \in DOMAIN cat.tables |-> IntrospectTable(cat.tables[t])]]

Baseline == IF flow = "live" THEN LiveSnapshot(catalog) ELSE saved

--------------------------------------------------------------------------------
(* Migrations                                                                *)

Init ==
    /\ flow \in {"snapshot", "live"}
    /\ saved = EmptySnapshot /\ new = EmptySnapshot
    /\ catalog = EmptyCatalog /\ before = EmptyCatalog
    /\ todo = <<>> /\ status = "idle" /\ done = 0

\* Push and Migrate take tables only.
Offered == {s \in Schemas : flow = "live" => DOMAIN s.views = {} /\ DOMAIN s.enums = {}}

\* The migration of the schema now in the code.
Start(target) ==
    /\ done < MaxMigrations
    /\ Evolves(flow, done, saved, target)
    /\ new' = target
    /\ todo' = AllChangeSQL(target, Diff(Baseline, target))
    /\ status' = "running"
    /\ UNCHANGED <<flow, saved, catalog, before, done>>

\* Mutant: what is left of the failed batch stays queued.
RollbackKeepsQueue ==
    /\ status = "running" /\ todo # <<>>
    /\ catalog' = before /\ new' = saved /\ status' = "idle"
    /\ UNCHANGED <<flow, saved, before, todo, done>>

Execute ==
    /\ status = "running" /\ todo # <<>>
    /\ Allowed(catalog, Head(todo))
    /\ catalog' = Effect(catalog, Head(todo), done)
    /\ todo' = Tail(todo)
    /\ UNCHANGED <<flow, saved, new, before, status, done>>

\* A statement fails (on the rows, on a lock, on the connection) or the program dies.
Rollback ==
    /\ status = "running" /\ todo # <<>>
    /\ catalog' = before /\ new' = saved /\ todo' = <<>> /\ status' = "idle"
    /\ UNCHANGED <<flow, saved, before, done>>

Commit ==
    /\ status = "running" /\ todo = <<>>
    /\ catalog' = [catalog EXCEPT !.fresh = {}] /\ before' = catalog'
    /\ saved' = Saved(new) /\ new' = saved'
    /\ status' = "idle" /\ done' = done + 1
    /\ UNCHANGED <<flow, todo>>

Next ==
    \/ status = "idle" /\ \E target \in Offered : Start(target)
    \/ Execute
    \/ Rollback
    \/ Commit

Spec == Init /\ [][Next]_vars

--------------------------------------------------------------------------------
\* The columns of a table that foreign keys use, from it or to it.
KeyColumns(s, t) ==
    LET Keys(u) == {c \in ToSet(s.tables[u].cons) : c.kind = "foreign_key"}
        Refs(u) == {c \in ToSet(s.tables[u].cols) : c.ref # <<>>}
    IN  UNION {ToSet(c.cols) : c \in Keys(t)} \cup {c.name : c \in Refs(t)}
        \cup UNION {UNION {ToSet(c.refCols) : c \in {d \in Keys(u) : d.table = t}}
                    \cup {c.ref[2] : c \in {d \in Refs(u) : d.ref[1] = t}} : u \in DOMAIN s.tables}

\* A column gets another type only where PostgreSQL converts what is stored by itself, and
\* no foreign key of before or after uses it.
TypesConvert(o, n) ==
    \A t \in Kept(o, n) : \A c \in ColNames(o.tables[t]) :
        LET u   == Successor(o, n, t)
            was == ColOf(o.tables[t], c).type
        IN  \A h \in Heir(o.tables[t], n.tables[u], c) :
              LET is == ColOf(n.tables[u], h).type
              IN  is # was => Converts(was, is) /\ c \notin KeyColumns(o, t) /\ h \notin KeyColumns(n, u)

\* What this database can follow in one migration.
Compatible(f, o, n) ==
    /\ LabelsSettled(o, n) /\ ViewsReadKeptColumns(o, n) /\ NamesFreeInTime(o, n)
    /\ DropsInNameOrder(o, n) /\ ColumnRefsKept(o, n) /\ NamesKeepColumns(o, n) /\ IndexNamesStay(o, n)
    /\ KeysKept(f, o, n) /\ KeysReferToOldColumns(o, n) /\ TypesConvert(o, n)

\* A schema that a database can hold: no two columns of a table and no table and view
\* share a name, and a view reads what a table has.
Creatable(s) ==
    /\ \A t \in DOMAIN s.tables : \A i, j \in DOMAIN s.tables[t].cols :
         s.tables[t].cols[i].name = s.tables[t].cols[j].name => i = j
    /\ DOMAIN s.tables \cap DOMAIN s.views = {}
    /\ \A v \in DOMAIN s.views :
         /\ s.views[v].on \in DOMAIN s.tables
         /\ s.views[v].uses \subseteq ColNames(s.tables[s.views[v].on])

\* No table has the name of an index: CREATE TABLE IF NOT EXISTS passes over a name that
\* any relation has, and says nothing.
IndexNamesApart ==
    \A s, n \in Schemas : \A t \in DOMAIN s.tables : \A c \in ToSet(s.tables[t].cons) :
        c.kind \in IndexKinds \cup {"unique"} => c.name \notin DOMAIN n.tables

\* Nor that of a view of the schema before, which is dropped later.
ViewNamesApart ==
    \A o \in {EmptySnapshot} \cup {Saved(s) : s \in Schemas}, n \in Schemas :
        DOMAIN n.tables \cap DOMAIN o.views # {} =>
            \A f \in {"snapshot", "live"}, d \in 0..MaxMigrations : ~Evolves(f, d, o, n)

\* What the database must be able to follow for tables and views to become those of the code.
TablesFollow == (\A s \in Schemas : Creatable(s)) /\ IndexNamesApart /\ ViewNamesApart

--------------------------------------------------------------------------------
(* Properties                                                                *)

\* Types; no table gets two columns of one name, and statements wait only in an open
\* transaction.
TypeOK ==
    /\ flow \in {"snapshot", "live"} /\ status \in {"idle", "running"}
    /\ done \in 0..MaxMigrations
    /\ saved \in {EmptySnapshot} \cup {Saved(s) : s \in Schemas}
    /\ new \in {EmptySnapshot} \cup Schemas \cup {Saved(s) : s \in Schemas}
    /\ \A t \in DOMAIN catalog.tables : \A i, j \in DOMAIN catalog.tables[t].cols :
         i # j => catalog.tables[t].cols[i].name # catalog.tables[t].cols[j].name
    /\ todo # <<>> => status = "running"

\* The database accepts every statement when its turn comes.  Diff's phases are
\* there for this: whatever a statement names exists, under that name, and no name
\* is taken twice.
StatementsApply == status = "running" /\ todo # <<>> => Allowed(catalog, Head(todo))

\* The catalog of a schema, but for the data: what a migration is for.
Wanted(t, def) ==
    [cols |-> {[name |-> c.name, type |-> c.type, notNull |-> c.notNull, default |-> c.default]
               : c \in ToSet(def.cols)},
     cons |-> {Stored(c) : c \in ToSet(def.cons)},
     keys |-> {<<c.name, c.ref>> : c \in {d \in ToSet(def.cols) : d.ref # <<>>}}]
Found(t, tab, def) ==
    LET inline(c) == InlineRef(def, c) /\ c \notin {Stored(d) : d \in ToSet(def.cons)}
    IN  [cols |-> {[name |-> c.name, type |-> c.type, notNull |-> c.notNull, default |-> c.default]
                   : c \in ToSet(tab.cols)},
         cons |-> {c \in tab.cons : ~inline(c)},
         keys |-> {<<c.cols[1], <<c.table, c.refCols[1]>>>> : c \in {d \in tab.cons : inline(d)}}]

\* After a migration the tables, their columns and the views are those of the code:
\* nothing it says is missing, nothing else is left.  (kit.Diff, kit.AllChangeSQL)
TablesConverge ==
    status = "running" /\ todo = <<>> =>
        /\ DOMAIN catalog.tables = DOMAIN new.tables
        /\ \A t \in DOMAIN new.tables :
             Found(t, catalog.tables[t], new.tables[t]).cols = Wanted(t, new.tables[t]).cols
        /\ catalog.views = [v \in DOMAIN new.views |-> [on |-> new.views[v].on, uses |-> new.views[v].uses]]

\* So are their constraints, and every foreign key refers to what the code says under
\* the names of now.  (kit.Diff, kit.AllChangeSQL)
ConstraintsConverge ==
    status = "running" /\ todo = <<>> =>
        \A t \in DOMAIN new.tables :
          LET found  == Found(t, catalog.tables[t], new.tables[t])
              wanted == Wanted(t, new.tables[t])
          IN  found.cons = wanted.cons /\ found.keys = wanted.keys

\* After a migration the database is that of the code, but for the data and the enums.
Converges == TablesConverge /\ ConstraintsConverge

\* The labels the last schema had given up and the database, which cannot drop one, kept.
Leftover(e) == ToSet(before.enums[e]) \ ToSet(saved.enums[e])

\* An enum whose labels the database had in the same order, some of them, ends with
\* exactly the labels of the code in the order of the code, wherever the new ones
\* stand; in any case it has them all.  Only a new first label may come to stand
\* behind labels that the database kept and the snapshot does not show: it is anchored
\* to one of the snapshot.  (enumAddedValues, IF NOT EXISTS)
EnumsConverge ==
    status = "running" /\ todo = <<>> =>
        /\ DOMAIN catalog.enums = DOMAIN new.enums
        /\ \A e \in DOMAIN new.enums :
             /\ ToSet(new.enums[e]) \subseteq ToSet(catalog.enums[e])
             /\ \/ catalog.enums[e] = new.enums[e]
                \/ /\ e \in DOMAIN before.enums
                   /\ \/ EnumDrift(before.enums[e], new.enums[e])
                      \/ new.enums[e][1] \notin ToSet(before.enums[e]) /\ Leftover(e) # {}

\* The new tables, and the new columns of a table, that were called otherwise before.
TablesNamedBefore(t) == {u \in DOMAIN new.tables \ DOMAIN before.tables : new.tables[u].prev = t}
ColumnsNamedBefore(t, u, n) ==
    {i \in DOMAIN new.tables[u].cols : /\ new.tables[u].cols[i].prev = n
                                       /\ new.tables[u].cols[i].name \notin ColNames(before.tables[t])}

\* What an annotated rename announces keeps what is stored: a column that the code
\* still has, in the table or the table renamed from it, under its name or one that
\* names it as its previous one, holds the data it held.  Where several claim one, the
\* first table by name and the first column in the order of the code have it.
\* (PreviousName; kit/diff.go:72-78)
DataKept ==
    LET SameTable(t, u) ==
            \/ u = t
            \/ /\ t \notin DOMAIN new.tables /\ u \in TablesNamedBefore(t)
               /\ u = Head(Sorted(TablesNamedBefore(t)))
        SameColumn(t, u, c, d) ==
            \/ d.name = c.name
            \/ /\ c.name \notin ColNames(new.tables[u])
               /\ \E i \in ColumnsNamedBefore(t, u, c.name) :
                    i = Min(ColumnsNamedBefore(t, u, c.name)) /\ d = new.tables[u].cols[i]
    IN  status = "running" /\ todo = <<>> =>
          \A t \in DOMAIN before.tables, u \in DOMAIN new.tables : SameTable(t, u) =>
            \A c \in ToSet(before.tables[t].cols), d \in ToSet(new.tables[u].cols) :
              SameColumn(t, u, c, d) => ColOf(catalog.tables[u], d.name).data = c.data

\* "Calling Migrate twice with an unchanged schema is a no-op" (kit.Migrate): once a
\* migration of the live flow is done, diffing again finds nothing to change.
RerunIsNoop ==
    flow = "live" /\ status = "running" /\ todo = <<>> =>
        Diff(LiveSnapshot(catalog), new) = <<>>

================================================================================
