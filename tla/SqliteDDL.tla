-------------------------------- MODULE SqliteDDL --------------------------------
(***************************************************************************)
(* kit.GenerateChangeSQLSQLite: the DDL statements of one change, what      *)
(* becomes of types and defaults on the way, and which changes are left     *)
(* out.  What SQLite cannot do is emitted as a comment.                     *)
(*                                                                          *)
(* Columns have two fields more than in SchemaDiff, pk and unique.  The     *)
(* default "auto" is that of a serial column: there is one, without an      *)
(* expression (HasDefault, DefaultExpr empty).                              *)
(***************************************************************************)
EXTENDS SchemaSQL

Comment(about) == <<[op |-> "comment", about |-> about]>>

IsSerialType(type) == type \in {"serial", "bigserial"}

\* Unknown types, those of enums among them, are kept as they are.
SqliteType(type) ==
    CASE type \in {"serial", "bigserial", "integer", "boolean"} -> "INTEGER"
      [] type \in {"text", "uuid", "timestamptz"}               -> "TEXT"
      [] OTHER                                                  -> type

\* Untranslatable defaults become empty, casts are cut off.
SqliteDefaultExpr(default) ==
    CASE default = "now()"                    -> "CURRENT_TIMESTAMP"
      [] default \in {"gen_random_uuid()", "auto"} -> Blank
      [] default = "true"                     -> "1"
      [] default = "false"                    -> "0"
      [] default = "'x'::text"                -> "'x'"
      [] OTHER                                -> default

\* keys counts the PRIMARY KEY clauses: the type of a serial column brings its own.
ColumnDefSQL(col) ==
    [name    |-> col.name,
     type    |-> SqliteType(col.type),
     keys    |-> IF IsSerialType(col.type) \/ col.pk THEN 1 ELSE 0,
     notNull |-> col.notNull /\ ~col.pk,
     default |-> IF IsSerialType(col.type) THEN Blank ELSE SqliteDefaultExpr(col.default),
     unique  |-> col.unique /\ ~col.pk,
     ref     |-> col.ref]

\* CREATE [UNIQUE] INDEX IF NOT EXISTS.
IndexSQL(t, con) == <<[op |-> "create_index", table |-> t, con |-> con]>>

\* Mutant: the indexes of a new table are not created with it.
CreateTableWithoutIndexes(t, snap) ==
    <<[op |-> "create_table", table |-> t,
       cols |-> [i \in DOMAIN snap.tables[t].cols |-> ColumnDefSQL(snap.tables[t].cols[i])],
       cons |-> SelectSeq(snap.tables[t].cons, LAMBDA c : c.kind \notin IndexKinds)]>>

\* CREATE TABLE IF NOT EXISTS, with every constraint inside, and the indexes.
CreateTableSQL(t, snap) ==
    LET def == snap.tables[t]
    IN  <<[op   |-> "create_table", table |-> t,
           cols |-> [i \in DOMAIN def.cols |-> ColumnDefSQL(def.cols[i])],
           cons |-> SelectSeq(def.cons, LAMBDA c : c.kind \notin IndexKinds)]>>
        \o FlatMap(LAMBDA c : When(c.kind \in IndexKinds, IndexSQL(t, c)), def.cons)

\* Only indexes can come and go.
AddConstraintSQL(t, con) ==
    IF con.kind \in IndexKinds THEN IndexSQL(t, con) ELSE Comment("add_constraint")

DropConstraintSQL(t, con) ==
    IF con.kind \in IndexKinds THEN <<[op |-> "drop_index", name |-> con.name]>>
    ELSE Comment("drop_constraint")

GenerateChangeSQLSQLite(snap, c) ==
    LET t        == c.object
        DropView == <<[op |-> "drop_view", name |-> t]>>
    IN  CASE c.kind = "create_table"    -> CreateTableSQL(t, snap)
          [] c.kind = "drop_table"      -> <<[op |-> "drop_table", table |-> t]>>
          [] c.kind = "rename_table"    -> <<[op |-> "rename_table", table |-> t, to |-> c.target]>>
          [] c.kind = "add_column"      -> <<[op |-> "add_column", table |-> t, col |-> ColumnDefSQL(c.col)]>>
          [] c.kind = "drop_column"     -> <<[op |-> "drop_column", table |-> t, col |-> c.col]>>
          [] c.kind = "rename_column"   -> <<[op |-> "rename_column", table |-> t,
                                              from |-> c.old, to |-> c.col.name]>>
          [] c.kind = "add_constraint"  -> AddConstraintSQL(t, c.con)
          [] c.kind = "drop_constraint" -> DropConstraintSQL(t, c.con)
          [] c.kind \in {"create_view", "replace_view"} ->
                DropView \o <<[op |-> "create_view", name |-> t, view |-> c.view]>>
          [] c.kind = "drop_view"       -> DropView
          \* ALTER COLUMN, and enums.
          [] OTHER                      -> Comment(c.kind)

AllChangeSQLSQLite(snap, changes) ==
    FlatMap(LAMBDA c : GenerateChangeSQLSQLite(snap, c), changes)

\* What would need the table to be rebuilt is taken out, so that it does not make
\* a migration; other changes that SQLite cannot make stay in.
SQLiteApplyableChanges(changes) ==
    LET Applyable(c) ==
            /\ c.kind \notin {"alter_column_type", "alter_column_nullable"}
            /\ c.kind = "alter_column_default" =>
                 c.col.default # Blank /\ SqliteDefaultExpr(c.col.default) # Blank
    IN  SelectSeq(changes, Applyable)

================================================================================
