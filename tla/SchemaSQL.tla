-------------------------------- MODULE SchemaSQL --------------------------------
(***************************************************************************)
(* kit.GenerateChangeSQL for PostgreSQL: the DDL statements of one change.  *)
(* A statement is a record whose field op says what it does; its text is    *)
(* not modelled, what the database makes of it is (PgCatalog).              *)
(***************************************************************************)
EXTENDS SchemaDiff

IndexKinds == {"index", "unique_index"}

\* indexSQL of every index; CREATE INDEX has no IF NOT EXISTS.
CreateIndex(t, c) == <<[op |-> "create_index", table |-> t, con |-> c]>>

\* createTableSQL and the indexes that follow it.
CreateTable(t, snap) ==
    LET cons == snap.tables[t].cons
    IN  <<[op |-> "create_table", table |-> t, cols |-> snap.tables[t].cols,
           cons |-> FlatMap(LAMBDA c : When(c.kind \notin IndexKinds, <<c>>), cons)]>>
        \o FlatMap(LAMBDA c : When(c.kind \in IndexKinds, CreateIndex(t, c)), cons)

\* There is no statement for a primary key.
AddConstraint(t, c) ==
    IF c.kind \in IndexKinds THEN CreateIndex(t, c)
    ELSE When(c.kind # "primary_key", <<[op |-> "add_constraint", table |-> t, con |-> c]>>)

\* Both forms are IF EXISTS.
DropConstraint(t, c) ==
    IF c.kind \in IndexKinds THEN <<[op |-> "drop_index", name |-> c.name]>>
    ELSE <<[op |-> "drop_constraint", table |-> t, name |-> c.name]>>

\* Removed and reordered labels become comments, which execute as nothing.
AlterEnum(e, old, new) ==
    LET added == EnumAddedValues(old, new)
    IN  [i \in DOMAIN added |-> [op |-> "add_value", type |-> e, value |-> added[i].value,
                                 after |-> added[i].after, before |-> added[i].before]]

GenerateChangeSQL(snap, c) ==
    LET t == c.object
        DropView         == <<[op |-> "drop_view", name |-> t]>>
        CreateView(repl) == <<[op |-> "create_view", name |-> t, view |-> c.view, replace |-> repl]>>
        Column(op)       == <<[op |-> op, table |-> t, col |-> c.col]>>
    IN  CASE c.kind = "create_table"          -> CreateTable(t, snap)
          [] c.kind = "drop_table"            -> <<[op |-> "drop_table", table |-> t]>>
          [] c.kind = "rename_table"          -> <<[op |-> "rename_table", table |-> t, to |-> c.target]>>
          [] c.kind = "rename_column"         -> <<[op |-> "rename_column", table |-> t,
                                                    from |-> c.old, to |-> c.col.name]>>
          [] c.kind = "add_constraint"        -> AddConstraint(t, c.con)
          [] c.kind = "drop_constraint"       -> DropConstraint(t, c.con)
          [] c.kind = "create_view"           -> CreateView(TRUE)
          [] c.kind = "replace_view"          -> DropView \o CreateView(FALSE)
          [] c.kind = "drop_view"             -> DropView
          [] c.kind = "create_enum"           -> <<[op |-> "create_type", name |-> t, labels |-> c.new]>>
          [] c.kind = "alter_enum"            -> AlterEnum(t, c.old, c.new)
          [] c.kind = "drop_enum"             -> <<[op |-> "drop_type", name |-> t]>>
          [] OTHER                            -> Column(c.kind)

AllChangeSQL(snap, changes) == FlatMap(LAMBDA c : GenerateChangeSQL(snap, c), changes)

================================================================================
