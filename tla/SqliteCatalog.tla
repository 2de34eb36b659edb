------------------------------ MODULE SqliteCatalog ------------------------------
(***************************************************************************)
(* What SQLite does with the statements of SqliteDDL: when it refuses one,  *)
(* and the database it leaves otherwise.  SQLite is not part of the         *)
(* repository; its catalog is kept in the form of PgCatalog, whose effects  *)
(* of renames, views and indexes are the same.  What differs:               *)
(*   - tables, views and indexes share one namespace; IF NOT EXISTS makes   *)
(*     CREATE INDEX do nothing when an index of that name exists anywhere;  *)
(*   - UNIQUE brings an index nobody can drop;                              *)
(*   - a column goes only if nothing but a row uses it, and comes only      *)
(*     without keys and, where there are rows, with a constant to fill in;  *)
(*   - columns and tables can be renamed or dropped only while every view   *)
(*     still resolves, and views are not resolved when they are created;    *)
(*   - dropping a table first deletes its rows, if foreign keys are         *)
(*     enforced: rows that refer to them go too, or forbid it.              *)
(*                                                                          *)
(* catalog.tables : name -> [cols, cons]; columns as in PgCatalog, and pk    *)
(* catalog.views  : name -> [on, uses]                                       *)
(* catalog.rows   : the tables that have rows                                *)
(* catalog.enforce: PRAGMA foreign_keys                                      *)
(***************************************************************************)
EXTENDS SqliteDDL, PgCatalog

EmptySqlite(enforce) == [tables |-> <<>>, views |-> <<>>, rows |-> {}, enforce |-> enforce]

ConsOf(cat, t, kinds) == {c \in cat.tables[t].cons : c.kind \in kinds}

\* The indexes that come with UNIQUE, whatever the clause is called, and with a
\* primary key that is not the row's number; their names are told apart by a column.
AutoIndexes(cat, t) ==
    LET Auto(n, origin) == [name |-> "sqlite_autoindex_" \o t \o "_" \o n, cols |-> <<n>>, origin |-> origin]
    IN  {[Auto(c.cols[1], "u") EXCEPT !.cols = c.cols] : c \in ConsOf(cat, t, {"unique"})}
        \cup {Auto(c.name, "pk") : c \in {d \in ToSet(cat.tables[t].cols) : d.pk /\ d.type # "INTEGER"}}
AutoNames(cat) == {x.name : x \in UNION {AutoIndexes(cat, t) : t \in DOMAIN cat.tables}}
NamedIndexes(cat) ==
    UNION {{c.name : c \in ConsOf(cat, t, IndexKinds)} : t \in DOMAIN cat.tables}

ViewsResolve(cat) ==
    \A v \in DOMAIN cat.views : \A n \in cat.views[v].uses : HasColumn(cat, cat.views[v].on, n)

\* DEFAULT takes a literal or a keyword; a call needs parentheses around it.
Calls == {"randomblob()"}
Literal(default) == default \notin {"CURRENT_TIMESTAMP"} \cup Calls

UniqueCon(col) == [kind |-> "unique", name |-> Blank, cols |-> <<col.name>>, table |-> Blank,
                   refCols |-> <<>>, expr |-> Blank, act |-> Blank]
\* What a table keeps of the clauses of its columns.
ColumnCons(t, cols) ==
    InlineKeys(t, cols) \cup {UniqueCon(cols[i]) : i \in {j \in DOMAIN cols : cols[j].unique}}
SqliteColumn(col, pk, data) ==
    [name |-> col.name, type |-> col.type, notNull |-> col.notNull, default |-> col.default,
     pk |-> pk, data |-> data]

\* The columns a constraint cannot do without.  The expr of a check is the column
\* it is about.
Uses(c, n) == n \in ToSet(c.cols) \/ (c.kind = "check" /\ c.expr = n)

\* Other tables whose rows refer to rows of t and may not, or must, go with them.
\* (References to references are left out.)
Referring(cat, t, acts) ==
    {k.table : k \in {r \in ForeignKeysTo(cat, t) : r.con.act \in acts}}
        \cap IF t \in cat.rows THEN cat.rows \ {t} ELSE {}

AllowedSQLite(cat, s) ==
    LET Exists       == s.table \in DOMAIN cat.tables
        Objects      == DOMAIN cat.tables \cup DOMAIN cat.views
        Indexes      == NamedIndexes(cat) \cup AutoNames(cat)
        own          == cat.tables[s.table]
        primary(con) == con.kind = "primary_key"
        KeyClauses   == FoldLeft(LAMBDA n, c : n + c.keys, Len(SelectSeq(s.cons, primary)), s.cols)
        Names        == {s.cols[i].name : i \in DOMAIN s.cols}
    IN  CASE s.op = "comment" -> TRUE
          [] s.op = "create_table" ->
              /\ s.table \notin Indexes
              /\ KeyClauses <= 1 /\ \A i \in DOMAIN s.cols : s.cols[i].default \notin Calls
              /\ \A i \in DOMAIN s.cons : ToSet(s.cons[i].cols) \subseteq Names
          [] s.op = "create_index" ->
              /\ s.con.name \notin Objects
              /\ Exists /\ ToSet(s.con.cols) \subseteq ColNames(own)
          [] s.op = "drop_index" -> s.name \notin AutoNames(cat)
          [] s.op = "drop_table" ->
              /\ s.table \notin DOMAIN cat.views
              /\ cat.enforce /\ Exists => Referring(cat, s.table, {"NO ACTION", "RESTRICT"}) = {}
          [] s.op = "rename_table" ->
              Exists /\ s.to \notin Objects \cup Indexes /\ ViewsResolve(cat)
          [] s.op = "add_column" ->
              /\ Exists /\ s.col.name \notin ColNames(own)
              /\ s.col.keys = 0 /\ ~s.col.unique /\ s.col.default \notin Calls
              /\ s.table \in cat.rows =>
                   /\ s.col.notNull => s.col.default # Blank
                   /\ Literal(s.col.default)
                   /\ cat.enforce /\ s.col.ref # <<>> => s.col.default = Blank
          [] s.op = "drop_column" ->
              /\ HasColumn(cat, s.table, s.col.name) /\ Len(own.cols) > 1
              /\ ~ColOf(own, s.col.name).pk
              /\ \A c \in own.cons : ~Uses(c, s.col.name)
              /\ Readers(cat, s.table, s.col.name) = {} /\ ViewsResolve(cat)
          [] s.op = "rename_column" ->
              HasColumn(cat, s.table, s.from) /\ s.to \notin ColNames(own) /\ ViewsResolve(cat)
          [] s.op = "create_view" -> s.name \notin Objects \cup Indexes
          [] s.op = "drop_view"   -> s.name \notin DOMAIN cat.tables

\* The database after s, data naming what new columns will store.
EffectSQLite(cat, s, data) ==
    LET Table(t)      == [cat EXCEPT !.tables = With(cat.tables, s.table, t)]
        own           == cat.tables[s.table]
        key(n)        == \E i \in DOMAIN s.cons : s.cons[i].kind = "primary_key" /\ n \in ToSet(s.cons[i].cols)
        New(col, pk)  == SqliteColumn(col, pk, <<s.table, col.name, data>>)
    IN  CASE s.op = "comment" -> cat
          [] s.op = "create_table" ->
              IF s.table \in DOMAIN cat.tables \cup DOMAIN cat.views THEN cat
              ELSE Table([cols |-> [i \in DOMAIN s.cols |->
                                        New(s.cols[i], s.cols[i].keys > 0 \/ key(s.cols[i].name))],
                          cons |-> {Stored(c) : c \in ToSet(s.cons)} \cup ColumnCons(s.table, s.cols)])
          [] s.op = "create_index" ->
              IF s.con.name \in NamedIndexes(cat) THEN cat ELSE Effect(cat, s, data)
          [] s.op = "drop_table" ->
              LET gone == IF cat.enforce THEN Referring(cat, s.table, {"CASCADE"}) ELSE {}
              IN  [Effect(cat, s, data) EXCEPT !.rows = @ \ ({s.table} \cup gone)]
          [] s.op = "rename_table" ->
              [Effect(cat, s, data) EXCEPT !.rows = ToSet(Swap(SetToSeq(@), s.table, s.to))]
          [] s.op = "add_column" ->
              Table([cols |-> Append(own.cols, New(s.col, FALSE)),
                     cons |-> own.cons \cup ColumnCons(s.table, <<s.col>>)])
          [] s.op = "rename_column" ->
              LET to(e) == IF e = s.from THEN s.to ELSE e
                  cat2  == Effect(cat, s, data)
              IN  [cat2 EXCEPT !.tables[s.table].cons =
                      {IF c.kind = "check" THEN [c EXCEPT !.expr = to(@)] ELSE c : c \in @}]
          [] OTHER -> Effect(cat, s, data)

================================================================================
