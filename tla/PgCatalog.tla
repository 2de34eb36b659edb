-------------------------------- MODULE PgCatalog --------------------------------
(***************************************************************************)
(* What PostgreSQL does with the statements of SchemaSQL: when it refuses   *)
(* one, and the catalog it leaves otherwise.  The server is not part of the *)
(* repository; this module keeps what the generated migrations depend on:   *)
(* the two namespaces (relations and types), what a view, a foreign key or  *)
(* a column type depends on, what a rename carries along and what a dropped *)
(* column takes with it.                                                    *)
(*                                                                          *)
(* catalog.tables : name -> [cols : Seq of columns, cons : set]             *)
(*   column       : [name, type, notNull, default, data], data being the    *)
(*                  identity of what is stored in it                        *)
(* catalog.views  : name -> [on, uses]                                      *)
(* catalog.enums  : name -> sequence of labels                              *)
(* catalog.fresh  : the labels this transaction added, unusable before its  *)
(*                  commit                                                  *)
(***************************************************************************)
EXTENDS SchemaSQL

BaseTypes == {"integer", "text"}

EmptyCatalog == [tables |-> <<>>, views |-> <<>>, enums |-> <<>>, fresh |-> {}]

Without(f, n)   == [m \in DOMAIN f \ {n} |-> f[m]]
With(f, n, v)   == [m \in DOMAIN f \cup {n} |-> IF m = n THEN v ELSE f[m]]
WithCons(t, S)  == [t EXCEPT !.cons = S]
Swap(S, a, b)   == [i \in DOMAIN S |-> IF S[i] = a THEN b ELSE S[i]]

\* Constraints that bring an index of their name.
IndexNames(cat) ==
    UNION {{c.name : c \in {d \in cat.tables[t].cons : d.kind \in IndexKinds \cup {"unique"}}}
           : t \in DOMAIN cat.tables}
Relations(cat) == DOMAIN cat.tables \cup DOMAIN cat.views \cup IndexNames(cat)
TypeNames(cat) == DOMAIN cat.tables \cup DOMAIN cat.views \cup DOMAIN cat.enums

HasColumn(cat, t, n) == t \in DOMAIN cat.tables /\ n \in ColNames(cat.tables[t])

\* Views whose query reads the column.
Readers(cat, t, n) == {v \in DOMAIN cat.views : cat.views[v].on = t /\ n \in cat.views[v].uses}
\* Foreign keys of any table that refer to t.
ForeignKeysTo(cat, t) ==
    UNION {{[table |-> u, con |-> c] : c \in {d \in cat.tables[u].cons :
                                                d.kind = "foreign_key" /\ d.table = t}}
           : u \in DOMAIN cat.tables}

\* A type exists, and so does the default if it is a label; a label added in this
\* transaction is not safe to use yet.
GoodType(cat, ty)   == ty \in BaseTypes \cup DOMAIN cat.enums
GoodDefault(cat, c) ==
    c.type \in DOMAIN cat.enums /\ c.default # Blank =>
        c.default \in ToSet(cat.enums[c.type]) /\ <<c.type, c.default>> \notin cat.fresh

\* ALTER COLUMN TYPE is generated without USING: PostgreSQL then converts what is stored
\* and the default by an assignment cast, which among these types leads to text only.
Converts(from, to) == to \in {from, "text"}
\* A foreign key is made anew when one of its columns changes its type, and the other column
\* still has the old one.
InForeignKey(cat, t, n) ==
    \/ \E c \in cat.tables[t].cons : c.kind = "foreign_key" /\ n \in ToSet(c.cols)
    \/ \E k \in ForeignKeysTo(cat, t) : n \in ToSet(k.con.refCols)

\* The foreign key a column declares itself, under the name PostgreSQL gives it.
InlineKey(t, col) ==
    [kind |-> "foreign_key", name |-> t \o "_" \o col.name \o "_fkey", cols |-> <<col.name>>,
     table |-> col.ref[1], refCols |-> <<col.ref[2]>>, expr |-> Blank, act |-> "NO ACTION"]
InlineKeys(t, cols) == {InlineKey(t, cols[i]) : i \in {j \in DOMAIN cols : cols[j].ref # <<>>}}

\* The columns of the table and what it refers to exist; a self-reference is fine.  That a
\* foreign key refers to unique columns of its own types is left to who writes the schema.
GoodConstraint(cat, t, colNames, c) ==
    /\ ToSet(c.cols) \subseteq colNames
    /\ c.kind = "foreign_key" =>
        \/ c.table = t /\ ToSet(c.refCols) \subseteq colNames
        \/ \A i \in DOMAIN c.refCols : HasColumn(cat, c.table, c.refCols[i])
    /\ c.kind \in IndexKinds \cup {"unique"} => c.name \notin Relations(cat)

\* A table-level constraint as the catalog keeps it.
Stored(c) == [c EXCEPT !.act = NormFKAction(@)]
Column(col, data) == [name |-> col.name, type |-> col.type, notNull |-> col.notNull,
                      default |-> col.default, data |-> data]

--------------------------------------------------------------------------------
\* The server executes s.
Allowed(cat, s) ==
    LET Exists      == s.table \in DOMAIN cat.tables
        NamesFree(n) == n \notin Relations(cat) \cup TypeNames(cat)
        Names(cols) == {cols[i].name : i \in DOMAIN cols}
    IN  CASE s.op = "create_table" ->
              s.table \in Relations(cat) \/
                /\ s.table \notin TypeNames(cat)
                /\ \A i, j \in DOMAIN s.cols : s.cols[i].name = s.cols[j].name => i = j
                /\ \A i \in DOMAIN s.cols : GoodType(cat, s.cols[i].type) /\ GoodDefault(cat, s.cols[i])
                /\ \A c \in ToSet(s.cons) \cup InlineKeys(s.table, s.cols) :
                     GoodConstraint(cat, s.table, Names(s.cols), c)
          [] s.op = "create_index" ->
              Exists /\ GoodConstraint(cat, s.table, ColNames(cat.tables[s.table]), s.con)
          [] s.op = "drop_table" ->
              Exists => /\ \A v \in DOMAIN cat.views : cat.views[v].on # s.table
                        /\ \A k \in ForeignKeysTo(cat, s.table) : k.table = s.table
          [] s.op = "rename_table" -> Exists /\ NamesFree(s.to)
          [] s.op = "add_column" ->
              /\ Exists /\ ~HasColumn(cat, s.table, s.col.name)
              /\ GoodType(cat, s.col.type) /\ GoodDefault(cat, s.col)
              /\ \A c \in InlineKeys(s.table, <<s.col>>) :
                   GoodConstraint(cat, s.table, ColNames(cat.tables[s.table]) \cup {s.col.name}, c)
          [] s.op = "drop_column" ->
              /\ HasColumn(cat, s.table, s.col.name) /\ Readers(cat, s.table, s.col.name) = {}
              /\ \A k \in ForeignKeysTo(cat, s.table) : s.col.name \notin ToSet(k.con.refCols)
          [] s.op = "alter_column_type" ->
              /\ HasColumn(cat, s.table, s.col.name) /\ Readers(cat, s.table, s.col.name) = {}
              /\ GoodType(cat, s.col.type)
              /\ Converts(ColOf(cat.tables[s.table], s.col.name).type, s.col.type)
              /\ ~InForeignKey(cat, s.table, s.col.name)
          [] s.op = "alter_column_nullable" -> HasColumn(cat, s.table, s.col.name)
          [] s.op = "alter_column_default" ->
              HasColumn(cat, s.table, s.col.name) /\ GoodDefault(cat, s.col)
          [] s.op = "rename_column" ->
              HasColumn(cat, s.table, s.from) /\ ~HasColumn(cat, s.table, s.to)
          [] s.op = "add_constraint" ->
              /\ Exists /\ GoodConstraint(cat, s.table, ColNames(cat.tables[s.table]), s.con)
              /\ \A c \in cat.tables[s.table].cons : c.name # s.con.name \/ c.kind \in IndexKinds
          [] s.op = "drop_constraint" -> Exists
          [] s.op = "drop_index" ->
              /\ s.name \notin DOMAIN cat.tables \cup DOMAIN cat.views
              /\ \A t \in DOMAIN cat.tables : \A c \in cat.tables[t].cons :
                   ~(c.kind = "unique" /\ c.name = s.name)
          [] s.op = "create_view" ->
              /\ s.name \notin (IF s.replace THEN Relations(cat) \ DOMAIN cat.views ELSE Relations(cat))
              /\ s.name \notin DOMAIN cat.enums
              /\ s.view.on \in DOMAIN cat.tables /\ s.view.uses \subseteq ColNames(cat.tables[s.view.on])
          [] s.op = "drop_view" -> s.name \notin Relations(cat) \ DOMAIN cat.views
          [] s.op = "create_type" -> s.name \notin TypeNames(cat)
          [] s.op = "add_value" ->
              /\ s.type \in DOMAIN cat.enums
              /\ {s.after, s.before} \subseteq ToSet(cat.enums[s.type]) \cup {Blank}
          [] s.op = "drop_type" ->
              /\ s.name \notin DOMAIN cat.tables \cup DOMAIN cat.views
              /\ \A t \in DOMAIN cat.tables : \A i \in DOMAIN cat.tables[t].cols :
                   cat.tables[t].cols[i].type # s.name

--------------------------------------------------------------------------------
\* What RENAME does to the references of every table and view.
RenameRefs(cat, FromTable(_), FromCols(_, _)) ==
    [cat EXCEPT !.tables = [u \in DOMAIN @ |->
                    WithCons(@[u], {IF c.kind = "foreign_key"
                                    THEN [c EXCEPT !.refCols = FromCols(c.table, @),
                                                   !.table = FromTable(@)]
                                    ELSE c : c \in @[u].cons})],
                !.views = [v \in DOMAIN @ |->
                    [on |-> FromTable(@[v].on), uses |-> ToSet(FromCols(@[v].on, SetToSeq(@[v].uses)))]]]

InsertLabel(labels, s) ==
    LET At(l) == CHOOSE i \in DOMAIN labels : labels[i] = l
    IN  IF s.value \in ToSet(labels) THEN labels
        ELSE IF s.after # Blank  THEN InsertAt(labels, At(s.after) + 1, s.value)
        ELSE IF s.before # Blank THEN InsertAt(labels, At(s.before), s.value)
        ELSE Append(labels, s.value)

\* The catalog after s, data naming what new columns will store.
Effect(cat, s, data) ==
    LET Table(t)        == [cat EXCEPT !.tables = With(cat.tables, s.table, t)]
        own             == cat.tables[s.table]
        SetCols(F(_))   == Table([own EXCEPT !.cols = [i \in DOMAIN @ |->
                               IF @[i].name = s.col.name THEN F(@[i]) ELSE @[i]]])
        AddCon(c)       == Table([own EXCEPT !.cons = @ \cup {Stored(c)}])
        Same(t)         == t
        SameCols(t, cs) == cs
    IN  CASE s.op = "create_table" ->
              IF s.table \in Relations(cat) THEN cat
              ELSE Table([cols |-> [i \in DOMAIN s.cols |-> Column(s.cols[i], <<s.table, s.cols[i].name, data>>)],
                          cons |-> {Stored(c) : c \in ToSet(s.cons)} \cup InlineKeys(s.table, s.cols)])
          [] s.op \in {"create_index", "add_constraint"} -> AddCon(s.con)
          [] s.op = "drop_table" -> [cat EXCEPT !.tables = Without(@, s.table)]
          [] s.op = "rename_table" ->
              LET To(t) == IF t = s.table THEN s.to ELSE t
              IN  RenameRefs([cat EXCEPT !.tables = With(Without(@, s.table), s.to, own)], To, SameCols)
          [] s.op = "add_column" ->
              Table([cols |-> Append(own.cols, Column(s.col, <<s.table, s.col.name, data>>)),
                     cons |-> own.cons \cup InlineKeys(s.table, <<s.col>>)])
          [] s.op = "drop_column" ->
              Table([cols |-> FlatMap(LAMBDA c : When(c.name # s.col.name, <<c>>), own.cols),
                     cons |-> {c \in own.cons : s.col.name \notin ToSet(c.cols)}])
          [] s.op = "alter_column_type" -> SetCols(LAMBDA c : [c EXCEPT !.type = s.col.type])
          [] s.op = "alter_column_nullable" -> SetCols(LAMBDA c : [c EXCEPT !.notNull = s.col.notNull])
          [] s.op = "alter_column_default" -> SetCols(LAMBDA c : [c EXCEPT !.default = s.col.default])
          [] s.op = "rename_column" ->
              LET To(t, cs) == IF t = s.table THEN Swap(cs, s.from, s.to) ELSE cs
                  renamed   == [cols |-> [i \in DOMAIN own.cols |->
                                    IF own.cols[i].name = s.from THEN [own.cols[i] EXCEPT !.name = s.to]
                                    ELSE own.cols[i]],
                                cons |-> {[c EXCEPT !.cols = Swap(@, s.from, s.to)] : c \in own.cons}]
              IN  RenameRefs(Table(renamed), Same, To)
          [] s.op = "drop_constraint" ->
              Table([own EXCEPT !.cons = {c \in @ : c.name # s.name \/ c.kind \in IndexKinds}])
          [] s.op = "drop_index" ->
              [cat EXCEPT !.tables = [t \in DOMAIN @ |->
                  WithCons(@[t], {c \in @[t].cons : c.name # s.name \/ c.kind \notin IndexKinds})]]
          [] s.op = "create_view" ->
              [cat EXCEPT !.views = With(@, s.name, [on |-> s.view.on, uses |-> s.view.uses])]
          [] s.op = "drop_view"   -> [cat EXCEPT !.views = Without(@, s.name)]
          [] s.op = "create_type" -> [cat EXCEPT !.enums = With(@, s.name, s.labels)]
          [] s.op = "add_value"   ->
              [cat EXCEPT !.enums = With(@, s.type, InsertLabel(@[s.type], s)),
                          !.fresh = IF s.value \in ToSet(cat.enums[s.type]) THEN @
                                    ELSE @ \cup {<<s.type, s.value>>}]
          [] s.op = "drop_type"   -> [cat EXCEPT !.enums = Without(@, s.name)]

================================================================================
