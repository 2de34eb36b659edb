---------------------------- MODULE SchemaTablesProofs ----------------------------
(***************************************************************************)
(* Proofs about SchemaApply, for every set of schemas that a database can   *)
(* hold and follow (TablesFollow) and any number of migrations: the tables, *)
(* their columns and the views become those of the code, and what an        *)
(* annotated rename announces keeps its data.                               *)
(***************************************************************************)
EXTENDS SchemaApplyProofs

--------------------------------------------------------------------------------
(* Who lives on under which name                                             *)

\* What the open migration starts from, as long as it is open.
Base == IF flow = "live" THEN LiveSnapshot(before) ELSE saved

\* The new tables that were there, under this name or another, and the other new ones.
OldTables(o, n) == (DOMAIN o.tables \cap DOMAIN n.tables) \cup RenameTargets(o, n)
NewTables(o, n) == (DOMAIN n.tables \ DOMAIN o.tables) \ RenameTargets(o, n)
OldName(o, n, u) == IF u \in RenameTargets(o, n) THEN RenamedTo(o, n, u) ELSE u

\* The same of the columns of a table.
ColTargets(ot, nt) == {ColRenames(ot, nt)[c] : c \in DOMAIN ColRenames(ot, nt)}
OldCols(ot, nt)    == (ColNames(ot) \cap ColNames(nt)) \cup ColTargets(ot, nt)
NewCols(ot, nt)    == ColNames(nt) \ OldCols(ot, nt)
GoneCols(ot, nt)   == ColNames(ot) \ (ColNames(nt) \cup DOMAIN ColRenames(ot, nt))
OldColName(ot, nt, k) ==
    IF k \in ColNames(ot) THEN k
    ELSE CHOOSE c \in DOMAIN ColRenames(ot, nt) : ColRenames(ot, nt)[c] = k

--------------------------------------------------------------------------------
(* The inductive invariant: whatever is not done is still to do               *)

\* The columns of a table by name.
Fields(t) == [k \in ColNames(t) |-> ColOf(t, k)]
Tables(cat) == [t \in DOMAIN cat.tables |-> Fields(cat.tables[t])]

SameColumn(a, b) == a.type = b.type /\ a.notNull = b.notNull /\ a.default = b.default

\* The field f of table u is like the new column c, or will be.
Altering(f, u, c, S) ==
    /\ f.type = c.type \/ [op |-> "alter_column_type", table |-> u, col |-> c] \in S
    /\ f.notNull = c.notNull \/ [op |-> "alter_column_nullable", table |-> u, col |-> c] \in S
    /\ f.default = c.default \/ [op |-> "alter_column_default", table |-> u, col |-> c] \in S

RenameColumn(u, c, k) == [op |-> "rename_column", table |-> u, from |-> c, to |-> k]
RenameTable(t, u)     == [op |-> "rename_table", table |-> t, to |-> u]

\* A column k of the new table u that the old one had as c: it has come to its name, or it
\* has the old one and is going to be renamed.
ColumnGoesOn(F, S, u, c, k, nc, data) ==
    \/ /\ k \in DOMAIN F /\ (c # k => c \notin DOMAIN F)
       /\ F[k].data = data /\ Altering(F[k], u, nc, S)
    \/ /\ c # k /\ k \notin DOMAIN F /\ c \in DOMAIN F
       /\ F[c].data = data /\ Altering(F[c], u, nc, S)
       /\ RenameColumn(u, c, k) \in S

\* The fields F of a table on the way from ot, where they held what D says, to nt, which
\* is called u.
ColumnsUnderWay(F, S, u, ot, nt, D) ==
    /\ DOMAIN F \subseteq ColNames(ot) \cup ColNames(nt)
    /\ \A c \in GoneCols(ot, nt) :
         c \in DOMAIN F => \E s \in S : s.op = "drop_column" /\ s.table = u /\ s.col.name = c
    /\ \A k \in NewCols(ot, nt) :
         IF k \in DOMAIN F THEN SameColumn(F[k], ColOf(nt, k))
         ELSE [op |-> "add_column", table |-> u, col |-> ColOf(nt, k)] \in S
    /\ \A k \in OldCols(ot, nt) :
         LET c == OldColName(ot, nt, k)
         IN  ColumnGoesOn(F, S, u, c, k, ColOf(nt, k), D[c].data)

\* A table u of the new schema that the old one had as t.
TableGoesOn(T, S, u, t, ot, nt, D) ==
    \/ u \in DOMAIN T /\ (t # u => t \notin DOMAIN T) /\ ColumnsUnderWay(T[u], S, u, ot, nt, D)
    \/ /\ t # u /\ u \notin DOMAIN T /\ t \in DOMAIN T /\ RenameTable(t, u) \in S
       /\ ColumnsUnderWay(T[t], S, u, ot, nt, D)

\* The tables T on the way from schema o, where they were B, to schema n.
TablesUnderWay(T, S, o, n, B) ==
    /\ DOMAIN T \subseteq DOMAIN o.tables \cup DOMAIN n.tables
    /\ \A t \in Dropped(o, n) : t \in DOMAIN T => [op |-> "drop_table", table |-> t] \in S
    /\ \A u \in NewTables(o, n) :
         IF u \in DOMAIN T
         THEN /\ DOMAIN T[u] = ColNames(n.tables[u])
              /\ \A k \in DOMAIN T[u] : SameColumn(T[u][k], ColOf(n.tables[u], k))
         ELSE \E s \in S : s.op = "create_table" /\ s.table = u
    /\ \A u \in OldTables(o, n) :
         LET t == OldName(o, n, u)
         IN  TableGoesOn(T, S, u, t, o.tables[t], n.tables[u], B[t])

\* The views of a schema, as the database keeps them.
ViewsOf(n) == [v \in DOMAIN n.views |-> [on |-> n.views[v].on, uses |-> n.views[v].uses]]

\* The views V on the way from schema o to schema n.
ViewsUnderWay(V, S, o, n) ==
    /\ DOMAIN V \subseteq DOMAIN o.views \cup DOMAIN n.views
    /\ \A v \in DOMAIN o.views \ DOMAIN n.views :
         v \in DOMAIN V => \E s \in S : s.op = "drop_view" /\ s.name = v
    /\ \A v \in DOMAIN n.views :
         \/ v \in DOMAIN V /\ V[v] = ViewsOf(n)[v]
         \/ \E s \in S : s.op = "create_view" /\ s.name = v

\* A view of the new schema that goes comes back.
Restored(a, n) ==
    \A i \in DOMAIN a : a[i].op = "drop_view" /\ a[i].name \in DOMAIN n.views =>
        \E j \in DOMAIN a : i < j /\ a[j].op = "create_view" /\ a[j].name = a[i].name

\* A constraint is a record, and if it brings an index, not called like a table.
Apart(c) ==
    /\ {"kind", "name"} \subseteq DOMAIN c
    /\ c.kind \in IndexKinds \cup {"unique"} => \A s \in Schemas : c.name \notin DOMAIN s.tables
IndexesApart(cat) == \A t \in DOMAIN cat.tables : \A c \in cat.tables[t].cons : Apart(c)

\* What a statement on the way from o to n is about.
TableStatement(s, o, n) ==
    LET u  == s.table
        ot == o.tables[OldName(o, n, u)]
        nt == n.tables[u]
    IN  /\ s.op = "create_table" =>
             u \in NewTables(o, n) /\ s.cols = nt.cols /\ ToSet(s.cons) \subseteq ToSet(nt.cons)
        /\ s.op \in {"create_index", "add_constraint"} => \E t \in DOMAIN n.tables : s.con \in ToSet(n.tables[t].cons)
        /\ s.op = "drop_table" => u \in Dropped(o, n)
        /\ s.op = "rename_table" => s.to \in RenameTargets(o, n) /\ u = RenamedTo(o, n, s.to)
        /\ s.op \in {"add_column", "drop_column", "rename_column", "alter_column_type",
                     "alter_column_nullable", "alter_column_default"} => u \in OldTables(o, n)
        /\ s.op = "add_column" => s.col.name \in NewCols(ot, nt) /\ s.col = ColOf(nt, s.col.name)
        /\ s.op = "drop_column" => s.col.name \in GoneCols(ot, nt)
        /\ s.op = "rename_column" => s.to \in ColTargets(ot, nt) /\ s.from = OldColName(ot, nt, s.to)
        /\ s.op \in {"alter_column_type", "alter_column_nullable", "alter_column_default"} =>
             s.col.name \in OldCols(ot, nt) /\ s.col = ColOf(nt, s.col.name)
        /\ s.op = "create_view" => s.name \in DOMAIN n.views /\ s.view = n.views[s.name]
        /\ s.op = "drop_view" => s.name \in DOMAIN o.views

\* The tables T are those of schema n, whatever they hold.
Reached(T, n) ==
    /\ DOMAIN T = DOMAIN n.tables
    /\ \A u \in DOMAIN T : /\ DOMAIN T[u] = ColNames(n.tables[u])
                           /\ \A k \in DOMAIN T[u] : SameColumn(T[u][k], ColOf(n.tables[u], k))

\* The tables T hold what the tables B they were in schema o held.
DataFollows(T, o, n, B) ==
    \A u \in OldTables(o, n) :
      LET t == OldName(o, n, u)
      IN  \A k \in OldCols(o.tables[t], n.tables[u]) :
            T[u][k].data = B[t][OldColName(o.tables[t], n.tables[u], k)].data

\* Between migrations the database has the tables and views of the last schema.
Settled == Reached(Tables(before), saved) /\ before.views = ViewsOf(saved)

IsFunction(f) == f = [x \in DOMAIN f |-> f[x]]

LiveHasNoViews == flow = "live" => DOMAIN saved.views = {} /\ DOMAIN new.views = {}

UnderWay ==
    /\ TablesUnderWay(Tables(catalog), ToSet(todo), Base, new, Tables(before))
    /\ ViewsUnderWay(catalog.views, ToSet(todo), Base, new)
    /\ \A s \in ToSet(todo) : TableStatement(s, Base, new)
    /\ Restored(todo, new)
    /\ DOMAIN new.tables \cap DOMAIN Base.views = {}

TInv ==
    /\ Settled /\ LiveHasNoViews /\ IndexesApart(catalog) /\ IndexesApart(before)
    /\ IsFunction(catalog.views)
    /\ status = "running" => UnderWay

--------------------------------------------------------------------------------
(* Fields                                                                     *)

\* The column of a name is the one that has it, if the names differ.
LEMMA ColOfFacts ==
    ASSUME NEW t, \A i, j \in DOMAIN t.cols : t.cols[i].name = t.cols[j].name => i = j
    PROVE  /\ \A i \in DOMAIN t.cols : t.cols[i].name \in ColNames(t) /\ ColOf(t, t.cols[i].name) = t.cols[i]
           /\ \A k \in ColNames(t) : \E i \in DOMAIN t.cols : t.cols[i].name = k /\ ColOf(t, k) = t.cols[i]
<1>1. ASSUME NEW i \in DOMAIN t.cols PROVE t.cols[i].name \in ColNames(t) /\ ColOf(t, t.cols[i].name) = t.cols[i]
  <2>1. t.cols[i].name \in ColNames(t)
    BY DEF ColNames
  <2>2. (CHOOSE j \in DOMAIN t.cols : t.cols[j].name = t.cols[i].name) = i
    OBVIOUS
  <2> QED BY <2>1, <2>2 DEF ColOf
<1>2. \A k \in ColNames(t) : \E i \in DOMAIN t.cols : t.cols[i].name = k
  BY DEF ColNames
<1> QED BY <1>1, <1>2

\* The fields of a table of the catalog.
LEMMA FieldsFacts ==
    ASSUME NEW t, CatalogTable(t)
    PROVE  /\ DOMAIN Fields(t) = ColNames(t)
           /\ \A i \in DOMAIN t.cols : t.cols[i].name \in ColNames(t) /\ Fields(t)[t.cols[i].name] = t.cols[i]
           /\ \A k \in ColNames(t) : \E i \in DOMAIN t.cols : t.cols[i].name = k /\ Fields(t)[k] = t.cols[i]
BY ColOfFacts DEF CatalogTable, Fields

\* Fields depend on nothing but the columns.
LEMMA SameFields ==
    ASSUME NEW t, NEW r, t.cols = r.cols
    PROVE  ColNames(t) = ColNames(r) /\ Fields(t) = Fields(r)
BY DEF Fields, ColNames, ColOf

\* From T to T2 one table changes.
OneTable(T, T2, x) == DOMAIN T2 = DOMAIN T \cup {x} /\ \A y \in DOMAIN T : y # x => T2[y] = T[y]
\* From F to F2 one field changes.
OneField(F, F2, k) == DOMAIN F2 = DOMAIN F /\ \A h \in DOMAIN F : h # k => F2[h] = F[h]

\* One table put: the others keep their fields.
LEMMA TablesPut ==
    ASSUME NEW cat, NEW x, NEW t, NEW r, r.tables = With(cat.tables, x, t)
    PROVE  OneTable(Tables(cat), Tables(r), x) /\ Tables(r)[x] = Fields(t)
<1>1. /\ DOMAIN r.tables = DOMAIN cat.tables \cup {x} /\ r.tables[x] = t
      /\ \A y \in DOMAIN cat.tables : y # x => r.tables[y] = cat.tables[y]
  BY DEF With
<1> QED BY <1>1 DEF Tables, OneTable

--------------------------------------------------------------------------------
(* What a statement leaves of the fields                                      *)

\* A new table has the columns of the statement.
LEMMA CreateTableFields ==
    ASSUME NEW cat, CatalogShape(cat), NEW s, s.op = "create_table", Allowed(cat, s), IsSeq(s.cols),
           s.table \notin Relations(cat), NEW data
    PROVE  LET r == Effect(cat, s, data)
               F == Tables(r)[s.table]
           IN  /\ OneTable(Tables(cat), Tables(r), s.table) /\ r.views = cat.views
               /\ DOMAIN F = {s.cols[i].name : i \in DOMAIN s.cols}
               /\ \A i \in DOMAIN s.cols : SameColumn(F[s.cols[i].name], s.cols[i])
<1> DEFINE cols == s.cols
           d == [i \in DOMAIN cols |-> <<s.table, cols[i].name, data>>]
           c == [i \in DOMAIN cols |-> Column(cols[i], d[i])]
           cons == {Stored(k) : k \in ToSet(s.cons)} \cup InlineKeys(s.table, cols)
           t == [cols |-> c, cons |-> cons]
           r == Effect(cat, s, data)
<1>1. r.tables = With(cat.tables, s.table, t) /\ r.views = cat.views
  BY DEF Effect, CatalogShape
<1>2. \A i, j \in DOMAIN cols : cols[i].name = cols[j].name => i = j
  BY DEF Allowed
<1>3. DOMAIN t.cols = DOMAIN cols /\ \A i \in DOMAIN cols : t.cols[i].name = cols[i].name /\ SameColumn(t.cols[i], cols[i])
  BY DEF Column, SameColumn
<1> HIDE DEF c, cons, t, r
<1>4. OneTable(Tables(cat), Tables(r), s.table) /\ Tables(r)[s.table] = Fields(t)
  BY <1>1, TablesPut
<1>5. DOMAIN Fields(t) = {cols[i].name : i \in DOMAIN cols}
  BY <1>3 DEF Fields, ColNames
<1>6. \A i \in DOMAIN cols : SameColumn(Fields(t)[cols[i].name], cols[i])
  <2>1. \A i, j \in DOMAIN t.cols : t.cols[i].name = t.cols[j].name => i = j
    BY <1>2, <1>3
  <2>2. \A i \in DOMAIN t.cols : t.cols[i].name \in ColNames(t) /\ ColOf(t, t.cols[i].name) = t.cols[i]
    BY <2>1, ColOfFacts
  <2> QED BY <1>3, <2>2 DEF Fields
<1> HIDE DEF cols
<1> QED BY <1>1, <1>4, <1>5, <1>6 DEF cols, r

\* The same tables with the same columns have the same fields.
LEMMA SameTables ==
    ASSUME NEW cat, NEW r, DOMAIN r.tables = DOMAIN cat.tables,
           \A t \in DOMAIN cat.tables : r.tables[t].cols = cat.tables[t].cols
    PROVE  Tables(r) = Tables(cat)
<1>1. \A t \in DOMAIN cat.tables : Fields(r.tables[t]) = Fields(cat.tables[t])
  BY SameFields
<1> QED BY <1>1 DEF Tables

\* Constraints, indexes, views and enums are not columns.
LEMMA OtherFields ==
    ASSUME NEW cat, CatalogShape(cat), NEW s, NEW data, Allowed(cat, s),
           s.op \in {"create_index", "add_constraint", "drop_constraint", "drop_index", "create_view",
                     "drop_view", "create_type", "add_value", "drop_type"}
    PROVE  LET r == Effect(cat, s, data)
           IN  /\ Tables(r) = Tables(cat)
               /\ s.op \notin {"create_view", "drop_view"} => r.views = cat.views
               /\ s.op = "create_view" => r.views = With(cat.views, s.name, [on |-> s.view.on, uses |-> s.view.uses])
               /\ s.op = "drop_view" => r.views = Without(cat.views, s.name)
<1> DEFINE own == cat.tables[s.table]
           r == Effect(cat, s, data)
<1>1. CASE s.op \in {"create_index", "add_constraint", "drop_constraint"}
  <2>1. s.table \in DOMAIN cat.tables /\ CatalogTable(own)
    BY <1>1 DEF Allowed, CatalogShape
  <2>2. \E S : r = [cat EXCEPT !.tables = With(cat.tables, s.table, [own EXCEPT !.cons = S])]
    BY <1>1 DEF Effect
  <2>3. PICK S : r = [cat EXCEPT !.tables = With(cat.tables, s.table, [own EXCEPT !.cons = S])]
    BY <2>2
  <2>4. [own EXCEPT !.cons = S].cols = own.cols
    BY <2>1 DEF CatalogTable
  <2> HIDE DEF r
  <2>5. r.tables = With(cat.tables, s.table, [own EXCEPT !.cons = S]) /\ r.views = cat.views
    BY <2>3 DEF CatalogShape
  <2>6. DOMAIN r.tables = DOMAIN cat.tables /\ \A t \in DOMAIN cat.tables : r.tables[t].cols = cat.tables[t].cols
    BY <2>1, <2>4, <2>5 DEF With
  <2> QED BY <1>1, <2>5, <2>6, SameTables DEF r
<1>2. CASE s.op = "drop_index"
  <2>1. /\ r.tables = [t \in DOMAIN cat.tables |-> WithCons(cat.tables[t], {c \in cat.tables[t].cons :
                                                              c.name # s.name \/ c.kind \notin IndexKinds})]
        /\ r.views = cat.views
    BY <1>2 DEF Effect, CatalogShape
  <2> HIDE DEF r
  <2>2. DOMAIN r.tables = DOMAIN cat.tables /\ \A t \in DOMAIN cat.tables : r.tables[t].cols = cat.tables[t].cols
    BY <2>1 DEF WithCons, CatalogShape, CatalogTable
  <2> QED BY <1>2, <2>1, <2>2, SameTables DEF r
<1>3. CASE s.op \in {"create_view", "drop_view", "create_type", "add_value", "drop_type"}
  <2>1. /\ r.tables = cat.tables
        /\ s.op \notin {"create_view", "drop_view"} => r.views = cat.views
        /\ s.op = "create_view" => r.views = With(cat.views, s.name, [on |-> s.view.on, uses |-> s.view.uses])
        /\ s.op = "drop_view" => r.views = Without(cat.views, s.name)
    BY <1>3 DEF Effect, CatalogShape
  <2> HIDE DEF r
  <2> QED BY <2>1 DEF Tables, r
<1> QED BY <1>1, <1>2, <1>3

\* A dropped table.
LEMMA DropTableFields ==
    ASSUME NEW cat, CatalogShape(cat), NEW s, NEW data, s.op = "drop_table"
    PROVE  LET r == Effect(cat, s, data)
           IN  /\ DOMAIN Tables(r) = DOMAIN Tables(cat) \ {s.table} /\ r.views = cat.views
               /\ \A t \in DOMAIN Tables(r) : Tables(r)[t] = Tables(cat)[t]
<1> DEFINE r == Effect(cat, s, data)
<1>1. r.tables = Without(cat.tables, s.table) /\ r.views = cat.views
  BY DEF Effect, CatalogShape
<1> HIDE DEF r
<1> QED BY <1>1 DEF Without, Tables, r

\* A column more.
LEMMA AddColumnFields ==
    ASSUME NEW cat, CatalogShape(cat), NEW s, NEW data, s.op = "add_column", Allowed(cat, s)
    PROVE  LET r == Effect(cat, s, data)
               F == Tables(cat)[s.table]
               G == Tables(r)[s.table]
               k == s.col.name
           IN  /\ s.table \in DOMAIN Tables(cat) /\ OneTable(Tables(cat), Tables(r), s.table) /\ r.views = cat.views
               /\ k \notin DOMAIN F /\ OneTable(F, G, k) /\ SameColumn(G[k], s.col)
<1> DEFINE own == cat.tables[s.table]
           x == Column(s.col, <<s.table, s.col.name, data>>)
           cols == own.cols
           t == [cols |-> Append(cols, x), cons |-> own.cons \cup InlineKeys(s.table, <<s.col>>)]
           r == Effect(cat, s, data)
<1>1. r.tables = With(cat.tables, s.table, t) /\ r.views = cat.views
  BY DEF Effect, CatalogShape
<1>2. s.table \in DOMAIN cat.tables /\ CatalogTable(own) /\ s.col.name \notin ColNames(own)
  BY DEF Allowed, CatalogShape, HasColumn
<1>3. x.name = s.col.name /\ SameColumn(x, s.col)
  BY DEF Column, SameColumn
<1>4. CatalogColumns(t.cols) /\ t.cols = Append(cols, x)
  <2>1. CatalogColumns(cols) /\ \A i \in DOMAIN cols : cols[i].name # s.col.name
    BY <1>2, TableParts DEF ColNames
  <2> HIDE DEF cols
  <2> QED BY <2>1, AddedColumn
<1> HIDE DEF x, r
<1>5. OneTable(Tables(cat), Tables(r), s.table) /\ Tables(r)[s.table] = Fields(t) /\ Tables(cat)[s.table] = Fields(own)
  <2> HIDE DEF t, own
  <2>1. OneTable(Tables(cat), Tables(r), s.table) /\ Tables(r)[s.table] = Fields(t)
    BY <1>1, TablesPut
  <2> QED BY <1>2, <2>1 DEF Tables, own
<1>6. /\ ColNames(t) = ColNames(own) \cup {s.col.name} /\ ColOf(t, s.col.name) = x
      /\ \A k \in ColNames(own) : ColOf(t, k) = ColOf(own, k)
  <2>1. IsSeq(cols) /\ DOMAIN cols = 1..Len(cols) /\ Len(cols) \in Nat
    BY <1>2, TableParts, SeqDomain DEF CatalogColumns
  <2>2. DOMAIN t.cols = 1..(Len(cols) + 1) /\ t.cols[Len(cols) + 1] = x /\ \A i \in DOMAIN cols : t.cols[i] = cols[i]
    <3> DEFINE A == ToSet(cols) \cup {x}
    <3>1. cols \in Seq(A) /\ x \in A
      BY <2>1, SeqElements
    <3> HIDE DEF A, own
    <3> QED BY <1>4, <2>1, <3>1
  <2>3. \A i \in DOMAIN t.cols : i = Len(cols) + 1 \/ i \in DOMAIN cols
    <3> DEFINE l == Len(cols)
    <3>1. l \in Nat /\ DOMAIN cols = 1..l /\ DOMAIN t.cols = 1..(l + 1)
      BY <2>1, <2>2
    <3> HIDE DEF l
    <3>2. \A i \in 1..(l + 1) : i \in 1..l \/ i = l + 1
      BY <3>1, EarlierOrLast
    <3> QED BY <3>1, <3>2 DEF l
  <2>4. Len(cols) + 1 \in DOMAIN t.cols /\ \A i \in DOMAIN cols : i \in DOMAIN t.cols
    BY <2>1, <2>2
  <2> HIDE DEF t, own
  <2>5. ColNames(t) = ColNames(own) \cup {s.col.name}
    BY <1>3, <2>2, <2>3, <2>4 DEF ColNames
  <2>6. \A i, j \in DOMAIN t.cols : t.cols[i].name = t.cols[j].name => i = j
    BY <1>4 DEF CatalogColumns
  <2>7. \A i \in DOMAIN t.cols : ColOf(t, t.cols[i].name) = t.cols[i]
    BY <2>6, ColOfFacts
  <2>8. \A k \in ColNames(own) : \E i \in DOMAIN cols : cols[i].name = k /\ ColOf(own, k) = cols[i]
    BY <1>2, ColOfFacts DEF CatalogTable
  <2> QED BY <1>3, <2>2, <2>4, <2>5, <2>7, <2>8
<1> HIDE DEF t, own
<1>7. s.table \in DOMAIN Tables(cat)
  BY <1>2 DEF Tables
<1>8. /\ s.col.name \notin DOMAIN Fields(own) /\ OneTable(Fields(own), Fields(t), s.col.name)
      /\ SameColumn(Fields(t)[s.col.name], s.col)
  BY <1>2, <1>3, <1>6 DEF Fields, OneTable
<1> QED BY <1>1, <1>5, <1>7, <1>8 DEF r

\* A column less.
LEMMA DropColumnFields ==
    ASSUME NEW cat, CatalogShape(cat), NEW s, NEW data, s.op = "drop_column", Allowed(cat, s)
    PROVE  LET r == Effect(cat, s, data)
               F == Tables(cat)[s.table]
               G == Tables(r)[s.table]
               k == s.col.name
           IN  /\ s.table \in DOMAIN Tables(cat) /\ OneTable(Tables(cat), Tables(r), s.table) /\ r.views = cat.views
               /\ DOMAIN G = DOMAIN F \ {k} /\ \A h \in DOMAIN G : G[h] = F[h]
<1> DEFINE own == cat.tables[s.table]
           cols == own.cols
           ss == [i \in DOMAIN cols |-> When(cols[i].name # s.col.name, <<cols[i]>>)]
           t == [cols |-> FlattenSeq(ss), cons |-> {c \in own.cons : s.col.name \notin ToSet(c.cols)}]
           r == Effect(cat, s, data)
<1>1. r.tables = With(cat.tables, s.table, t) /\ r.views = cat.views
  BY DEF Effect, CatalogShape, FlatMap
<1>2. s.table \in DOMAIN cat.tables /\ CatalogTable(own)
  BY DEF Allowed, CatalogShape, HasColumn
<1>3. t.cols = FlattenSeq(ss)
  OBVIOUS
<1> HIDE DEF r, t
<1>5. OneTable(Tables(cat), Tables(r), s.table) /\ Tables(r)[s.table] = Fields(t) /\ Tables(cat)[s.table] = Fields(own)
  <2> HIDE DEF own
  <2>1. OneTable(Tables(cat), Tables(r), s.table) /\ Tables(r)[s.table] = Fields(t)
    BY <1>1, TablesPut
  <2> QED BY <1>2, <2>1 DEF Tables, own
<1>6. /\ IsSeq(cols) /\ CatalogColumns(cols) /\ ss = [i \in DOMAIN cols |-> ss[i]]
      /\ \A i \in DOMAIN cols : ss[i] = IF cols[i].name # s.col.name THEN <<cols[i]>> ELSE <<>>
  BY <1>2, TableParts DEF When, CatalogColumns
<1> HIDE DEF ss, own
<1>7. CatalogColumns(t.cols)
  BY <1>3, <1>6, FewerColumns
<1>8. \A x : x \in ToSet(t.cols) <=> x \in ToSet(cols) /\ x.name # s.col.name
  <2>1. \A i \in DOMAIN cols : IsSeq(ss[i]) /\ ToSet(ss[i]) = IF cols[i].name # s.col.name THEN {cols[i]} ELSE {}
    BY <1>6, SmallSeqs
  <2>2. ToSet(t.cols) = UNION {ToSet(ss[i]) : i \in DOMAIN cols}
    <3>1. \A i \in DOMAIN cols : IsSeq(ss[i])
      BY <2>1
    <3>2. PICK was : was = cols
      OBVIOUS
    <3>3. IsSeq(was) /\ ss = [i \in DOMAIN was |-> ss[i]] /\ \A i \in DOMAIN was : IsSeq(ss[i])
      BY <1>6, <3>1, <3>2
    <3>4. ToSet(FlattenSeq(ss)) = UNION {ToSet(ss[i]) : i \in DOMAIN was}
      BY <3>3, FlatElements
    <3> QED BY <1>3, <3>2, <3>4
  <2>3. /\ \A i \in DOMAIN cols : cols[i] \in ToSet(cols)
        /\ \A x \in ToSet(cols) : \E i \in DOMAIN cols : cols[i] = x
    BY <1>6, SeqDomain
  <2>4. ASSUME NEW x \in ToSet(t.cols) PROVE x \in ToSet(cols) /\ x.name # s.col.name
    <3>1. PICK i \in DOMAIN cols : x \in ToSet(ss[i])
      BY <2>2
    <3> QED BY <2>1, <2>3, <3>1
  <2>5. ASSUME NEW x \in ToSet(cols), x.name # s.col.name PROVE x \in ToSet(t.cols)
    <3>1. PICK i \in DOMAIN cols : cols[i] = x
      BY <2>3
    <3>2. x \in ToSet(ss[i])
      BY <2>1, <2>5, <3>1
    <3> QED BY <2>2, <3>2
  <2> QED BY <2>4, <2>5
<1>9. /\ \A k \in ColNames(t) : ColOf(t, k) \in ToSet(t.cols) /\ ColOf(t, k).name = k
      /\ \A c \in ToSet(t.cols) : c.name \in ColNames(t) /\ ColOf(t, c.name) = c
  <2>1. IsSeq(t.cols) /\ \A i, j \in DOMAIN t.cols : t.cols[i].name = t.cols[j].name => i = j
    BY <1>7 DEF CatalogColumns
  <2> QED BY <2>1, ColOfFacts, SeqDomain
<1>10. /\ \A k \in ColNames(own) : ColOf(own, k) \in ToSet(cols) /\ ColOf(own, k).name = k
       /\ \A c \in ToSet(cols) : c.name \in ColNames(own) /\ ColOf(own, c.name) = c
  <2>1. IsSeq(cols) /\ \A i, j \in DOMAIN cols : cols[i].name = cols[j].name => i = j
    BY <1>6 DEF CatalogColumns
  <2> QED BY <2>1, ColOfFacts, SeqDomain
<1>11. ColNames(t) = ColNames(own) \ {s.col.name} /\ \A k \in ColNames(t) : ColOf(t, k) = ColOf(own, k)
  BY <1>8, <1>9, <1>10
<1>12. /\ DOMAIN Fields(t) = DOMAIN Fields(own) \ {s.col.name}
       /\ \A h \in DOMAIN Fields(t) : Fields(t)[h] = Fields(own)[h]
  BY <1>11 DEF Fields
<1>13. s.table \in DOMAIN Tables(cat)
  BY <1>2 DEF Tables
<1> QED BY <1>1, <1>5, <1>12, <1>13 DEF r

\* One property of a column, and no other.
LEMMA AlterColumnFields ==
    ASSUME NEW cat, CatalogShape(cat), NEW s, NEW data, Allowed(cat, s),
           s.op \in {"alter_column_type", "alter_column_nullable", "alter_column_default"}
    PROVE  LET r == Effect(cat, s, data)
               F == Tables(cat)[s.table]
               G == Tables(r)[s.table]
               k == s.col.name
           IN  /\ s.table \in DOMAIN Tables(cat) /\ OneTable(Tables(cat), Tables(r), s.table) /\ r.views = cat.views
               /\ k \in DOMAIN F /\ OneField(F, G, k) /\ G[k].data = F[k].data
               /\ G[k].type = IF s.op = "alter_column_type" THEN s.col.type ELSE F[k].type
               /\ G[k].notNull = IF s.op = "alter_column_nullable" THEN s.col.notNull ELSE F[k].notNull
               /\ G[k].default = IF s.op = "alter_column_default" THEN s.col.default ELSE F[k].default
<1> DEFINE own == cat.tables[s.table]
           set(c) == CASE s.op = "alter_column_type"     -> [c EXCEPT !.type = s.col.type]
                       [] s.op = "alter_column_nullable" -> [c EXCEPT !.notNull = s.col.notNull]
                       [] s.op = "alter_column_default"  -> [c EXCEPT !.default = s.col.default]
           cols == own.cols
           changed == [i \in DOMAIN cols |-> IF cols[i].name = s.col.name THEN set(cols[i]) ELSE cols[i]]
           t == [own EXCEPT !.cols = changed]
           r == Effect(cat, s, data)
<1>1. r.tables = With(cat.tables, s.table, t) /\ r.views = cat.views
  BY DEF Effect, CatalogShape
<1>2. s.table \in DOMAIN cat.tables /\ CatalogTable(own) /\ s.col.name \in ColNames(own)
  BY DEF Allowed, CatalogShape, HasColumn
<1>3. t.cols = changed
  BY <1>2 DEF CatalogTable
<1>4. CatalogColumns(cols)
  BY <1>2, TableParts
<1> HIDE DEF r, t, own
<1>5. OneTable(Tables(cat), Tables(r), s.table) /\ Tables(r)[s.table] = Fields(t) /\ Tables(cat)[s.table] = Fields(own)
  <2>1. OneTable(Tables(cat), Tables(r), s.table) /\ Tables(r)[s.table] = Fields(t)
    BY <1>1, TablesPut
  <2> QED BY <1>2, <2>1 DEF Tables, own
<1>6. /\ DOMAIN t.cols = DOMAIN cols
      /\ \A i \in DOMAIN cols : /\ t.cols[i].name = cols[i].name
                                /\ cols[i].name # s.col.name => t.cols[i] = cols[i]
                                /\ cols[i].name = s.col.name =>
                                     /\ t.cols[i].data = cols[i].data
                                     /\ t.cols[i].type = IF s.op = "alter_column_type" THEN s.col.type ELSE cols[i].type
                                     /\ t.cols[i].notNull = IF s.op = "alter_column_nullable" THEN s.col.notNull
                                                            ELSE cols[i].notNull
                                     /\ t.cols[i].default = IF s.op = "alter_column_default" THEN s.col.default
                                                            ELSE cols[i].default
  BY <1>3, <1>4 DEF CatalogColumns, ColumnFields
<1> HIDE DEF set, changed
<1>7. /\ \A i, j \in DOMAIN t.cols : t.cols[i].name = t.cols[j].name => i = j
      /\ \A i, j \in DOMAIN cols : cols[i].name = cols[j].name => i = j
  BY <1>4, <1>6 DEF CatalogColumns
<1>8. ColNames(t) = ColNames(own)
  BY <1>6 DEF ColNames
<1>9. \A k \in ColNames(own) : \E i \in DOMAIN cols : cols[i].name = k /\ ColOf(own, k) = cols[i] /\ ColOf(t, k) = t.cols[i]
  <2>1. \A i \in DOMAIN t.cols : ColOf(t, t.cols[i].name) = t.cols[i]
    BY <1>7, ColOfFacts
  <2>2. \A k \in ColNames(own) : \E i \in DOMAIN cols : cols[i].name = k /\ ColOf(own, k) = cols[i]
    BY <1>7, ColOfFacts
  <2> QED BY <1>6, <2>1, <2>2
<1>10. s.table \in DOMAIN Tables(cat) /\ s.col.name \in DOMAIN Fields(own)
  BY <1>2 DEF Tables, Fields
<1>11. PICK F, G, k : F = Fields(own) /\ G = Fields(t) /\ k = s.col.name
  OBVIOUS
<1>12. OneField(F, G, k)
  BY <1>6, <1>8, <1>9, <1>11 DEF Fields, OneField
<1>13. /\ G[k].data = F[k].data
       /\ G[k].type = IF s.op = "alter_column_type" THEN s.col.type ELSE F[k].type
       /\ G[k].notNull = IF s.op = "alter_column_nullable" THEN s.col.notNull ELSE F[k].notNull
       /\ G[k].default = IF s.op = "alter_column_default" THEN s.col.default ELSE F[k].default
  BY <1>2, <1>6, <1>8, <1>9, <1>11 DEF Fields
<1> QED BY <1>1, <1>5, <1>10, <1>11, <1>12, <1>13 DEF r

\* The name a goes to b.
Moved(T, T2, a, b) ==
    /\ a \in DOMAIN T /\ b \notin DOMAIN T /\ DOMAIN T2 = (DOMAIN T \ {a}) \cup {b}
    /\ \A y \in DOMAIN T : y # a => T2[y] = T[y]

\* A view that reads another table, or columns of other names, is the same after a rename.
SameView(was, is) == is = [on |-> was.on, uses |-> was.uses]

\* A renamed table keeps its fields.
LEMMA RenameTableFields ==
    ASSUME NEW cat, CatalogShape(cat), NEW s, NEW data, s.op = "rename_table", Allowed(cat, s)
    PROVE  LET r == Effect(cat, s, data)
           IN  /\ Moved(Tables(cat), Tables(r), s.table, s.to) /\ Tables(r)[s.to] = Tables(cat)[s.table]
               /\ IsFunction(r.views) /\ DOMAIN r.views = DOMAIN cat.views
               /\ \A v \in DOMAIN cat.views : cat.views[v].on # s.table /\ IsFiniteSet(cat.views[v].uses) =>
                    SameView(cat.views[v], r.views[v])
<1> DEFINE own == cat.tables[s.table]
           base == [cat EXCEPT !.tables = With(Without(@, s.table), s.to, own)]
           To(t) == IF t = s.table THEN s.to ELSE t
           Ref(c) == IF c.kind = "foreign_key" THEN [c EXCEPT !.refCols = @, !.table = To(@)] ELSE c
           tabs == [u \in DOMAIN base.tables |->
                      WithCons(base.tables[u], {Ref(c) : c \in base.tables[u].cons})]
           views == [v \in DOMAIN base.views |->
                       [on |-> To(base.views[v].on), uses |-> ToSet(SetToSeq(base.views[v].uses))]]
           r == Effect(cat, s, data)
<1>1. r = [base EXCEPT !.tables = tabs, !.views = views]
  BY DEF Effect, RenameRefs
<1>2. s.table \in DOMAIN cat.tables /\ CatalogTable(own) /\ s.to \notin DOMAIN cat.tables
  BY DEF Allowed, CatalogShape, Relations
<1>3. base.views = cat.views /\ base.tables = With(Without(cat.tables, s.table), s.to, own) /\ CatalogShape(base)
  <2> HIDE DEF own
  <2> QED BY <1>2 DEF CatalogShape, With, Without
<1>4. views = [v \in DOMAIN cat.views |-> [on |-> To(cat.views[v].on), uses |-> ToSet(SetToSeq(cat.views[v].uses))]]
  BY <1>3
<1>5. DOMAIN tabs = DOMAIN base.tables /\ \A u \in DOMAIN base.tables : tabs[u].cols = base.tables[u].cols
  <2> HIDE DEF base, To
  <2>1. ASSUME NEW u \in DOMAIN base.tables
        PROVE  tabs[u] = [base.tables[u] EXCEPT !.cons = {Ref(c) : c \in base.tables[u].cons}]
    BY DEF WithCons
  <2>2. DOMAIN tabs = DOMAIN base.tables
    OBVIOUS
  <2> HIDE DEF tabs, Ref
  <2>3. ASSUME NEW u \in DOMAIN base.tables PROVE DOMAIN base.tables[u] = {"cols", "cons"}
    BY <1>3 DEF CatalogShape, CatalogTable
  <2> QED BY <2>1, <2>2, <2>3
<1> HIDE DEF base, tabs, views, r
<1>6. r.tables = tabs /\ r.views = views
  BY <1>1, <1>3 DEF CatalogShape
<1>7. Tables(r) = Tables(base)
  BY <1>5, <1>6, SameTables
<1>8. /\ DOMAIN base.tables = (DOMAIN cat.tables \ {s.table}) \cup {s.to} /\ base.tables[s.to] = own
      /\ \A y \in DOMAIN cat.tables : y # s.table => base.tables[y] = cat.tables[y]
  <2> HIDE DEF own
  <2> QED BY <1>2, <1>3 DEF With, Without
<1>9. Moved(Tables(cat), Tables(base), s.table, s.to)
  <2> HIDE DEF own
  <2> QED BY <1>2, <1>8 DEF Tables, Moved
<1>10. Tables(base)[s.to] = Tables(cat)[s.table]
  BY <1>2, <1>8 DEF Tables
<1>11. IsFunction(r.views) /\ DOMAIN r.views = DOMAIN cat.views
  BY <1>4, <1>6 DEF IsFunction
<1>12. ASSUME NEW v \in DOMAIN cat.views, cat.views[v].on # s.table, IsFiniteSet(cat.views[v].uses)
       PROVE  SameView(cat.views[v], r.views[v])
  <2>1. r.views[v] = [on |-> cat.views[v].on, uses |-> ToSet(SetToSeq(cat.views[v].uses))]
    BY <1>4, <1>6, <1>12
  <2> QED BY <1>12, <2>1, ListedSet DEF SameView
<1> QED BY <1>7, <1>9, <1>10, <1>11, <1>12 DEF r

\* A sequence without a is the same after a swap of a.
LEMMA SwapOther ==
    ASSUME NEW S, IsSeq(S), NEW a, NEW b, a \notin ToSet(S)
    PROVE  ToSet(Swap(S, a, b)) = ToSet(S)
<1>1. \A i \in DOMAIN S : S[i] # a
  BY SeqDomain
<1> QED BY <1>1 DEF Swap, ToSet

\* A renamed column keeps what it is and holds.
LEMMA RenameColumnFields ==
    ASSUME NEW cat, CatalogShape(cat), NEW s, NEW data, s.op = "rename_column", Allowed(cat, s)
    PROVE  LET r == Effect(cat, s, data)
               F == Tables(cat)[s.table]
               G == Tables(r)[s.table]
           IN  /\ s.table \in DOMAIN Tables(cat) /\ OneTable(Tables(cat), Tables(r), s.table)
               /\ Moved(F, G, s.from, s.to) /\ SameColumn(G[s.to], F[s.from]) /\ G[s.to].data = F[s.from].data
               /\ IsFunction(r.views) /\ DOMAIN r.views = DOMAIN cat.views
               /\ \A v \in DOMAIN cat.views : IsFiniteSet(cat.views[v].uses) /\
                    (cat.views[v].on # s.table \/ s.from \notin cat.views[v].uses) =>
                    SameView(cat.views[v], r.views[v])
<1> DEFINE own == cat.tables[s.table]
           cols == own.cols
           To(t, cs) == IF t = s.table THEN Swap(cs, s.from, s.to) ELSE cs
           named == [i \in DOMAIN cols |-> IF cols[i].name = s.from THEN [cols[i] EXCEPT !.name = s.to]
                                           ELSE cols[i]]
           t == [cols |-> named, cons |-> {[c EXCEPT !.cols = Swap(@, s.from, s.to)] : c \in own.cons}]
           base == [cat EXCEPT !.tables = With(cat.tables, s.table, t)]
           Ref(c) == IF c.kind = "foreign_key" THEN [c EXCEPT !.refCols = To(c.table, @), !.table = @] ELSE c
           tabs == [u \in DOMAIN base.tables |->
                      WithCons(base.tables[u], {Ref(c) : c \in base.tables[u].cons})]
           views == [v \in DOMAIN base.views |->
                       [on |-> base.views[v].on, uses |-> ToSet(To(base.views[v].on, SetToSeq(base.views[v].uses)))]]
           r == Effect(cat, s, data)
<1>1. r = [base EXCEPT !.tables = tabs, !.views = views]
  BY DEF Effect, RenameRefs
<1>2. /\ s.table \in DOMAIN cat.tables /\ CatalogTable(own)
      /\ s.from \in ColNames(own) /\ s.to \notin ColNames(own)
  BY DEF Allowed, CatalogShape, HasColumn
<1>3. base.views = cat.views /\ base.tables = With(cat.tables, s.table, t) /\ DOMAIN base = {"tables", "views", "enums", "fresh"}
  <2> HIDE DEF t
  <2> QED BY DEF CatalogShape
<1>4. views = [v \in DOMAIN cat.views |->
                 [on |-> cat.views[v].on, uses |-> ToSet(To(cat.views[v].on, SetToSeq(cat.views[v].uses)))]]
  BY <1>3
<1>5. t.cols = named /\ DOMAIN t = {"cols", "cons"}
  OBVIOUS
<1> HIDE DEF t
<1>6. DOMAIN base.tables = DOMAIN cat.tables /\ \A u \in DOMAIN base.tables : DOMAIN base.tables[u] = {"cols", "cons"}
  <2> HIDE DEF base
  <2> QED BY SMTT(30), <1>2, <1>3, <1>5 DEF With, CatalogShape, CatalogTable
<1>7. DOMAIN tabs = DOMAIN base.tables /\ \A u \in DOMAIN base.tables : tabs[u].cols = base.tables[u].cols
  <2> HIDE DEF base, To
  <2>1. ASSUME NEW u \in DOMAIN base.tables
        PROVE  tabs[u] = [base.tables[u] EXCEPT !.cons = {Ref(c) : c \in base.tables[u].cons}]
    BY DEF WithCons
  <2>2. DOMAIN tabs = DOMAIN base.tables
    OBVIOUS
  <2> HIDE DEF tabs, Ref
  <2> QED BY <1>6, <2>1, <2>2
<1> HIDE DEF base, tabs, views, r, named
<1>8. r.tables = tabs /\ r.views = views
  BY <1>1, <1>3
<1>9. Tables(r) = Tables(base)
  BY <1>7, <1>8, SameTables
<1>10. OneTable(Tables(cat), Tables(base), s.table) /\ Tables(base)[s.table] = Fields(t) /\ Tables(cat)[s.table] = Fields(own)
  <2>1. OneTable(Tables(cat), Tables(base), s.table) /\ Tables(base)[s.table] = Fields(t)
    BY <1>3, TablesPut
  <2> QED BY <1>2, <2>1 DEF Tables
<1>11. CatalogColumns(cols) /\ \A i \in DOMAIN cols : cols[i].name # s.to
  BY <1>2, TableParts DEF ColNames
<1>12. /\ DOMAIN named = DOMAIN cols /\ CatalogColumns(named)
       /\ \A i \in DOMAIN cols : /\ named[i].name = IF cols[i].name = s.from THEN s.to ELSE cols[i].name
                                 /\ cols[i].name # s.from => named[i] = cols[i]
                                 /\ SameColumn(named[i], cols[i]) /\ named[i].data = cols[i].data
  <2> HIDE DEF own
  <2>1. CatalogColumns(named)
    BY <1>11, RenamedColumn DEF named
  <2>2. ASSUME NEW i \in DOMAIN cols PROVE DOMAIN cols[i] = {"name", "type", "notNull", "default", "data"}
    BY <1>11 DEF CatalogColumns, ColumnFields
  <2> QED BY <2>1, <2>2 DEF named, SameColumn
<1> HIDE DEF own
<1>13. /\ \A i \in DOMAIN cols : named[i].name \in ColNames(t) /\ ColOf(t, named[i].name) = named[i]
       /\ \A k \in ColNames(t) : \E i \in DOMAIN cols : named[i].name = k
  <2>1. \A i, j \in DOMAIN t.cols : t.cols[i].name = t.cols[j].name => i = j
    BY <1>5, <1>12 DEF CatalogColumns
  <2> QED BY <1>5, <1>12, <2>1, ColOfFacts
<1>14. /\ \A i \in DOMAIN cols : cols[i].name \in ColNames(own) /\ ColOf(own, cols[i].name) = cols[i]
       /\ \A k \in ColNames(own) : \E i \in DOMAIN cols : cols[i].name = k
  <2>1. \A i, j \in DOMAIN own.cols : own.cols[i].name = own.cols[j].name => i = j
    BY <1>11 DEF CatalogColumns
  <2> QED BY <2>1, ColOfFacts
<1>15. /\ DOMAIN Fields(own) = ColNames(own) /\ DOMAIN Fields(t) = ColNames(t)
       /\ \A i \in DOMAIN cols : Fields(own)[cols[i].name] = cols[i] /\ Fields(t)[named[i].name] = named[i]
  BY <1>13, <1>14 DEF Fields
<1>16. ColNames(t) = (ColNames(own) \ {s.from}) \cup {s.to}
  <2>1. ASSUME NEW k \in ColNames(t) PROVE k \in (ColNames(own) \ {s.from}) \cup {s.to}
    BY <1>12, <1>13, <1>14
  <2>2. ASSUME NEW k \in ColNames(own), k # s.from PROVE k \in ColNames(t)
    BY <1>12, <1>13, <1>14, <2>2
  <2>3. s.to \in ColNames(t)
    BY <1>2, <1>12, <1>13, <1>14
  <2> QED BY <2>1, <2>2, <2>3
<1>17. ASSUME NEW y \in ColNames(own), y # s.from PROVE Fields(t)[y] = Fields(own)[y]
  BY <1>12, <1>14, <1>15, <1>17
<1>18. Moved(Fields(own), Fields(t), s.from, s.to)
  BY <1>2, <1>15, <1>16, <1>17 DEF Moved
<1>19. SameColumn(Fields(t)[s.to], Fields(own)[s.from]) /\ Fields(t)[s.to].data = Fields(own)[s.from].data
  <2>1. PICK i \in DOMAIN cols : cols[i].name = s.from
    BY <1>2, <1>14
  <2> QED BY <1>12, <1>15, <2>1
<1>20. IsFunction(r.views) /\ DOMAIN r.views = DOMAIN cat.views
  BY <1>4, <1>8 DEF IsFunction
<1>21. ASSUME NEW v \in DOMAIN cat.views, IsFiniteSet(cat.views[v].uses),
              cat.views[v].on # s.table \/ s.from \notin cat.views[v].uses
       PROVE  SameView(cat.views[v], r.views[v])
  <2> DEFINE uses == cat.views[v].uses
             S == SetToSeq(uses)
  <2>1. r.views[v] = [on |-> cat.views[v].on, uses |-> ToSet(To(cat.views[v].on, S))]
    BY <1>4, <1>8, <1>21
  <2>2. IsSeq(S) /\ ToSet(S) = uses
    BY <1>21, ListedSet
  <2> HIDE DEF S
  <2>3. ToSet(To(cat.views[v].on, S)) = uses
    BY <1>21, <2>2, SwapOther
  <2> QED BY <2>1, <2>3 DEF SameView
<1>22. s.table \in DOMAIN Tables(cat)
  BY <1>2 DEF Tables
<1> QED BY <1>9, <1>10, <1>18, <1>19, <1>20, <1>21, <1>22 DEF r

--------------------------------------------------------------------------------
(* The names of indexes                                                       *)

\* What becomes of a constraint leaves its kind and name alone.
LEMMA ApartFacts ==
    ASSUME NEW c, Apart(c)
    PROVE  /\ Apart(Stored(c)) /\ \A x : Apart([c EXCEPT !.cols = x])
           /\ \A x, y : Apart([c EXCEPT !.refCols = x, !.table = y])
BY DEF Apart, Stored

\* The foreign key of a column brings no index.
LEMMA InlineApart ==
    ASSUME NEW t, NEW cols
    PROVE  \A c \in InlineKeys(t, cols) : Apart(c)
<1>1. ASSUME NEW col PROVE Apart(InlineKey(t, col))
  <2>1. InlineKey(t, col).kind = "foreign_key" /\ {"kind", "name"} \subseteq DOMAIN InlineKey(t, col)
    BY DEF InlineKey
  <2> QED BY <2>1 DEF Apart, IndexKinds
<1> QED BY <1>1 DEF InlineKeys

\* One table put.
LEMMA ApartPut ==
    ASSUME NEW cat, IndexesApart(cat), NEW x, NEW t, \A c \in t.cons : Apart(c),
           NEW r, r.tables = With(cat.tables, x, t)
    PROVE  IndexesApart(r)
BY DEF With, IndexesApart


\* A statement whose constraints bring no index called like a table leaves none.
LEMMA ApartKept ==
    ASSUME NEW cat, CatalogShape(cat), IndexesApart(cat), NEW s, NEW data, s.op \in Operations, Allowed(cat, s),
           s.op = "create_table" => \A c \in ToSet(s.cons) : Apart(c),
           s.op \in {"create_index", "add_constraint"} => Apart(s.con)
    PROVE  IndexesApart(Effect(cat, s, data))
<1> DEFINE own == cat.tables[s.table]
           r == Effect(cat, s, data)
<1>1. CASE s.op = "create_table" /\ s.table \notin Relations(cat)
  <2> DEFINE t == [cols |-> [i \in DOMAIN s.cols |-> Column(s.cols[i], <<s.table, s.cols[i].name, data>>)],
                   cons |-> {Stored(c) : c \in ToSet(s.cons)} \cup InlineKeys(s.table, s.cols)]
  <2>1. r.tables = With(cat.tables, s.table, t)
    BY <1>1 DEF Effect, CatalogShape
  <2>2. \A c \in t.cons : Apart(c)
    BY <1>1, ApartFacts, InlineApart
  <2> HIDE DEF t, r
  <2> QED BY <2>1, <2>2, ApartPut DEF r
<1>2. CASE s.op = "create_table" /\ s.table \in Relations(cat)
  BY <1>2 DEF Effect
<1>3. CASE s.op \in {"create_index", "add_constraint", "drop_constraint"}
  <2>1. s.table \in DOMAIN cat.tables /\ CatalogTable(own)
    BY <1>3 DEF Allowed, CatalogShape
  <2> DEFINE S == IF s.op = "drop_constraint" THEN {c \in own.cons : c.name # s.name \/ c.kind \in IndexKinds}
                  ELSE own.cons \cup {Stored(s.con)}
             t == [own EXCEPT !.cons = S]
  <2>2. r.tables = With(cat.tables, s.table, t)
    BY <1>3 DEF Effect, CatalogShape
  <2>3. t.cons = S
    BY <2>1 DEF CatalogTable
  <2>4. \A c \in S : Apart(c)
    BY <1>3, <2>1, ApartFacts DEF IndexesApart
  <2> HIDE DEF S, t, r
  <2> QED BY <2>2, <2>3, <2>4, ApartPut DEF r
<1>4. CASE s.op = "drop_table"
  BY <1>4 DEF Effect, CatalogShape, Without, IndexesApart
<1>5. CASE s.op = "add_column"
  <2> DEFINE t == [cols |-> Append(own.cols, Column(s.col, <<s.table, s.col.name, data>>)),
                   cons |-> own.cons \cup InlineKeys(s.table, <<s.col>>)]
  <2>1. r.tables = With(cat.tables, s.table, t) /\ s.table \in DOMAIN cat.tables
    BY <1>5 DEF Effect, CatalogShape, Allowed
  <2>2. \A c \in t.cons : Apart(c)
    BY <2>1, InlineApart DEF IndexesApart
  <2> HIDE DEF t, r
  <2> QED BY <2>1, <2>2, ApartPut DEF r
<1>6. CASE s.op = "drop_column"
  <2> DEFINE cols == FlatMap(LAMBDA c : When(c.name # s.col.name, <<c>>), own.cols)
             S == {c \in own.cons : s.col.name \notin ToSet(c.cols)}
             t == [cols |-> cols, cons |-> S]
  <2>1. r.tables = With(cat.tables, s.table, t) /\ s.table \in DOMAIN cat.tables
    BY <1>6 DEF Effect, CatalogShape, Allowed, HasColumn
  <2>2. t.cons = S
    OBVIOUS
  <2>3. \A c \in S : Apart(c)
    BY <2>1 DEF IndexesApart
  <2> HIDE DEF t, r, S
  <2> QED BY <2>1, <2>2, <2>3, ApartPut DEF r
<1>7. CASE s.op \in {"alter_column_type", "alter_column_nullable", "alter_column_default"}
  <2> DEFINE set(c) == CASE s.op = "alter_column_type"     -> [c EXCEPT !.type = s.col.type]
                         [] s.op = "alter_column_nullable" -> [c EXCEPT !.notNull = s.col.notNull]
                         [] s.op = "alter_column_default"  -> [c EXCEPT !.default = s.col.default]
             cols == [i \in DOMAIN own.cols |-> IF own.cols[i].name = s.col.name THEN set(own.cols[i]) ELSE own.cols[i]]
             t == [own EXCEPT !.cols = cols]
  <2>1. r.tables = With(cat.tables, s.table, t) /\ s.table \in DOMAIN cat.tables
    BY <1>7 DEF Effect, CatalogShape, Allowed, HasColumn
  <2> HIDE DEF cols, r
  <2>2. t.cons = own.cons
    BY <2>1 DEF CatalogShape, CatalogTable
  <2>3. \A c \in t.cons : Apart(c)
    BY <2>1, <2>2 DEF IndexesApart
  <2> HIDE DEF t
  <2> QED BY <2>1, <2>3, ApartPut DEF r
<1>8. CASE s.op = "drop_index"
  <2>1. r.tables = [t \in DOMAIN cat.tables |-> WithCons(cat.tables[t], {c \in cat.tables[t].cons :
                                                            c.name # s.name \/ c.kind \notin IndexKinds})]
    BY <1>8 DEF Effect, CatalogShape
  <2> HIDE DEF r
  <2>2. \A u \in DOMAIN r.tables : u \in DOMAIN cat.tables /\ r.tables[u].cons \subseteq cat.tables[u].cons
    BY <2>1 DEF WithCons, CatalogShape, CatalogTable
  <2> QED BY <2>2 DEF IndexesApart, r
<1>9. CASE s.op \in {"create_view", "drop_view", "create_type", "add_value", "drop_type"}
  <2>1. r.tables = cat.tables
    BY <1>9 DEF Effect, CatalogShape
  <2> QED BY <2>1 DEF IndexesApart
<1>10. CASE s.op = "rename_table"
  <2> DEFINE base == [cat EXCEPT !.tables = With(Without(@, s.table), s.to, own)]
             To(t) == IF t = s.table THEN s.to ELSE t
             Ref(c) == IF c.kind = "foreign_key" THEN [c EXCEPT !.refCols = @, !.table = To(@)] ELSE c
             tabs == [u \in DOMAIN base.tables |->
                        WithCons(base.tables[u], {Ref(c) : c \in base.tables[u].cons})]
             views == [v \in DOMAIN base.views |->
                         [on |-> To(base.views[v].on), uses |-> ToSet(SetToSeq(base.views[v].uses))]]
  <2>1. r = [base EXCEPT !.tables = tabs, !.views = views]
    BY <1>10 DEF Effect, RenameRefs
  <2>2. s.table \in DOMAIN cat.tables /\ CatalogTable(own)
    BY <1>10 DEF Allowed, CatalogShape
  <2>3. CatalogShape(base) /\ base.tables = With(Without(cat.tables, s.table), s.to, own)
    <3> HIDE DEF own
    <3> QED BY <2>2 DEF CatalogShape, With, Without
  <2> HIDE DEF base, own
  <2>4. \A u \in DOMAIN base.tables : \A c \in base.tables[u].cons : Apart(c)
    <3>1. \A u \in DOMAIN base.tables : base.tables[u] = own \/ (u \in DOMAIN cat.tables /\ base.tables[u] = cat.tables[u])
      BY <2>3 DEF With, Without
    <3> QED BY <2>2, <3>1 DEF IndexesApart, own
  <2>5. \A c : Apart(c) => Apart(Ref(c))
    BY ApartFacts
  <2>6. ASSUME NEW u \in DOMAIN base.tables
        PROVE  tabs[u] = [base.tables[u] EXCEPT !.cons = {Ref(c) : c \in base.tables[u].cons}]
    <3> HIDE DEF To
    <3> QED BY DEF WithCons
  <2>7. DOMAIN tabs = DOMAIN base.tables
    OBVIOUS
  <2> HIDE DEF tabs, Ref, views, r
  <2>8. r.tables = tabs
    BY <2>1, <2>3 DEF CatalogShape
  <2>9. \A u \in DOMAIN base.tables : tabs[u].cons = {Ref(c) : c \in base.tables[u].cons}
    BY <2>3, <2>6 DEF CatalogShape, CatalogTable
  <2> QED BY <2>4, <2>5, <2>7, <2>8, <2>9 DEF IndexesApart, r
<1>11. CASE s.op = "rename_column"
  <2> DEFINE cols == own.cols
             To(t, cs) == IF t = s.table THEN Swap(cs, s.from, s.to) ELSE cs
             named == [i \in DOMAIN cols |-> IF cols[i].name = s.from THEN [cols[i] EXCEPT !.name = s.to]
                                             ELSE cols[i]]
             Turned(c) == [c EXCEPT !.cols = Swap(@, s.from, s.to)]
             t == [cols |-> named, cons |-> {Turned(c) : c \in own.cons}]
             base == [cat EXCEPT !.tables = With(cat.tables, s.table, t)]
             Ref(c) == IF c.kind = "foreign_key" THEN [c EXCEPT !.refCols = To(c.table, @), !.table = @] ELSE c
             tabs == [u \in DOMAIN base.tables |->
                        WithCons(base.tables[u], {Ref(c) : c \in base.tables[u].cons})]
             views == [v \in DOMAIN base.views |->
                         [on |-> base.views[v].on, uses |-> ToSet(To(base.views[v].on, SetToSeq(base.views[v].uses)))]]
  <2>1. r = [base EXCEPT !.tables = tabs, !.views = views]
    BY <1>11 DEF Effect, RenameRefs
  <2>2. s.table \in DOMAIN cat.tables /\ CatalogTable(own)
    BY <1>11 DEF Allowed, CatalogShape, HasColumn
  <2>3. \A c : Apart(c) => Apart(Turned(c)) /\ Apart(Ref(c))
    BY ApartFacts
  <2>4. \A c \in t.cons : Apart(c)
    <3>1. \A c \in own.cons : Apart(c)
      BY <2>2 DEF IndexesApart
    <3> HIDE DEF Turned, Ref, own
    <3> QED BY <2>3, <3>1
  <2>5. DOMAIN t = {"cols", "cons"}
    OBVIOUS
  <2> HIDE DEF t, Turned
  <2>6. base.tables = With(cat.tables, s.table, t) /\ DOMAIN base = {"tables", "views", "enums", "fresh"}
    BY DEF CatalogShape
  <2> HIDE DEF base, own, To
  <2>7. \A u \in DOMAIN base.tables : DOMAIN base.tables[u] = {"cols", "cons"} /\ \A c \in base.tables[u].cons : Apart(c)
    <3>1. \A u \in DOMAIN base.tables : base.tables[u] = t \/ (u \in DOMAIN cat.tables /\ base.tables[u] = cat.tables[u])
      BY <2>6 DEF With
    <3> QED BY <2>4, <2>5, <3>1 DEF IndexesApart, CatalogShape, CatalogTable
  <2>8. ASSUME NEW u \in DOMAIN base.tables
        PROVE  tabs[u] = [base.tables[u] EXCEPT !.cons = {Ref(c) : c \in base.tables[u].cons}]
    BY DEF WithCons
  <2>9. DOMAIN tabs = DOMAIN base.tables
    OBVIOUS
  <2> HIDE DEF tabs, Ref, views, r
  <2>10. r.tables = tabs
    BY <2>1, <2>6
  <2>11. \A u \in DOMAIN base.tables : tabs[u].cons = {Ref(c) : c \in base.tables[u].cons}
    BY <2>7, <2>8
  <2> QED BY <2>3, <2>7, <2>9, <2>10, <2>11 DEF IndexesApart, r
<1> QED BY <1>1, <1>2, <1>3, <1>4, <1>5, <1>6, <1>7, <1>8, <1>9, <1>10, <1>11 DEF Operations

--------------------------------------------------------------------------------
(* Renames                                                                    *)

\* No two columns share a name.
Unique(t) == \A i, j \in DOMAIN t.cols : t.cols[i].name = t.cols[j].name => i = j

\* A renamed table is an old one that is no more; the new one names it as its previous.
LEMMA TableRenamesFacts ==
    ASSUME NEW o, NEW n, Known(n)
    PROVE  LET R == TableRenames(o, n)
           IN  /\ \A t \in DOMAIN R : /\ t \in DOMAIN o.tables \ DOMAIN n.tables
                                      /\ R[t] \in DOMAIN n.tables \ DOMAIN o.tables
                                      /\ n.tables[R[t]].prev = t
               /\ \A u \in RenameTargets(o, n) : RenamedTo(o, n, u) \in DOMAIN R /\ R[RenamedTo(o, n, u)] = u
<1> DEFINE Claims(t) == {u \in DOMAIN n.tables \ DOMAIN o.tables : n.tables[u].prev = t}
           R == TableRenames(o, n)
<1>1. R = [t \in {d \in DOMAIN o.tables \ DOMAIN n.tables : Claims(d) # {}} |-> Head(Sorted(Claims(t)))]
  BY DEF TableRenames
<1> HIDE DEF R
<1>2. ASSUME NEW t \in DOMAIN R
      PROVE  /\ t \in DOMAIN o.tables \ DOMAIN n.tables
             /\ R[t] \in DOMAIN n.tables \ DOMAIN o.tables /\ n.tables[R[t]].prev = t
  <2>1. t \in DOMAIN o.tables \ DOMAIN n.tables /\ Claims(t) # {} /\ R[t] = Head(Sorted(Claims(t)))
    BY <1>1
  <2>2. Claims(t) \subseteq ToSet(Alphabet)
    BY DEF Known
  <2>3. R[t] \in Claims(t)
    <3> HIDE DEF Claims
    <3> QED BY <2>1, <2>2, SortedHead
  <2> QED BY <2>1, <2>3
<1>3. ASSUME NEW u \in RenameTargets(o, n) PROVE RenamedTo(o, n, u) \in DOMAIN R /\ R[RenamedTo(o, n, u)] = u
  <2>1. \E t \in DOMAIN R : R[t] = u
    BY <1>3 DEF RenameTargets, R
  <2> QED BY <2>1 DEF RenamedTo, R
<1> QED BY <1>2, <1>3 DEF R

\* Every old table is dropped or lives on in exactly one new table, and every other new
\* table has a name no old table had.
LEMMA TableNames ==
    ASSUME NEW o, NEW n, Known(n)
    PROVE  /\ \A u \in OldTables(o, n) :
                /\ u \in DOMAIN n.tables /\ OldName(o, n, u) \in DOMAIN o.tables
                /\ OldName(o, n, u) \notin Dropped(o, n)
                /\ u \in DOMAIN o.tables => OldName(o, n, u) = u
                /\ OldName(o, n, u) # u => OldName(o, n, u) \notin DOMAIN n.tables /\ u \notin DOMAIN o.tables
           /\ \A u, w \in OldTables(o, n) : OldName(o, n, u) = OldName(o, n, w) => u = w
           /\ DOMAIN n.tables = OldTables(o, n) \cup NewTables(o, n)
           /\ NewTables(o, n) \cap (OldTables(o, n) \cup DOMAIN o.tables) = {}
           /\ Dropped(o, n) \subseteq DOMAIN o.tables \ DOMAIN n.tables
           /\ \A t \in DOMAIN o.tables : t \in Dropped(o, n) \/ \E u \in OldTables(o, n) : OldName(o, n, u) = t
           /\ \A u \in RenameTargets(o, n) : /\ u \in OldTables(o, n) /\ OldName(o, n, u) = RenamedTo(o, n, u)
                                             /\ OldName(o, n, u) # u
<1> DEFINE R == TableRenames(o, n)
<1>1. \A t \in DOMAIN R : /\ t \in DOMAIN o.tables \ DOMAIN n.tables
                          /\ R[t] \in DOMAIN n.tables \ DOMAIN o.tables
                          /\ n.tables[R[t]].prev = t
  BY TableRenamesFacts
<1>2. \A u \in RenameTargets(o, n) : RenamedTo(o, n, u) \in DOMAIN R /\ R[RenamedTo(o, n, u)] = u
  BY TableRenamesFacts
<1>3. RenameTargets(o, n) = {R[t] : t \in DOMAIN R}
  BY DEF RenameTargets
<1>4. Dropped(o, n) = (DOMAIN o.tables \ DOMAIN n.tables) \ DOMAIN R
  BY DEF Dropped
<1> HIDE DEF R
<1>5. ASSUME NEW u \in OldTables(o, n)
      PROVE  /\ u \in DOMAIN n.tables /\ OldName(o, n, u) \in DOMAIN o.tables
             /\ OldName(o, n, u) \notin Dropped(o, n)
             /\ u \in DOMAIN o.tables => OldName(o, n, u) = u
             /\ OldName(o, n, u) # u => /\ OldName(o, n, u) \notin DOMAIN n.tables /\ u \notin DOMAIN o.tables
                                        /\ OldName(o, n, u) \in DOMAIN R /\ R[OldName(o, n, u)] = u
  <2>1. CASE u \in RenameTargets(o, n)
    BY <1>1, <1>2, <1>3, <1>4, <2>1 DEF OldName
  <2>2. CASE u \notin RenameTargets(o, n)
    BY <1>4, <1>5, <2>2 DEF OldName, OldTables
  <2> QED BY <2>1, <2>2
<1>6. ASSUME NEW u \in OldTables(o, n), NEW w \in OldTables(o, n), OldName(o, n, u) = OldName(o, n, w)
      PROVE  u = w
  BY <1>5, <1>6
<1>7. /\ DOMAIN n.tables = OldTables(o, n) \cup NewTables(o, n)
      /\ NewTables(o, n) \cap (OldTables(o, n) \cup DOMAIN o.tables) = {}
  BY <1>1, <1>3 DEF OldTables, NewTables
<1>8. \A u \in RenameTargets(o, n) : /\ u \in OldTables(o, n) /\ OldName(o, n, u) = RenamedTo(o, n, u)
                                     /\ OldName(o, n, u) # u
  BY <1>1, <1>2, <1>3 DEF OldTables, OldName
<1>9. ASSUME NEW t \in DOMAIN o.tables, t \notin Dropped(o, n)
      PROVE  \E u \in OldTables(o, n) : OldName(o, n, u) = t
  <2>1. CASE t \in DOMAIN n.tables
    BY <1>5, <2>1 DEF OldTables
  <2>2. CASE t \in DOMAIN R
    <3>1. R[t] \in RenameTargets(o, n) /\ R[t] \in DOMAIN n.tables
      BY <1>1, <1>3, <2>2
    <3>2. R[t] \in OldTables(o, n) /\ OldName(o, n, R[t]) = RenamedTo(o, n, R[t])
      BY <1>8, <3>1
    <3>3. n.tables[R[t]].prev = t /\ n.tables[R[t]].prev = RenamedTo(o, n, R[t])
      BY <1>1, <1>2, <2>2, <3>1
    <3> QED BY <3>2, <3>3
  <2> QED BY <1>4, <1>9, <2>1, <2>2
<1>10. Dropped(o, n) \subseteq DOMAIN o.tables \ DOMAIN n.tables
  BY <1>4
<1> QED BY <1>5, <1>6, <1>7, <1>8, <1>9, <1>10

\* The same of the columns of a table.
LEMMA ColRenamesFacts ==
    ASSUME NEW ot, NEW nt, IsSeq(nt.cols), Unique(nt)
    PROVE  LET R == ColRenames(ot, nt)
           IN  \A c \in DOMAIN R : /\ c \in ColNames(ot) \ ColNames(nt)
                                   /\ R[c] \in ColNames(nt) \ ColNames(ot)
                                   /\ ColOf(nt, R[c]).prev = c
<1> DEFINE Claims(c) == {i \in DOMAIN nt.cols : nt.cols[i].prev = c /\ nt.cols[i].name \notin ColNames(ot)}
           R == ColRenames(ot, nt)
<1>1. R = [c \in {d \in ColNames(ot) \ ColNames(nt) : Claims(d) # {}} |-> nt.cols[Min(Claims(c))].name]
  BY DEF ColRenames
<1> HIDE DEF R
<1>2. ASSUME NEW c \in DOMAIN R
      PROVE  c \in ColNames(ot) \ ColNames(nt) /\ R[c] \in ColNames(nt) \ ColNames(ot) /\ ColOf(nt, R[c]).prev = c
  <2>1. c \in ColNames(ot) \ ColNames(nt) /\ Claims(c) # {} /\ R[c] = nt.cols[Min(Claims(c))].name
    BY <1>1
  <2>2. Claims(c) \subseteq Nat
    BY SeqDomain
  <2>3. Min(Claims(c)) \in Claims(c)
    <3> HIDE DEF Claims
    <3>1. PICK x : x \in Claims(c)
      BY <2>1
    <3>2. \E y \in Claims(c) : \A j \in Claims(c) : y <= j
      BY <2>2, <3>1, LeastNumber
    <3> QED BY <3>2 DEF Min
  <2>4. \A i \in DOMAIN nt.cols : nt.cols[i].name \in ColNames(nt) /\ ColOf(nt, nt.cols[i].name) = nt.cols[i]
    BY ColOfFacts DEF Unique
  <2> QED BY <2>1, <2>3, <2>4
<1> QED BY <1>2 DEF R

\* Every old column is dropped or lives on in exactly one new column, and every other new
\* column has a name no old column had.
LEMMA ColumnNames ==
    ASSUME NEW ot, NEW nt, IsSeq(nt.cols), Unique(nt)
    PROVE  /\ \A k \in OldCols(ot, nt) :
                /\ k \in ColNames(nt) /\ OldColName(ot, nt, k) \in ColNames(ot)
                /\ OldColName(ot, nt, k) \notin GoneCols(ot, nt)
                /\ k \in ColNames(ot) => OldColName(ot, nt, k) = k
                /\ OldColName(ot, nt, k) # k => OldColName(ot, nt, k) \notin ColNames(nt) /\ k \notin ColNames(ot)
           /\ \A k, h \in OldCols(ot, nt) : OldColName(ot, nt, k) = OldColName(ot, nt, h) => k = h
           /\ ColNames(nt) = OldCols(ot, nt) \cup NewCols(ot, nt)
           /\ NewCols(ot, nt) \cap (OldCols(ot, nt) \cup ColNames(ot)) = {}
           /\ GoneCols(ot, nt) \subseteq ColNames(ot) \ ColNames(nt)
           /\ \A c \in ColNames(ot) : c \in GoneCols(ot, nt) \/ \E k \in OldCols(ot, nt) : OldColName(ot, nt, k) = c
           /\ \A k \in ColTargets(ot, nt) : /\ k \in OldCols(ot, nt) /\ OldColName(ot, nt, k) # k
                                            /\ OldColName(ot, nt, k) \in DOMAIN ColRenames(ot, nt)
                                            /\ ColRenames(ot, nt)[OldColName(ot, nt, k)] = k
<1> DEFINE R == ColRenames(ot, nt)
<1>1. \A c \in DOMAIN R : /\ c \in ColNames(ot) \ ColNames(nt)
                          /\ R[c] \in ColNames(nt) \ ColNames(ot)
                          /\ ColOf(nt, R[c]).prev = c
  BY ColRenamesFacts
<1>2. ColTargets(ot, nt) = {R[c] : c \in DOMAIN R}
  BY DEF ColTargets
<1>3. GoneCols(ot, nt) = ColNames(ot) \ (ColNames(nt) \cup DOMAIN R)
  BY DEF GoneCols
<1>4. ASSUME NEW k \in ColTargets(ot, nt)
      PROVE  /\ k \in OldCols(ot, nt) /\ OldColName(ot, nt, k) # k
             /\ OldColName(ot, nt, k) \in DOMAIN R /\ R[OldColName(ot, nt, k)] = k
  <2>1. k \in OldCols(ot, nt) /\ k \notin ColNames(ot) /\ \E c \in DOMAIN R : R[c] = k
    BY <1>1, <1>2 DEF OldCols
  <2>2. OldColName(ot, nt, k) \in DOMAIN R /\ R[OldColName(ot, nt, k)] = k
    BY <2>1 DEF OldColName
  <2> QED BY <1>1, <2>1, <2>2
<1> HIDE DEF R
<1>5. ASSUME NEW k \in OldCols(ot, nt)
      PROVE  /\ k \in ColNames(nt) /\ OldColName(ot, nt, k) \in ColNames(ot)
             /\ OldColName(ot, nt, k) \notin GoneCols(ot, nt)
             /\ k \in ColNames(ot) => OldColName(ot, nt, k) = k
             /\ OldColName(ot, nt, k) # k => /\ OldColName(ot, nt, k) \notin ColNames(nt) /\ k \notin ColNames(ot)
                                             /\ OldColName(ot, nt, k) \in DOMAIN R /\ R[OldColName(ot, nt, k)] = k
  <2>1. CASE k \in ColTargets(ot, nt)
    BY <1>1, <1>2, <1>3, <1>4, <2>1
  <2>2. CASE k \in ColNames(ot) \cap ColNames(nt)
    BY <1>3, <2>2 DEF OldColName
  <2> QED BY <1>5, <2>1, <2>2 DEF OldCols
<1>6. ASSUME NEW k \in OldCols(ot, nt), NEW h \in OldCols(ot, nt), OldColName(ot, nt, k) = OldColName(ot, nt, h)
      PROVE  k = h
  BY <1>5, <1>6
<1>7. /\ ColNames(nt) = OldCols(ot, nt) \cup NewCols(ot, nt)
      /\ NewCols(ot, nt) \cap (OldCols(ot, nt) \cup ColNames(ot)) = {}
  BY <1>1, <1>2 DEF OldCols, NewCols
<1>8. ASSUME NEW c \in ColNames(ot), c \notin GoneCols(ot, nt)
      PROVE  \E k \in OldCols(ot, nt) : OldColName(ot, nt, k) = c
  <2>1. CASE c \in ColNames(nt)
    BY <1>5, <2>1 DEF OldCols
  <2>2. CASE c \in DOMAIN R
    <3>1. R[c] \in ColTargets(ot, nt)
      BY <1>2, <2>2
    <3>2. ColOf(nt, R[c]).prev = c /\ ColOf(nt, R[c]).prev = OldColName(ot, nt, R[c])
      BY <1>1, <1>4, <2>2, <3>1
    <3> QED BY <1>4, <3>1, <3>2
  <2> QED BY <1>3, <1>8, <2>1, <2>2
<1>9. GoneCols(ot, nt) \subseteq ColNames(ot) \ ColNames(nt)
  BY <1>3
<1> QED BY <1>4, <1>5, <1>6, <1>7, <1>8, <1>9 DEF R

--------------------------------------------------------------------------------
(* One statement done: columns                                                *)

ColumnOperations ==
    {"add_column", "drop_column", "rename_column", "alter_column_type", "alter_column_nullable",
     "alter_column_default"}

\* A statement about another table, or not about a column, is not waited for.
LEMMA ColumnsWaitNot ==
    ASSUME NEW F, NEW s, NEW S, NEW u, NEW ot, NEW nt, NEW D,
           s.op \notin ColumnOperations \/ s.table # u,
           ColumnsUnderWay(F, {s} \cup S, u, ot, nt, D)
    PROVE  ColumnsUnderWay(F, S, u, ot, nt, D)
<1>1. \A x \in {s} \cup S : x.op \in ColumnOperations /\ x.table = u => x \in S
  OBVIOUS
<1>2. ASSUME NEW c \in GoneCols(ot, nt), c \in DOMAIN F
      PROVE  \E x \in S : x.op = "drop_column" /\ x.table = u /\ x.col.name = c
  BY <1>1, <1>2 DEF ColumnsUnderWay, ColumnOperations
<1>3. ASSUME NEW k \in NewCols(ot, nt)
      PROVE  IF k \in DOMAIN F THEN SameColumn(F[k], ColOf(nt, k))
             ELSE [op |-> "add_column", table |-> u, col |-> ColOf(nt, k)] \in S
  BY <1>1, <1>3 DEF ColumnsUnderWay, ColumnOperations
<1>4. \A f, c : Altering(f, u, c, {s} \cup S) => Altering(f, u, c, S)
  BY DEF Altering, ColumnOperations
<1>5. \A c, k : RenameColumn(u, c, k) \in {s} \cup S => RenameColumn(u, c, k) \in S
  BY DEF RenameColumn, ColumnOperations
<1>6. ASSUME NEW k \in OldCols(ot, nt)
      PROVE  ColumnGoesOn(F, S, u, OldColName(ot, nt, k), k, ColOf(nt, k), D[OldColName(ot, nt, k)].data)
  <2>1. ColumnGoesOn(F, {s} \cup S, u, OldColName(ot, nt, k), k, ColOf(nt, k), D[OldColName(ot, nt, k)].data)
    BY DEF ColumnsUnderWay
  <2> QED BY <1>4, <1>5, <2>1 DEF ColumnGoesOn
<1>7. DOMAIN F \subseteq ColNames(ot) \cup ColNames(nt)
  BY DEF ColumnsUnderWay
<1> QED BY <1>2, <1>3, <1>6, <1>7 DEF ColumnsUnderWay

\* A column that goes on is not affected by a statement about another one.
LEMMA OtherColumnGoesOn ==
    ASSUME NEW F, NEW G, NEW s, NEW S, NEW u, NEW c, NEW k, NEW nc, NEW data,
           ColumnGoesOn(F, {s} \cup S, u, c, k, nc, data),
           k \in DOMAIN F <=> k \in DOMAIN G, c \in DOMAIN F <=> c \in DOMAIN G,
           k \in DOMAIN F => G[k] = F[k], c \in DOMAIN F => G[c] = F[c],
           s.op = "rename_column" => s.to # k,
           s.op \in {"alter_column_type", "alter_column_nullable", "alter_column_default"} => s.col # nc
    PROVE  ColumnGoesOn(G, S, u, c, k, nc, data)
<1>1. \A f : Altering(f, u, nc, {s} \cup S) => Altering(f, u, nc, S)
  BY DEF Altering
<1>2. RenameColumn(u, c, k) \in {s} \cup S => RenameColumn(u, c, k) \in S
  BY DEF RenameColumn
<1> QED BY <1>1, <1>2 DEF ColumnGoesOn

\* An added column is the new one.
LEMMA AddColumnDone ==
    ASSUME NEW F, NEW G, NEW s, NEW S, NEW u, NEW ot, NEW nt, NEW D, IsSeq(nt.cols), Unique(nt),
           ColumnsUnderWay(F, {s} \cup S, u, ot, nt, D), s.op = "add_column",
           s.col.name \in NewCols(ot, nt), s.col = ColOf(nt, s.col.name),
           OneTable(F, G, s.col.name), SameColumn(G[s.col.name], s.col)
    PROVE  ColumnsUnderWay(G, S, u, ot, nt, D)
<1> DEFINE a == s.col.name
<1>1. DOMAIN G = DOMAIN F \cup {a} /\ \A y \in DOMAIN F : y # a => G[y] = F[y]
  BY DEF OneTable
<1>2. /\ a \notin OldCols(ot, nt) /\ a \notin ColNames(ot) /\ a \in ColNames(nt)
      /\ GoneCols(ot, nt) \subseteq ColNames(ot)
      /\ \A k \in OldCols(ot, nt) : OldColName(ot, nt, k) \in ColNames(ot)
      /\ NewCols(ot, nt) \subseteq ColNames(nt)
  BY ColumnNames
<1>3. \A k \in ColNames(nt) : ColOf(nt, k).name = k
  BY ColOfFacts DEF Unique
<1> HIDE DEF a
<1>4. DOMAIN G \subseteq ColNames(ot) \cup ColNames(nt)
  BY <1>1, <1>2 DEF ColumnsUnderWay
<1>5. ASSUME NEW c \in GoneCols(ot, nt), c \in DOMAIN G
      PROVE  \E x \in S : x.op = "drop_column" /\ x.table = u /\ x.col.name = c
  BY <1>1, <1>2, <1>5 DEF ColumnsUnderWay
<1>6. ASSUME NEW k \in NewCols(ot, nt)
      PROVE  IF k \in DOMAIN G THEN SameColumn(G[k], ColOf(nt, k))
             ELSE [op |-> "add_column", table |-> u, col |-> ColOf(nt, k)] \in S
  <2>1. CASE k = a
    BY <1>1, <2>1 DEF a
  <2>2. CASE k # a
    <3>1. ColOf(nt, k) # s.col
      BY <1>2, <1>3, <2>2 DEF a
    <3> QED BY <1>1, <2>2, <3>1 DEF ColumnsUnderWay
  <2> QED BY <2>1, <2>2
<1>7. ASSUME NEW k \in OldCols(ot, nt)
      PROVE  ColumnGoesOn(G, S, u, OldColName(ot, nt, k), k, ColOf(nt, k), D[OldColName(ot, nt, k)].data)
  <2>1. ColumnGoesOn(F, {s} \cup S, u, OldColName(ot, nt, k), k, ColOf(nt, k), D[OldColName(ot, nt, k)].data)
    BY DEF ColumnsUnderWay
  <2>2. k # a /\ OldColName(ot, nt, k) # a
    BY <1>2
  <2> QED BY <1>1, <2>1, <2>2, OtherColumnGoesOn
<1> QED BY <1>4, <1>5, <1>6, <1>7 DEF ColumnsUnderWay

\* A dropped column is one that was to go.
LEMMA DropColumnDone ==
    ASSUME NEW F, NEW G, NEW s, NEW S, NEW u, NEW ot, NEW nt, NEW D, IsSeq(nt.cols), Unique(nt),
           ColumnsUnderWay(F, {s} \cup S, u, ot, nt, D), s.op = "drop_column",
           s.col.name \in GoneCols(ot, nt),
           DOMAIN G = DOMAIN F \ {s.col.name}, \A h \in DOMAIN G : G[h] = F[h]
    PROVE  ColumnsUnderWay(G, S, u, ot, nt, D)
<1> DEFINE a == s.col.name
<1>1. /\ a \in ColNames(ot) \ ColNames(nt)
      /\ \A k \in OldCols(ot, nt) : k \in ColNames(nt) /\ OldColName(ot, nt, k) # a
      /\ NewCols(ot, nt) \subseteq ColNames(nt)
  BY ColumnNames
<1>2. DOMAIN G \subseteq ColNames(ot) \cup ColNames(nt)
  BY DEF ColumnsUnderWay
<1>3. ASSUME NEW c \in GoneCols(ot, nt), c \in DOMAIN G
      PROVE  \E x \in S : x.op = "drop_column" /\ x.table = u /\ x.col.name = c
  BY <1>3 DEF ColumnsUnderWay
<1>4. ASSUME NEW k \in NewCols(ot, nt)
      PROVE  IF k \in DOMAIN G THEN SameColumn(G[k], ColOf(nt, k))
             ELSE [op |-> "add_column", table |-> u, col |-> ColOf(nt, k)] \in S
  BY <1>1 DEF ColumnsUnderWay
<1>5. ASSUME NEW k \in OldCols(ot, nt)
      PROVE  ColumnGoesOn(G, S, u, OldColName(ot, nt, k), k, ColOf(nt, k), D[OldColName(ot, nt, k)].data)
  <2>1. ColumnGoesOn(F, {s} \cup S, u, OldColName(ot, nt, k), k, ColOf(nt, k), D[OldColName(ot, nt, k)].data)
    BY DEF ColumnsUnderWay
  <2>2. k # a /\ OldColName(ot, nt, k) # a
    BY <1>1
  <2> QED BY <2>1, <2>2, OtherColumnGoesOn
<1> QED BY <1>2, <1>3, <1>4, <1>5 DEF ColumnsUnderWay

\* An altered column comes closer to the new one.
LEMMA AlterColumnDone ==
    ASSUME NEW F, NEW G, NEW s, NEW S, NEW u, NEW ot, NEW nt, NEW D, IsSeq(nt.cols), Unique(nt),
           ColumnsUnderWay(F, {s} \cup S, u, ot, nt, D),
           s.op \in {"alter_column_type", "alter_column_nullable", "alter_column_default"},
           s.col.name \in OldCols(ot, nt), s.col = ColOf(nt, s.col.name), s.col.name \in DOMAIN F,
           OneField(F, G, s.col.name), G[s.col.name].data = F[s.col.name].data,
           G[s.col.name].type = IF s.op = "alter_column_type" THEN s.col.type ELSE F[s.col.name].type,
           G[s.col.name].notNull = IF s.op = "alter_column_nullable" THEN s.col.notNull ELSE F[s.col.name].notNull,
           G[s.col.name].default = IF s.op = "alter_column_default" THEN s.col.default ELSE F[s.col.name].default
    PROVE  ColumnsUnderWay(G, S, u, ot, nt, D)
<1> DEFINE a == s.col.name
<1>1. DOMAIN G = DOMAIN F /\ \A y \in DOMAIN F : y # a => G[y] = F[y]
  BY DEF OneField
<1>2. /\ a \in ColNames(nt) /\ a \notin NewCols(ot, nt)
      /\ \A k \in OldCols(ot, nt) : /\ k \in ColNames(nt)
                                    /\ OldColName(ot, nt, k) # k => OldColName(ot, nt, k) # a
      /\ GoneCols(ot, nt) \cap ColNames(nt) = {}
  BY ColumnNames
<1>3. \A k \in ColNames(nt) : ColOf(nt, k).name = k
  BY ColOfFacts DEF Unique
<1>4. DOMAIN G \subseteq ColNames(ot) \cup ColNames(nt)
  BY <1>1 DEF ColumnsUnderWay
<1>5. ASSUME NEW c \in GoneCols(ot, nt), c \in DOMAIN G
      PROVE  \E x \in S : x.op = "drop_column" /\ x.table = u /\ x.col.name = c
  BY <1>1, <1>5 DEF ColumnsUnderWay
<1>6. ASSUME NEW k \in NewCols(ot, nt)
      PROVE  IF k \in DOMAIN G THEN SameColumn(G[k], ColOf(nt, k))
             ELSE [op |-> "add_column", table |-> u, col |-> ColOf(nt, k)] \in S
  BY <1>1, <1>2 DEF ColumnsUnderWay
<1>7. ASSUME NEW k \in OldCols(ot, nt)
      PROVE  ColumnGoesOn(G, S, u, OldColName(ot, nt, k), k, ColOf(nt, k), D[OldColName(ot, nt, k)].data)
  <2>1. ColumnGoesOn(F, {s} \cup S, u, OldColName(ot, nt, k), k, ColOf(nt, k), D[OldColName(ot, nt, k)].data)
    BY DEF ColumnsUnderWay
  <2>2. CASE k = a
    <3>1. /\ OldColName(ot, nt, k) # k => OldColName(ot, nt, k) \notin DOMAIN F
          /\ F[k].data = D[OldColName(ot, nt, k)].data /\ Altering(F[k], u, s.col, {s} \cup S)
      BY <2>1, <2>2 DEF ColumnGoesOn
    <3>2. Altering(G[k], u, s.col, S)
      BY <2>2, <3>1 DEF Altering
    <3> QED BY <1>1, <2>2, <3>1, <3>2 DEF ColumnGoesOn
  <2>3. CASE k # a
    <3>1. ColOf(nt, k) # s.col /\ OldColName(ot, nt, k) # a
      BY <1>2, <1>3, <2>3
    <3> QED BY <1>1, <2>1, <2>3, <3>1, OtherColumnGoesOn
  <2> QED BY <2>2, <2>3
<1> QED BY <1>4, <1>5, <1>6, <1>7 DEF ColumnsUnderWay

\* A renamed column has come to its name.
LEMMA RenameColumnDone ==
    ASSUME NEW F, NEW G, NEW s, NEW S, NEW u, NEW ot, NEW nt, NEW D, IsSeq(nt.cols), Unique(nt),
           ColumnsUnderWay(F, {s} \cup S, u, ot, nt, D), s.op = "rename_column",
           s.to \in ColTargets(ot, nt), s.from = OldColName(ot, nt, s.to),
           Moved(F, G, s.from, s.to), SameColumn(G[s.to], F[s.from]), G[s.to].data = F[s.from].data
    PROVE  ColumnsUnderWay(G, S, u, ot, nt, D)
<1> DEFINE a == s.from
           b == s.to
<1>1. /\ a \in DOMAIN F /\ b \notin DOMAIN F /\ DOMAIN G = (DOMAIN F \ {a}) \cup {b}
      /\ \A y \in DOMAIN F : y # a => G[y] = F[y]
  BY DEF Moved
<1>2. /\ b \in OldCols(ot, nt) /\ a # b /\ b \in ColNames(nt) \ ColNames(ot) /\ a \notin ColNames(nt)
      /\ b \notin NewCols(ot, nt) /\ a \notin GoneCols(ot, nt) /\ GoneCols(ot, nt) \subseteq ColNames(ot)
      /\ NewCols(ot, nt) \subseteq ColNames(nt)
      /\ \A k \in OldCols(ot, nt) : k # b => /\ k \in ColNames(nt) /\ OldColName(ot, nt, k) # a
                                             /\ OldColName(ot, nt, k) \in ColNames(ot)
  BY ColumnNames
<1>4. DOMAIN G \subseteq ColNames(ot) \cup ColNames(nt)
  BY <1>1, <1>2 DEF ColumnsUnderWay
<1>5. ASSUME NEW c \in GoneCols(ot, nt), c \in DOMAIN G
      PROVE  \E x \in S : x.op = "drop_column" /\ x.table = u /\ x.col.name = c
  BY <1>1, <1>2, <1>5 DEF ColumnsUnderWay
<1>6. ASSUME NEW k \in NewCols(ot, nt)
      PROVE  IF k \in DOMAIN G THEN SameColumn(G[k], ColOf(nt, k))
             ELSE [op |-> "add_column", table |-> u, col |-> ColOf(nt, k)] \in S
  <2>1. k # a /\ k # b
    BY <1>2
  <2>2. IF k \in DOMAIN F THEN SameColumn(F[k], ColOf(nt, k))
        ELSE [op |-> "add_column", table |-> u, col |-> ColOf(nt, k)] \in S
    BY DEF ColumnsUnderWay
  <2> QED BY <1>1, <2>1, <2>2
<1>7. ASSUME NEW k \in OldCols(ot, nt)
      PROVE  ColumnGoesOn(G, S, u, OldColName(ot, nt, k), k, ColOf(nt, k), D[OldColName(ot, nt, k)].data)
  <2>1. ColumnGoesOn(F, {s} \cup S, u, OldColName(ot, nt, k), k, ColOf(nt, k), D[OldColName(ot, nt, k)].data)
    BY DEF ColumnsUnderWay
  <2>2. CASE k = b
    <3>1. F[a].data = D[a].data /\ Altering(F[a], u, ColOf(nt, k), {s} \cup S)
      BY <1>1, <2>1, <2>2 DEF ColumnGoesOn
    <3>2. Altering(G[b], u, ColOf(nt, k), S)
      BY <3>1 DEF Altering, SameColumn
    <3> QED BY <1>1, <1>2, <2>2, <3>1, <3>2 DEF ColumnGoesOn
  <2>3. CASE k # b
    <3>1. OldColName(ot, nt, k) # a /\ OldColName(ot, nt, k) # b /\ k # a
      BY <1>2, <2>3
    <3>2. /\ k \in DOMAIN F <=> k \in DOMAIN G
          /\ OldColName(ot, nt, k) \in DOMAIN F <=> OldColName(ot, nt, k) \in DOMAIN G
          /\ k \in DOMAIN F => G[k] = F[k]
          /\ OldColName(ot, nt, k) \in DOMAIN F => G[OldColName(ot, nt, k)] = F[OldColName(ot, nt, k)]
      BY <1>1, <2>3, <3>1
    <3> QED BY <2>1, <2>3, <3>2, OtherColumnGoesOn
  <2> QED BY <2>2, <2>3
<1> QED BY <1>4, <1>5, <1>6, <1>7 DEF ColumnsUnderWay

--------------------------------------------------------------------------------
(* One statement done: tables                                                 *)

\* A schema whose names are known and whose tables have columns of different names.
Named(n) == Known(n) /\ \A t \in DOMAIN n.tables : IsSeq(n.tables[t].cols) /\ Unique(n.tables[t])

\* A table that goes on is not affected by a statement about another one.
LEMMA OtherTableGoesOn ==
    ASSUME NEW T, NEW T2, NEW s, NEW S, NEW u, NEW t, NEW ot, NEW nt, NEW D,
           TableGoesOn(T, {s} \cup S, u, t, ot, nt, D),
           s.op \notin ColumnOperations \/ s.table # u, s.op = "rename_table" => s.to # u,
           u \in DOMAIN T <=> u \in DOMAIN T2, t \in DOMAIN T <=> t \in DOMAIN T2,
           u \in DOMAIN T => T2[u] = T[u], t \in DOMAIN T => T2[t] = T[t]
    PROVE  TableGoesOn(T2, S, u, t, ot, nt, D)
<1>1. \A F : ColumnsUnderWay(F, {s} \cup S, u, ot, nt, D) => ColumnsUnderWay(F, S, u, ot, nt, D)
  BY ColumnsWaitNot
<1>2. RenameTable(t, u) \in {s} \cup S => RenameTable(t, u) \in S
  BY DEF RenameTable
<1> QED BY <1>1, <1>2 DEF TableGoesOn

\* A statement that is not about tables or columns is not waited for.
LEMMA TablesWaitNot ==
    ASSUME NEW T, NEW s, NEW S, NEW o, NEW n, NEW B, TablesUnderWay(T, {s} \cup S, o, n, B),
           s.op \notin ColumnOperations \cup {"create_table", "drop_table", "rename_table"}
    PROVE  TablesUnderWay(T, S, o, n, B)
<1>1. \A t \in Dropped(o, n) : t \in DOMAIN T => [op |-> "drop_table", table |-> t] \in S
  BY DEF TablesUnderWay
<1>2. ASSUME NEW u \in NewTables(o, n)
      PROVE  IF u \in DOMAIN T
             THEN /\ DOMAIN T[u] = ColNames(n.tables[u])
                  /\ \A k \in DOMAIN T[u] : SameColumn(T[u][k], ColOf(n.tables[u], k))
             ELSE \E x \in S : x.op = "create_table" /\ x.table = u
  BY DEF TablesUnderWay
<1>3. ASSUME NEW u \in OldTables(o, n)
      PROVE  LET t == OldName(o, n, u)
             IN  TableGoesOn(T, S, u, t, o.tables[t], n.tables[u], B[t])
  <2> DEFINE t == OldName(o, n, u)
  <2>1. TableGoesOn(T, {s} \cup S, u, t, o.tables[t], n.tables[u], B[t])
    BY DEF TablesUnderWay
  <2> QED BY <2>1, OtherTableGoesOn
<1>4. DOMAIN T \subseteq DOMAIN o.tables \cup DOMAIN n.tables
  BY DEF TablesUnderWay
<1> QED BY <1>1, <1>2, <1>3, <1>4 DEF TablesUnderWay

\* A statement about a column of a table of the new schema.
LEMMA ColumnDone ==
    ASSUME NEW T, NEW T2, NEW s, NEW S, NEW o, NEW n, Known(n), NEW B, TablesUnderWay(T, {s} \cup S, o, n, B),
           NEW u, u = s.table, s.op \in ColumnOperations, u \in OldTables(o, n), u \in DOMAIN T, OneTable(T, T2, u),
           LET t == OldName(o, n, u)
           IN  ColumnsUnderWay(T[u], {s} \cup S, u, o.tables[t], n.tables[u], B[t]) =>
                 ColumnsUnderWay(T2[u], S, u, o.tables[t], n.tables[u], B[t])
    PROVE  TablesUnderWay(T2, S, o, n, B)
<1>1. DOMAIN T2 = DOMAIN T /\ \A y \in DOMAIN T : y # u => T2[y] = T[y]
  BY DEF OneTable
<1>2. /\ u \in DOMAIN n.tables /\ u \notin NewTables(o, n) /\ u \notin Dropped(o, n)
      /\ \A w \in OldTables(o, n) : OldName(o, n, w) # w => OldName(o, n, w) # u
  BY TableNames
<1>3. \A t \in Dropped(o, n) : t \in DOMAIN T2 => [op |-> "drop_table", table |-> t] \in S
  BY <1>1 DEF TablesUnderWay, ColumnOperations
<1>4. ASSUME NEW w \in NewTables(o, n)
      PROVE  IF w \in DOMAIN T2
             THEN /\ DOMAIN T2[w] = ColNames(n.tables[w])
                  /\ \A k \in DOMAIN T2[w] : SameColumn(T2[w][k], ColOf(n.tables[w], k))
             ELSE \E x \in S : x.op = "create_table" /\ x.table = w
  <2>1. w # u
    BY <1>2
  <2> QED BY <1>1, <2>1 DEF TablesUnderWay, ColumnOperations
<1>5. ASSUME NEW w \in OldTables(o, n)
      PROVE  LET t == OldName(o, n, w)
             IN  TableGoesOn(T2, S, w, t, o.tables[t], n.tables[w], B[t])
  <2> DEFINE t == OldName(o, n, w)
  <2>1. TableGoesOn(T, {s} \cup S, w, t, o.tables[t], n.tables[w], B[t])
    BY DEF TablesUnderWay
  <2>2. CASE w = u
    <3>1. (t # u => t \notin DOMAIN T) /\ ColumnsUnderWay(T[u], {s} \cup S, u, o.tables[t], n.tables[u], B[t])
      BY <2>1, <2>2 DEF TableGoesOn
    <3>2. ColumnsUnderWay(T2[u], S, u, o.tables[t], n.tables[u], B[t])
      BY <2>2, <3>1
    <3> QED BY <1>1, <2>2, <3>1, <3>2 DEF TableGoesOn
  <2>3. CASE w # u
    <3>1. t # u
      BY <1>2, <2>3
    <3>2. s.op # "rename_table"
      BY DEF ColumnOperations
    <3> QED BY <1>1, <2>1, <2>3, <3>1, <3>2, OtherTableGoesOn
  <2> QED BY <2>2, <2>3
<1>6. DOMAIN T2 \subseteq DOMAIN o.tables \cup DOMAIN n.tables
  BY <1>1 DEF TablesUnderWay
<1> QED BY <1>3, <1>4, <1>5, <1>6 DEF TablesUnderWay

\* A created table is the new one.
LEMMA CreateTableDone ==
    ASSUME NEW T, NEW T2, NEW s, NEW S, NEW o, NEW n, Named(n), NEW B, TablesUnderWay(T, {s} \cup S, o, n, B),
           s.op = "create_table", s.table \in NewTables(o, n), s.cols = n.tables[s.table].cols,
           OneTable(T, T2, s.table), DOMAIN T2[s.table] = {s.cols[i].name : i \in DOMAIN s.cols},
           \A i \in DOMAIN s.cols : SameColumn(T2[s.table][s.cols[i].name], s.cols[i])
    PROVE  TablesUnderWay(T2, S, o, n, B)
<1> DEFINE a == s.table
<1>1. DOMAIN T2 = DOMAIN T \cup {a} /\ \A y \in DOMAIN T : y # a => T2[y] = T[y]
  BY DEF OneTable
<1>2. /\ a \in DOMAIN n.tables /\ a \notin DOMAIN o.tables /\ a \notin OldTables(o, n)
      /\ Dropped(o, n) \subseteq DOMAIN o.tables
      /\ \A w \in OldTables(o, n) : OldName(o, n, w) \in DOMAIN o.tables
  BY TableNames DEF Named
<1>3. DOMAIN T2[a] = ColNames(n.tables[a]) /\ \A k \in DOMAIN T2[a] : SameColumn(T2[a][k], ColOf(n.tables[a], k))
  <2>1. Unique(n.tables[a])
    BY <1>2 DEF Named
  <2>2. \A i \in DOMAIN s.cols : ColOf(n.tables[a], s.cols[i].name) = s.cols[i]
    BY SMTT(30), <2>1, ColOfFacts DEF Unique
  <2> QED BY <2>2 DEF ColNames
<1> HIDE DEF a
<1>4. ASSUME NEW t \in Dropped(o, n), t \in DOMAIN T2 PROVE [op |-> "drop_table", table |-> t] \in S
  BY SMTT(30), <1>1, <1>2, <1>4 DEF TablesUnderWay
<1>5. ASSUME NEW w \in NewTables(o, n)
      PROVE  IF w \in DOMAIN T2
             THEN /\ DOMAIN T2[w] = ColNames(n.tables[w])
                  /\ \A k \in DOMAIN T2[w] : SameColumn(T2[w][k], ColOf(n.tables[w], k))
             ELSE \E x \in S : x.op = "create_table" /\ x.table = w
  <2>1. CASE w = a
    BY <1>1, <1>3, <2>1
  <2>2. CASE w # a
    BY <1>1, <2>2 DEF TablesUnderWay, a
  <2> QED BY <2>1, <2>2
<1>6. ASSUME NEW w \in OldTables(o, n)
      PROVE  LET t == OldName(o, n, w)
             IN  TableGoesOn(T2, S, w, t, o.tables[t], n.tables[w], B[t])
  <2> DEFINE t == OldName(o, n, w)
  <2>1. TableGoesOn(T, {s} \cup S, w, t, o.tables[t], n.tables[w], B[t])
    BY DEF TablesUnderWay
  <2>2. w # a /\ t # a
    BY <1>2
  <2>3. s.op \notin ColumnOperations /\ s.op # "rename_table"
    BY DEF ColumnOperations
  <2> QED BY SMTT(30), <1>1, <2>1, <2>2, <2>3, OtherTableGoesOn
<1>7. DOMAIN T2 \subseteq DOMAIN o.tables \cup DOMAIN n.tables
  BY <1>1, <1>2 DEF TablesUnderWay
<1> QED BY <1>4, <1>5, <1>6, <1>7 DEF TablesUnderWay

\* A table that was there when it was to be created, is the new one already.
LEMMA CreateTableSkipped ==
    ASSUME NEW T, NEW s, NEW S, NEW o, NEW n, Known(n), NEW B, TablesUnderWay(T, {s} \cup S, o, n, B),
           s.op = "create_table", s.table \in DOMAIN T
    PROVE  TablesUnderWay(T, S, o, n, B)
<1>1. \A t \in Dropped(o, n) : t \in DOMAIN T => [op |-> "drop_table", table |-> t] \in S
  BY DEF TablesUnderWay
<1>2. ASSUME NEW u \in NewTables(o, n)
      PROVE  IF u \in DOMAIN T
             THEN /\ DOMAIN T[u] = ColNames(n.tables[u])
                  /\ \A k \in DOMAIN T[u] : SameColumn(T[u][k], ColOf(n.tables[u], k))
             ELSE \E x \in S : x.op = "create_table" /\ x.table = u
  BY DEF TablesUnderWay
<1>3. ASSUME NEW u \in OldTables(o, n)
      PROVE  LET t == OldName(o, n, u)
             IN  TableGoesOn(T, S, u, t, o.tables[t], n.tables[u], B[t])
  <2> DEFINE t == OldName(o, n, u)
  <2>1. TableGoesOn(T, {s} \cup S, u, t, o.tables[t], n.tables[u], B[t])
    BY DEF TablesUnderWay
  <2>2. s.op \notin ColumnOperations /\ s.op # "rename_table"
    BY DEF ColumnOperations
  <2> QED BY <2>1, <2>2, OtherTableGoesOn
<1>4. DOMAIN T \subseteq DOMAIN o.tables \cup DOMAIN n.tables
  BY DEF TablesUnderWay
<1> QED BY <1>1, <1>2, <1>3, <1>4 DEF TablesUnderWay

\* A dropped table is one that was to go.
LEMMA DropTableDone ==
    ASSUME NEW T, NEW T2, NEW s, NEW S, NEW o, NEW n, Known(n), NEW B, TablesUnderWay(T, {s} \cup S, o, n, B),
           s.op = "drop_table", s.table \in Dropped(o, n),
           DOMAIN T2 = DOMAIN T \ {s.table}, \A t \in DOMAIN T2 : T2[t] = T[t]
    PROVE  TablesUnderWay(T2, S, o, n, B)
<1> DEFINE a == s.table
<1>1. /\ a \in DOMAIN o.tables \ DOMAIN n.tables /\ NewTables(o, n) \cup OldTables(o, n) \subseteq DOMAIN n.tables
      /\ \A w \in OldTables(o, n) : OldName(o, n, w) # a
  BY TableNames
<1>2. \A t \in Dropped(o, n) : t \in DOMAIN T2 => [op |-> "drop_table", table |-> t] \in S
  BY DEF TablesUnderWay
<1>3. ASSUME NEW w \in NewTables(o, n)
      PROVE  IF w \in DOMAIN T2
             THEN /\ DOMAIN T2[w] = ColNames(n.tables[w])
                  /\ \A k \in DOMAIN T2[w] : SameColumn(T2[w][k], ColOf(n.tables[w], k))
             ELSE \E x \in S : x.op = "create_table" /\ x.table = w
  <2>1. w # a
    BY <1>1
  <2> QED BY <2>1 DEF TablesUnderWay
<1>4. ASSUME NEW w \in OldTables(o, n)
      PROVE  LET t == OldName(o, n, w)
             IN  TableGoesOn(T2, S, w, t, o.tables[t], n.tables[w], B[t])
  <2> DEFINE t == OldName(o, n, w)
  <2>1. TableGoesOn(T, {s} \cup S, w, t, o.tables[t], n.tables[w], B[t])
    BY DEF TablesUnderWay
  <2>2. w # a /\ t # a
    BY <1>1
  <2>3. s.op \notin ColumnOperations /\ s.op # "rename_table"
    BY DEF ColumnOperations
  <2> QED BY <2>1, <2>2, <2>3, OtherTableGoesOn
<1>5. DOMAIN T2 \subseteq DOMAIN o.tables \cup DOMAIN n.tables
  BY DEF TablesUnderWay
<1> QED BY <1>2, <1>3, <1>4, <1>5 DEF TablesUnderWay

\* A renamed table has come to its name.
LEMMA RenameTableDone ==
    ASSUME NEW T, NEW T2, NEW s, NEW S, NEW o, NEW n, Known(n), NEW B, TablesUnderWay(T, {s} \cup S, o, n, B),
           s.op = "rename_table", s.to \in RenameTargets(o, n), s.table = RenamedTo(o, n, s.to),
           Moved(T, T2, s.table, s.to), T2[s.to] = T[s.table]
    PROVE  TablesUnderWay(T2, S, o, n, B)
<1> DEFINE a == s.table
           b == s.to
<1>1. /\ a \in DOMAIN T /\ b \notin DOMAIN T /\ DOMAIN T2 = (DOMAIN T \ {a}) \cup {b}
      /\ \A y \in DOMAIN T : y # a => T2[y] = T[y]
  BY DEF Moved
<1>2. /\ b \in OldTables(o, n) /\ OldName(o, n, b) = a /\ a # b /\ b \in DOMAIN n.tables /\ a \in DOMAIN o.tables
      /\ a \notin DOMAIN n.tables /\ b \notin NewTables(o, n) /\ a \notin Dropped(o, n) /\ b \notin Dropped(o, n)
      /\ NewTables(o, n) \cup OldTables(o, n) \subseteq DOMAIN n.tables
      /\ \A w \in OldTables(o, n) : w # b => OldName(o, n, w) # a
      /\ \A w \in OldTables(o, n) : OldName(o, n, w) # w => OldName(o, n, w) # b
  BY TableNames
<1>3. ASSUME NEW t \in Dropped(o, n), t \in DOMAIN T2 PROVE [op |-> "drop_table", table |-> t] \in S
  BY <1>1, <1>2, <1>3 DEF TablesUnderWay
<1>4. ASSUME NEW w \in NewTables(o, n)
      PROVE  IF w \in DOMAIN T2
             THEN /\ DOMAIN T2[w] = ColNames(n.tables[w])
                  /\ \A k \in DOMAIN T2[w] : SameColumn(T2[w][k], ColOf(n.tables[w], k))
             ELSE \E x \in S : x.op = "create_table" /\ x.table = w
  <2>1. w # a /\ w # b
    BY <1>2
  <2> QED BY <1>1, <2>1 DEF TablesUnderWay
<1>5. ASSUME NEW w \in OldTables(o, n)
      PROVE  LET t == OldName(o, n, w)
             IN  TableGoesOn(T2, S, w, t, o.tables[t], n.tables[w], B[t])
  <2> DEFINE t == OldName(o, n, w)
  <2>1. TableGoesOn(T, {s} \cup S, w, t, o.tables[t], n.tables[w], B[t])
    BY DEF TablesUnderWay
  <2>2. CASE w = b
    <3>1. ColumnsUnderWay(T[a], {s} \cup S, b, o.tables[a], n.tables[b], B[a])
      BY <1>1, <1>2, <2>1, <2>2 DEF TableGoesOn
    <3>2. s.op \notin ColumnOperations
      BY DEF ColumnOperations
    <3>3. ColumnsUnderWay(T[a], S, b, o.tables[a], n.tables[b], B[a])
      BY <3>1, <3>2, ColumnsWaitNot
    <3> QED BY <1>1, <1>2, <2>2, <3>3 DEF TableGoesOn
  <2>3. CASE w # b
    <3>1. t # a /\ t # b /\ w # a
      BY <1>2, <2>3
    <3>2. s.op \notin ColumnOperations
      BY DEF ColumnOperations
    <3>3. /\ w \in DOMAIN T <=> w \in DOMAIN T2
          /\ t \in DOMAIN T <=> t \in DOMAIN T2
          /\ w \in DOMAIN T => T2[w] = T[w]
          /\ t \in DOMAIN T => T2[t] = T[t]
      BY <1>1, <2>3, <3>1
    <3> QED BY <2>1, <2>3, <3>2, <3>3, OtherTableGoesOn
  <2> QED BY <2>2, <2>3
<1>6. DOMAIN T2 \subseteq DOMAIN o.tables \cup DOMAIN n.tables
  BY <1>1, <1>2 DEF TablesUnderWay
<1> QED BY <1>3, <1>4, <1>5, <1>6 DEF TablesUnderWay

--------------------------------------------------------------------------------
(* One statement done: the database                                           *)

\* A table to create is not passed over: no view and no index has its name.
LEMMA FreeToCreate ==
    ASSUME NEW cat, IndexesApart(cat), NEW o, NEW n \in Schemas, Creatable(n),
           DOMAIN n.tables \cap DOMAIN o.views = {}, DOMAIN cat.views \subseteq DOMAIN o.views \cup DOMAIN n.views,
           NEW u \in DOMAIN n.tables, u \in Relations(cat)
    PROVE  u \in DOMAIN cat.tables
<1>1. u \notin DOMAIN cat.views
  BY DEF Creatable
<1>2. u \notin IndexNames(cat)
  BY DEF IndexNames, IndexesApart, Apart
<1> QED BY <1>1, <1>2 DEF Relations

\* The statement that is done is not to do any more.
LEMMA TablesStep ==
    ASSUME NEW cat, CatalogShape(cat), IndexesApart(cat), NEW o, NEW n \in Schemas, Named(n), Creatable(n),
           DOMAIN n.tables \cap DOMAIN o.views = {}, DOMAIN cat.views \subseteq DOMAIN o.views \cup DOMAIN n.views,
           NEW s, s.op \in Operations, s.op = "create_table" => IsSeq(s.cols),
           TableStatement(s, o, n), NEW data, Allowed(cat, s),
           NEW S, NEW B, TablesUnderWay(Tables(cat), {s} \cup S, o, n, B)
    PROVE  TablesUnderWay(Tables(Effect(cat, s, data)), S, o, n, B)
<1> DEFINE T  == Tables(cat)
           T2 == Tables(Effect(cat, s, data))
           u  == s.table
           ot == o.tables[OldName(o, n, u)]
           nt == n.tables[u]
           D  == B[OldName(o, n, u)]
<1>0. Known(n)
  BY DEF Named
<1>1. CASE s.op = "create_table"
  <2>1. u \in NewTables(o, n) /\ s.cols = nt.cols /\ u \in DOMAIN n.tables
    BY <1>0, <1>1, TableNames DEF TableStatement
  <2>2. CASE u \in Relations(cat)
    <3>1. u \in DOMAIN cat.tables /\ Effect(cat, s, data) = cat
      BY <1>1, <2>1, <2>2, FreeToCreate DEF Effect
    <3>2. u \in DOMAIN Tables(cat)
      BY <3>1 DEF Tables
    <3> QED BY <1>0, <1>1, <3>1, <3>2, CreateTableSkipped
  <2>3. CASE u \notin Relations(cat)
    <3>1. /\ OneTable(T, T2, u) /\ DOMAIN T2[u] = {s.cols[i].name : i \in DOMAIN s.cols}
          /\ \A i \in DOMAIN s.cols : SameColumn(T2[u][s.cols[i].name], s.cols[i])
      BY <1>1, <2>3, CreateTableFields
    <3> HIDE DEF T, T2
    <3>2. TablesUnderWay(T, {s} \cup S, o, n, B)
      BY DEF T
    <3>3. TablesUnderWay(T2, S, o, n, B)
      BY <1>1, <2>1, <3>1, <3>2, CreateTableDone
    <3> QED BY <3>3 DEF T2
  <2> QED BY <2>2, <2>3
<1>2. CASE s.op = "drop_table"
  <2>1. DOMAIN T2 = DOMAIN T \ {u} /\ \A t \in DOMAIN T2 : T2[t] = T[t]
    BY <1>2, DropTableFields
  <2>2. u \in Dropped(o, n)
    BY <1>2 DEF TableStatement
  <2> HIDE DEF T, T2
  <2>3. TablesUnderWay(T, {s} \cup S, o, n, B)
    BY DEF T
  <2>4. TablesUnderWay(T2, S, o, n, B)
    BY <1>0, <1>2, <2>1, <2>2, <2>3, DropTableDone
  <2> QED BY <2>4 DEF T2
<1>3. CASE s.op = "rename_table"
  <2>1. Moved(T, T2, u, s.to) /\ T2[s.to] = T[u]
    BY <1>3, RenameTableFields
  <2>2. s.to \in RenameTargets(o, n) /\ u = RenamedTo(o, n, s.to)
    BY <1>3 DEF TableStatement
  <2> HIDE DEF T, T2
  <2>3. TablesUnderWay(T, {s} \cup S, o, n, B)
    BY DEF T
  <2>4. TablesUnderWay(T2, S, o, n, B)
    BY <1>0, <1>3, <2>1, <2>2, <2>3, RenameTableDone
  <2> QED BY <2>4 DEF T2
<1>4. CASE s.op \in ColumnOperations
  <2>1. u \in OldTables(o, n) /\ u \in DOMAIN n.tables
    BY <1>0, <1>4, TableNames DEF TableStatement, ColumnOperations
  <2>2. IsSeq(nt.cols) /\ Unique(nt)
    BY <2>1 DEF Named
  <2>3. u \in DOMAIN T /\ OneTable(T, T2, u)
    BY <1>4, AddColumnFields, DropColumnFields, AlterColumnFields, RenameColumnFields DEF ColumnOperations
  <2>4. ASSUME ColumnsUnderWay(T[u], {s} \cup S, u, ot, nt, D)
        PROVE  ColumnsUnderWay(T2[u], S, u, ot, nt, D)
    <3> DEFINE F == T[u]
               G == T2[u]
    <3>1. CASE s.op = "add_column"
      <4>1. OneTable(F, G, s.col.name) /\ SameColumn(G[s.col.name], s.col)
        BY <3>1, AddColumnFields
      <4>2. s.col.name \in NewCols(ot, nt) /\ s.col = ColOf(nt, s.col.name)
        BY <3>1 DEF TableStatement
      <4> HIDE DEF F, G, ot, nt, D
      <4>3. ColumnsUnderWay(F, {s} \cup S, u, ot, nt, D)
        BY <2>4 DEF F
      <4>4. ColumnsUnderWay(G, S, u, ot, nt, D)
        BY <2>2, <3>1, <4>1, <4>2, <4>3, AddColumnDone
      <4> QED BY <4>4 DEF G
    <3>2. CASE s.op = "drop_column"
      <4>1. DOMAIN G = DOMAIN F \ {s.col.name} /\ \A h \in DOMAIN G : G[h] = F[h]
        BY <3>2, DropColumnFields
      <4>2. s.col.name \in GoneCols(ot, nt)
        BY <3>2 DEF TableStatement
      <4> HIDE DEF F, G, ot, nt, D
      <4>3. ColumnsUnderWay(F, {s} \cup S, u, ot, nt, D)
        BY <2>4 DEF F
      <4>4. ColumnsUnderWay(G, S, u, ot, nt, D)
        BY <2>2, <3>2, <4>1, <4>2, <4>3, DropColumnDone
      <4> QED BY <4>4 DEF G
    <3>3. CASE s.op \in {"alter_column_type", "alter_column_nullable", "alter_column_default"}
      <4> DEFINE k == s.col.name
      <4>1. /\ k \in DOMAIN F /\ OneField(F, G, k) /\ G[k].data = F[k].data
            /\ G[k].type = IF s.op = "alter_column_type" THEN s.col.type ELSE F[k].type
            /\ G[k].notNull = IF s.op = "alter_column_nullable" THEN s.col.notNull ELSE F[k].notNull
            /\ G[k].default = IF s.op = "alter_column_default" THEN s.col.default ELSE F[k].default
        BY <3>3, AlterColumnFields
      <4>2. k \in OldCols(ot, nt) /\ s.col = ColOf(nt, k)
        BY <3>3 DEF TableStatement
      <4> HIDE DEF F, G, ot, nt, D
      <4>3. ColumnsUnderWay(F, {s} \cup S, u, ot, nt, D)
        BY <2>4 DEF F
      <4>4. ColumnsUnderWay(G, S, u, ot, nt, D)
        BY <2>2, <3>3, <4>1, <4>2, <4>3, AlterColumnDone
      <4> QED BY <4>4 DEF G
    <3>4. CASE s.op = "rename_column"
      <4>1. Moved(F, G, s.from, s.to) /\ SameColumn(G[s.to], F[s.from]) /\ G[s.to].data = F[s.from].data
        BY <3>4, RenameColumnFields
      <4>2. s.to \in ColTargets(ot, nt) /\ s.from = OldColName(ot, nt, s.to)
        BY <3>4 DEF TableStatement
      <4> HIDE DEF F, G, ot, nt, D
      <4>3. ColumnsUnderWay(F, {s} \cup S, u, ot, nt, D)
        BY <2>4 DEF F
      <4>4. ColumnsUnderWay(G, S, u, ot, nt, D)
        BY <2>2, <3>4, <4>1, <4>2, <4>3, RenameColumnDone
      <4> QED BY <4>4 DEF G
    <3> QED BY <1>4, <3>1, <3>2, <3>3, <3>4 DEF ColumnOperations
  <2> HIDE DEF T, T2
  <2>5. TablesUnderWay(T, {s} \cup S, o, n, B)
    BY DEF T
  <2>6. TablesUnderWay(T2, S, o, n, B)
    BY <1>0, <1>4, <2>1, <2>3, <2>4, <2>5, ColumnDone
  <2> QED BY <2>6 DEF T2
<1>5. CASE s.op \in {"create_index", "add_constraint", "drop_constraint", "drop_index", "create_view",
                     "drop_view", "create_type", "add_value", "drop_type"}
  <2>1. T2 = T
    BY <1>5, OtherFields
  <2>2. s.op \notin ColumnOperations \cup {"create_table", "drop_table", "rename_table"}
    BY <1>5 DEF ColumnOperations
  <2> HIDE DEF T, T2
  <2>3. TablesUnderWay(T, {s} \cup S, o, n, B)
    BY DEF T
  <2>4. TablesUnderWay(T2, S, o, n, B)
    BY <2>1, <2>2, <2>3, TablesWaitNot
  <2> QED BY <2>4 DEF T2
<1> QED BY <1>1, <1>2, <1>3, <1>4, <1>5 DEF Operations, ColumnOperations

\* The columns a table has are finitely many.
LEMMA FiniteColumns ==
    ASSUME NEW t, IsSeq(t.cols), NEW S, S \subseteq ColNames(t)
    PROVE  IsFiniteSet(S)
<1> DEFINE cols == t.cols
           f == [i \in DOMAIN cols |-> cols[i].name]
           N == {f[i] : i \in DOMAIN cols}
<1>1. ColNames(t) = N
  BY DEF ColNames
<1>2. IsFiniteSet(DOMAIN cols)
  BY FiniteSeq
<1> HIDE DEF f, cols
<1>3. IsFiniteSet(N)
  BY <1>2, FiniteImage
<1> HIDE DEF N
<1>4. S \in SUBSET N
  BY <1>1
<1> QED BY <1>3, <1>4, FS_Subset

\* The same of the views.
LEMMA ViewsStep ==
    ASSUME NEW cat, CatalogShape(cat), NEW o, NEW n, Named(n), Creatable(n),
           NEW s, s.op \in Operations, s.op = "create_table" => IsSeq(s.cols),
           TableStatement(s, o, n), NEW data, Allowed(cat, s),
           NEW S, ViewsUnderWay(cat.views, {s} \cup S, o, n),
           s.op = "drop_view" /\ s.name \in DOMAIN n.views => \E x \in S : x.op = "create_view" /\ x.name = s.name
    PROVE  ViewsUnderWay(Effect(cat, s, data).views, S, o, n)
<1> DEFINE V == cat.views
           W == Effect(cat, s, data).views
           there(v) == ViewsOf(n)[v]
<1>0. Known(n)
  BY DEF Named
<1>1. /\ DOMAIN V \subseteq DOMAIN o.views \cup DOMAIN n.views
      /\ \A v \in DOMAIN o.views \ DOMAIN n.views :
           v \in DOMAIN V => \E x \in {s} \cup S : x.op = "drop_view" /\ x.name = v
      /\ \A v \in DOMAIN n.views : \/ v \in DOMAIN V /\ V[v] = there(v)
                                   \/ \E x \in {s} \cup S : x.op = "create_view" /\ x.name = v
  BY DEF ViewsUnderWay
<1>2. CASE s.op = "create_view"
  <2>1. W = With(V, s.name, [on |-> s.view.on, uses |-> s.view.uses]) /\ s.name \in DOMAIN n.views /\ s.view = n.views[s.name]
    BY <1>2, OtherFields DEF TableStatement
  <2>2. s.name \in DOMAIN W /\ W[s.name] = there(s.name) /\ DOMAIN W = DOMAIN V \cup {s.name}
        /\ \A v \in DOMAIN V : v # s.name => W[v] = V[v]
    BY <2>1 DEF With, ViewsOf
  <2> HIDE DEF V, W, there
  <2>3. \A v \in DOMAIN n.views : \/ v \in DOMAIN W /\ W[v] = there(v)
                                  \/ \E x \in S : x.op = "create_view" /\ x.name = v
    BY <1>1, <2>1, <2>2
  <2>4. \A v \in DOMAIN o.views \ DOMAIN n.views :
           v \in DOMAIN W => \E x \in S : x.op = "drop_view" /\ x.name = v
    BY <1>1, <1>2, <2>1, <2>2
  <2> QED BY <1>1, <2>1, <2>2, <2>3, <2>4 DEF ViewsUnderWay, W, there
<1>3. CASE s.op = "drop_view"
  <2>1. W = Without(V, s.name)
    BY <1>3, OtherFields
  <2> HIDE DEF V, W
  <2> QED BY <1>1, <1>3, <2>1 DEF ViewsUnderWay, Without, W
<1>4. CASE s.op \in {"rename_table", "rename_column"}
  <2>1. ASSUME NEW v \in DOMAIN n.views, v \in DOMAIN V, V[v] = there(v)
        PROVE  /\ IsFiniteSet(V[v].uses) /\ V[v] = [on |-> V[v].on, uses |-> V[v].uses]
               /\ s.op = "rename_table" => V[v].on # s.table
               /\ s.op = "rename_column" => V[v].on # s.table \/ s.from \notin V[v].uses
    <3> DEFINE t == n.views[v].on
    <3>1. V[v].on = t /\ V[v].uses = n.views[v].uses /\ V[v] = [on |-> V[v].on, uses |-> V[v].uses]
      BY <2>1 DEF ViewsOf
    <3>2. t \in DOMAIN n.tables /\ n.views[v].uses \subseteq ColNames(n.tables[t])
      BY DEF Creatable
    <3>3. IsFiniteSet(V[v].uses)
      BY <3>1, <3>2, FiniteColumns DEF Named
    <3>4. s.op = "rename_table" => V[v].on # s.table
      <4>1. SUFFICES ASSUME s.op = "rename_table" PROVE s.table \notin DOMAIN n.tables
        BY <3>1, <3>2
      <4>2. s.to \in RenameTargets(o, n) /\ s.table = RenamedTo(o, n, s.to)
        BY <4>1 DEF TableStatement
      <4> QED BY <1>0, <4>2, TableNames
    <3>5. s.op = "rename_column" => V[v].on # s.table \/ s.from \notin V[v].uses
      <4>1. SUFFICES ASSUME s.op = "rename_column", t = s.table PROVE s.from \notin ColNames(n.tables[t])
        BY <3>1, <3>2
      <4> DEFINE ot == o.tables[OldName(o, n, s.table)]
      <4>2. s.to \in ColTargets(ot, n.tables[t]) /\ s.from = OldColName(ot, n.tables[t], s.to)
        BY <4>1 DEF TableStatement
      <4>3. IsSeq(n.tables[t].cols) /\ Unique(n.tables[t])
        BY <3>2 DEF Named
      <4> HIDE DEF ot, t
      <4> QED BY <4>2, <4>3, ColumnNames
    <3> QED BY <2>1, <3>1, <3>3, <3>4, <3>5
  <2>2. /\ DOMAIN W = DOMAIN V
        /\ \A v \in DOMAIN V : /\ IsFiniteSet(V[v].uses)
                               /\ s.op = "rename_table" => V[v].on # s.table
                               /\ s.op = "rename_column" => V[v].on # s.table \/ s.from \notin V[v].uses
             => W[v] = [on |-> V[v].on, uses |-> V[v].uses]
    BY <1>4, RenameTableFields, RenameColumnFields DEF SameView
  <2> HIDE DEF V, W
  <2>3. \A v \in DOMAIN n.views : v \in DOMAIN V /\ V[v] = there(v) => v \in DOMAIN W /\ W[v] = there(v)
    BY <2>1, <2>2
  <2> HIDE DEF there
  <2>4. \A v \in DOMAIN n.views : \/ v \in DOMAIN W /\ W[v] = there(v)
                                  \/ \E x \in S : x.op = "create_view" /\ x.name = v
    BY <1>1, <1>4, <2>3
  <2>5. \A v \in DOMAIN o.views \ DOMAIN n.views :
           v \in DOMAIN W => \E x \in S : x.op = "drop_view" /\ x.name = v
    BY <1>1, <1>4, <2>2
  <2> QED BY <1>1, <2>2, <2>4, <2>5 DEF ViewsUnderWay, W, there
<1>5. CASE s.op \notin {"create_view", "drop_view", "rename_table", "rename_column"}
  <2>1. W = V
    <3>1. CASE s.op = "create_table"
      <4>1. CASE s.table \in Relations(cat)
        BY <3>1, <4>1 DEF Effect
      <4>2. CASE s.table \notin Relations(cat)
        BY <3>1, <4>2, CreateTableFields
      <4> QED BY <4>1, <4>2
    <3>2. CASE s.op \in {"create_index", "add_constraint", "drop_constraint", "drop_index",
                         "create_type", "add_value", "drop_type"}
      BY ZenonT(30), <3>2, OtherFields
    <3>3. CASE s.op = "drop_table"
      <4>1. Effect(cat, s, data) = [cat EXCEPT !.tables = Without(@, s.table)]
        BY <3>3 DEF Effect
      <4> QED BY <4>1 DEF CatalogShape
    <3>4. CASE s.op \in {"add_column", "drop_column", "alter_column_type", "alter_column_nullable",
                         "alter_column_default"}
      BY <3>4, AddColumnFields, DropColumnFields, AlterColumnFields
    <3>5. s.op \in {"create_table", "drop_table"}
          \/ s.op \in {"create_index", "add_constraint", "drop_constraint", "drop_index",
                       "create_type", "add_value", "drop_type"}
          \/ s.op \in {"add_column", "drop_column", "alter_column_type", "alter_column_nullable",
                       "alter_column_default"}
      BY <1>5 DEF Operations
    <3> HIDE DEF V, W
    <3> QED BY <3>1, <3>2, <3>3, <3>4, <3>5
  <2> QED BY <1>1, <1>5, <2>1 DEF ViewsUnderWay
<1> QED BY <1>2, <1>3, <1>4, <1>5

--------------------------------------------------------------------------------
(* Nothing left to do                                                         *)

\* A table with nothing left to do is the new one, and what went on has kept its data.
LEMMA ColumnsEnd ==
    ASSUME NEW F, NEW u, NEW ot, NEW nt, NEW D, IsSeq(nt.cols), Unique(nt), ColumnsUnderWay(F, {}, u, ot, nt, D)
    PROVE  /\ DOMAIN F = ColNames(nt) /\ \A k \in DOMAIN F : SameColumn(F[k], ColOf(nt, k))
           /\ \A k \in OldCols(ot, nt) : F[k].data = D[OldColName(ot, nt, k)].data
<1>1. /\ ColNames(nt) = OldCols(ot, nt) \cup NewCols(ot, nt)
      /\ \A c \in ColNames(ot) : c \in GoneCols(ot, nt) \/ \E k \in OldCols(ot, nt) : OldColName(ot, nt, k) = c
      /\ \A k \in OldCols(ot, nt) : OldColName(ot, nt, k) \notin ColNames(nt) \/ OldColName(ot, nt, k) = k
  BY ColumnNames
<1>2. \A k \in NewCols(ot, nt) : k \in DOMAIN F /\ SameColumn(F[k], ColOf(nt, k))
  BY DEF ColumnsUnderWay
<1>3. ASSUME NEW k \in OldCols(ot, nt)
      PROVE  /\ k \in DOMAIN F /\ SameColumn(F[k], ColOf(nt, k))
             /\ F[k].data = D[OldColName(ot, nt, k)].data
             /\ OldColName(ot, nt, k) # k => OldColName(ot, nt, k) \notin DOMAIN F
  <2>1. ColumnGoesOn(F, {}, u, OldColName(ot, nt, k), k, ColOf(nt, k), D[OldColName(ot, nt, k)].data)
    BY DEF ColumnsUnderWay
  <2> QED BY <2>1 DEF ColumnGoesOn, Altering, SameColumn
<1>4. \A c \in GoneCols(ot, nt) : c \notin DOMAIN F
  BY DEF ColumnsUnderWay
<1>5. DOMAIN F = ColNames(nt)
  <2>1. ASSUME NEW c \in DOMAIN F PROVE c \in ColNames(nt)
    <3>1. c \in ColNames(ot) \cup ColNames(nt)
      BY DEF ColumnsUnderWay
    <3> QED BY <1>1, <1>3, <1>4, <3>1
  <2> QED BY <1>1, <1>2, <1>3, <2>1
<1> QED BY <1>1, <1>2, <1>3, <1>5

\* The same of the tables.
LEMMA TablesEnd ==
    ASSUME NEW T, NEW o, NEW n, Named(n), NEW B, TablesUnderWay(T, {}, o, n, B)
    PROVE  Reached(T, n) /\ DataFollows(T, o, n, B)
<1>1. /\ DOMAIN n.tables = OldTables(o, n) \cup NewTables(o, n)
      /\ \A t \in DOMAIN o.tables : t \in Dropped(o, n) \/ \E u \in OldTables(o, n) : OldName(o, n, u) = t
  BY TableNames DEF Named
<1>2. \A u \in NewTables(o, n) : /\ u \in DOMAIN T /\ DOMAIN T[u] = ColNames(n.tables[u])
                                 /\ \A k \in DOMAIN T[u] : SameColumn(T[u][k], ColOf(n.tables[u], k))
  BY DEF TablesUnderWay
<1>3. ASSUME NEW u \in OldTables(o, n)
      PROVE  LET t == OldName(o, n, u)
             IN  /\ u \in DOMAIN T /\ DOMAIN T[u] = ColNames(n.tables[u])
                 /\ t # u => t \notin DOMAIN T
                 /\ \A k \in DOMAIN T[u] : SameColumn(T[u][k], ColOf(n.tables[u], k))
                 /\ \A k \in OldCols(o.tables[t], n.tables[u]) :
                      T[u][k].data = B[t][OldColName(o.tables[t], n.tables[u], k)].data
  <2> DEFINE t == OldName(o, n, u)
             ot == o.tables[t]
             nt == n.tables[u]
             D == B[t]
  <2>1. TableGoesOn(T, {}, u, t, ot, nt, D)
    BY DEF TablesUnderWay
  <2>2. IsSeq(nt.cols) /\ Unique(nt)
    BY <1>1 DEF Named
  <2> HIDE DEF ot, nt, D, t
  <2>3. u \in DOMAIN T /\ (t # u => t \notin DOMAIN T) /\ ColumnsUnderWay(T[u], {}, u, ot, nt, D)
    BY <2>1 DEF TableGoesOn
  <2>4. /\ DOMAIN T[u] = ColNames(nt) /\ \A k \in DOMAIN T[u] : SameColumn(T[u][k], ColOf(nt, k))
        /\ \A k \in OldCols(ot, nt) : T[u][k].data = D[OldColName(ot, nt, k)].data
    BY <2>2, <2>3, ColumnsEnd
  <2> QED BY <2>3, <2>4 DEF ot, nt, D, t
<1>4. DOMAIN T = DOMAIN n.tables
  <2>1. ASSUME NEW t \in DOMAIN T PROVE t \in DOMAIN n.tables
    <3>1. SUFFICES ASSUME t \in DOMAIN o.tables PROVE t \in DOMAIN n.tables
      BY DEF TablesUnderWay
    <3>2. t \notin Dropped(o, n)
      BY DEF TablesUnderWay
    <3>3. PICK u \in OldTables(o, n) : OldName(o, n, u) = t
      BY <1>1, <3>1, <3>2
    <3> QED BY <1>1, <1>3, <3>3
  <2> QED BY <1>1, <1>2, <1>3, <2>1
<1>5. Reached(T, n)
  <2>1. ASSUME NEW u \in DOMAIN T
        PROVE  /\ DOMAIN T[u] = ColNames(n.tables[u])
               /\ \A k \in DOMAIN T[u] : SameColumn(T[u][k], ColOf(n.tables[u], k))
    BY <1>1, <1>2, <1>3, <1>4
  <2> QED BY <1>4, <2>1 DEF Reached
<1> QED BY <1>3, <1>5 DEF DataFollows

\* The same of the views.
LEMMA ViewsEnd ==
    ASSUME NEW V, IsFunction(V), NEW o, NEW n, ViewsUnderWay(V, {}, o, n)
    PROVE  V = ViewsOf(n)
<1>1. DOMAIN V = DOMAIN n.views /\ \A v \in DOMAIN V : V[v] = ViewsOf(n)[v]
  BY DEF ViewsUnderWay
<1>2. DOMAIN ViewsOf(n) = DOMAIN n.views /\ IsFunction(ViewsOf(n))
  BY DEF ViewsOf, IsFunction
<1> QED BY <1>1, <1>2 DEF IsFunction

\* The views of the database are a function at any time.
LEMMA ViewsStayFunction ==
    ASSUME NEW cat, CatalogShape(cat), IsFunction(cat.views), NEW s, s.op \in Operations, NEW data, Allowed(cat, s)
    PROVE  IsFunction(Effect(cat, s, data).views)
<1> DEFINE W == Effect(cat, s, data).views
<1>1. CASE s.op \in {"create_view", "drop_view"}
  <2>1. W = With(cat.views, s.name, [on |-> s.view.on, uses |-> s.view.uses]) \/ W = Without(cat.views, s.name)
    BY <1>1, OtherFields
  <2> HIDE DEF W
  <2>2. IsFunction(W)
    BY <2>1 DEF IsFunction, With, Without
  <2> QED BY <2>2 DEF W
<1>2. CASE s.op \in {"rename_table", "rename_column"}
  BY <1>2, RenameTableFields, RenameColumnFields
<1>3. CASE s.op \in {"create_index", "add_constraint", "drop_constraint", "drop_index",
                     "create_type", "add_value", "drop_type"}
  <2>1. W = cat.views
    BY <1>3, OtherFields
  <2> QED BY <2>1
<1>4. CASE s.op \in {"drop_table", "create_table", "add_column", "drop_column", "alter_column_type",
                     "alter_column_nullable", "alter_column_default"}
  <2>1. W = cat.views
    BY <1>4 DEF Effect, CatalogShape
  <2> QED BY <2>1
<1> QED BY <1>1, <1>2, <1>3, <1>4 DEF Operations

--------------------------------------------------------------------------------
(* The steps between statements                                               *)

\* The schemas of the code are as the lemmas above want them.
LEMMA SchemaNamed ==
    ASSUME TablesFollow, NEW n \in Schemas
    PROVE  Known(n) /\ Named(n) /\ Creatable(n) /\ \A t \in DOMAIN n.tables : \A c \in ToSet(n.tables[t].cons) : Apart(c)
<1>1. Creatable(n)
  BY DEF TablesFollow
<1>2. Known(n) /\ Readable(n)
  BY SchemaFacts
<1>3. Named(n)
  BY <1>1, <1>2 DEF Named, Creatable, Unique, Readable, Listed
<1>4. ASSUME NEW t \in DOMAIN n.tables, NEW c \in ToSet(n.tables[t].cons) PROVE Apart(c)
  <2>1. {"kind", "name"} \subseteq DOMAIN c
    BY SchemasAssumption DEF SnapshotShape
  <2> QED BY <2>1 DEF Apart, TablesFollow, IndexNamesApart
<1> QED BY <1>1, <1>2, <1>3, <1>4

\* A snapshot file has the tables and views of the schema it was written from.
LEMMA SavedTables ==
    ASSUME NEW n \in Schemas, Named(n)
    PROVE  /\ \A T : Reached(T, n) => Reached(T, Saved(n))
           /\ Saved(n).views = n.views
           /\ \A t \in DOMAIN Saved(n).tables : IsSeq(Saved(n).tables[t].cols) /\ Unique(Saved(n).tables[t])
<1> DEFINE o == Saved(n)
<1>1. DOMAIN n = {"tables", "views", "enums"}
  BY SchemaFacts
<1>2. /\ DOMAIN o.tables = DOMAIN n.tables /\ o.views = n.views
      /\ \A t \in DOMAIN n.tables :
           o.tables[t] = [n.tables[t] EXCEPT !.prev = Blank,
                                             !.cols = [i \in DOMAIN @ |-> [@[i] EXCEPT !.prev = Blank]]]
  BY <1>1 DEF Saved
<1> HIDE DEF o
<1>3. ASSUME NEW t \in DOMAIN n.tables
      PROVE  /\ IsSeq(o.tables[t].cols) /\ Unique(o.tables[t]) /\ ColNames(o.tables[t]) = ColNames(n.tables[t])
             /\ \A k \in ColNames(n.tables[t]) : SameColumn(ColOf(o.tables[t], k), ColOf(n.tables[t], k))
  <2> DEFINE nt   == n.tables[t]
             ot   == o.tables[t]
             cols == nt.cols
             f    == [i \in DOMAIN cols |-> [cols[i] EXCEPT !.prev = Blank]]
  <2>1. /\ DOMAIN nt = {"cols", "cons", "prev"} /\ IsSeq(cols) /\ Unique(nt)
        /\ \A c \in ToSet(cols) : DOMAIN c = {"name", "type", "notNull", "default", "ref", "prev"}
    BY SchemasAssumption DEF SnapshotShape, IsSeq, Named
  <2>2. ot.cols = f
    BY <1>2, <2>1
  <2>3. f = [i \in DOMAIN cols |-> f[i]]
    OBVIOUS
  <2>4. \A i \in DOMAIN cols : f[i].name = cols[i].name /\ SameColumn(f[i], cols[i])
    <3>1. \A i \in DOMAIN cols : DOMAIN cols[i] = {"name", "type", "notNull", "default", "ref", "prev"}
      BY <2>1, SeqDomain
    <3> QED BY <3>1 DEF SameColumn
  <2> HIDE DEF f, nt, ot
  <2>5. IsSeq(f) /\ DOMAIN f = DOMAIN cols
    BY <2>1, <2>3, MappedSeq
  <2>6. Unique(ot)
    BY <2>1, <2>2, <2>4, <2>5 DEF Unique
  <2>7. ColNames(ot) = ColNames(nt)
    BY <2>2, <2>4, <2>5 DEF ColNames
  <2>8. \A i \in DOMAIN cols : ColOf(nt, cols[i].name) = cols[i]
    BY <2>1, ColOfFacts DEF Unique
  <2>9. \A i \in DOMAIN cols : ColOf(ot, cols[i].name) = f[i]
    <3>1. \A i \in DOMAIN ot.cols : ColOf(ot, ot.cols[i].name) = ot.cols[i]
      BY <2>6, ColOfFacts DEF Unique
    <3> QED BY <2>2, <2>4, <2>5, <3>1
  <2>10. \A k \in ColNames(nt) : SameColumn(ColOf(ot, k), ColOf(nt, k))
    BY <2>4, <2>8, <2>9 DEF ColNames
  <2> QED BY <2>2, <2>5, <2>6, <2>7, <2>10 DEF ot, nt
<1>4. ASSUME NEW T, Reached(T, n) PROVE Reached(T, o)
  <2>1. DOMAIN T = DOMAIN o.tables
    BY <1>2, <1>4 DEF Reached
  <2>2. ASSUME NEW u \in DOMAIN T
        PROVE  /\ DOMAIN T[u] = ColNames(o.tables[u])
               /\ \A k \in DOMAIN T[u] : SameColumn(T[u][k], ColOf(o.tables[u], k))
    <3>1. /\ u \in DOMAIN n.tables /\ DOMAIN T[u] = ColNames(n.tables[u])
          /\ \A k \in DOMAIN T[u] : SameColumn(T[u][k], ColOf(n.tables[u], k))
      BY <1>4 DEF Reached
    <3>2. /\ ColNames(o.tables[u]) = ColNames(n.tables[u])
          /\ \A k \in ColNames(n.tables[u]) : SameColumn(ColOf(o.tables[u], k), ColOf(n.tables[u], k))
      BY <1>3, <3>1
    <3> QED BY <3>1, <3>2 DEF SameColumn
  <2> QED BY <2>1, <2>2 DEF Reached
<1> QED BY <1>2, <1>3, <1>4 DEF o

\* Introspection has the tables of the database.
LEMMA LiveTables ==
    ASSUME NEW cat, CatalogShape(cat)
    PROVE  /\ Reached(Tables(cat), LiveSnapshot(cat)) /\ LiveSnapshot(cat).views = <<>>
           /\ \A t \in DOMAIN LiveSnapshot(cat).tables : IsSeq(LiveSnapshot(cat).tables[t].cols)
<1> DEFINE o == LiveSnapshot(cat)
<1>1. /\ o.views = <<>> /\ DOMAIN o.tables = DOMAIN cat.tables
      /\ \A t \in DOMAIN cat.tables : o.tables[t] = IntrospectTable(cat.tables[t])
  BY DEF LiveSnapshot, EmptySnapshot
<1> HIDE DEF o
<1>2. ASSUME NEW t \in DOMAIN cat.tables
      PROVE  /\ IsSeq(o.tables[t].cols) /\ DOMAIN Fields(cat.tables[t]) = ColNames(o.tables[t])
             /\ \A k \in DOMAIN Fields(cat.tables[t]) : SameColumn(Fields(cat.tables[t])[k], ColOf(o.tables[t], k))
  <2> DEFINE ct   == cat.tables[t]
             ot   == o.tables[t]
             cols == ct.cols
             f    == [i \in DOMAIN cols |-> [name |-> cols[i].name, type |-> cols[i].type, notNull |-> cols[i].notNull,
                                             default |-> cols[i].default, ref |-> <<>>, prev |-> Blank]]
  <2>1. CatalogTable(ct)
    BY DEF CatalogShape
  <2>2. ot.cols = f
    <3>1. IntrospectTable(ct).cols = f
      BY DEF IntrospectTable
    <3>2. ot = IntrospectTable(ct)
      BY <1>1
    <3> HIDE DEF ct, ot, f
    <3> QED BY <3>1, <3>2
  <2>3. /\ f = [i \in DOMAIN cols |-> f[i]]
        /\ \A i \in DOMAIN cols : f[i].name = cols[i].name /\ SameColumn(cols[i], f[i])
    BY DEF SameColumn
  <2> HIDE DEF f, ct, ot
  <2>4. IsSeq(cols) /\ \A i, j \in DOMAIN cols : cols[i].name = cols[j].name => i = j
    BY <2>1 DEF CatalogTable
  <2>5. IsSeq(f) /\ DOMAIN f = DOMAIN cols
    BY <2>3, <2>4, MappedSeq
  <2>6. \A i, j \in DOMAIN ot.cols : ot.cols[i].name = ot.cols[j].name => i = j
    BY <2>2, <2>3, <2>4, <2>5
  <2>7. ColNames(ot) = ColNames(ct)
    BY <2>2, <2>3, <2>5 DEF ColNames
  <2>8. \A i \in DOMAIN cols : ColOf(ot, cols[i].name) = f[i]
    <3>1. \A i \in DOMAIN ot.cols : ColOf(ot, ot.cols[i].name) = ot.cols[i]
      BY <2>6, ColOfFacts
    <3> QED BY <2>2, <2>3, <2>5, <3>1
  <2>9. /\ DOMAIN Fields(ct) = ColNames(ct)
        /\ \A k \in ColNames(ct) : \E i \in DOMAIN cols : cols[i].name = k /\ Fields(ct)[k] = cols[i]
    BY <2>1, FieldsFacts
  <2>10. \A k \in DOMAIN Fields(ct) : SameColumn(Fields(ct)[k], ColOf(ot, k))
    <3>1. SUFFICES ASSUME NEW k \in ColNames(ct) PROVE SameColumn(Fields(ct)[k], ColOf(ot, k))
      BY <2>9
    <3>2. PICK i \in DOMAIN cols : cols[i].name = k /\ Fields(ct)[k] = cols[i]
      BY <2>9
    <3> QED BY <2>3, <2>8, <3>2
  <2> QED BY <2>2, <2>5, <2>7, <2>9, <2>10 DEF ct, ot
<1>3. Reached(Tables(cat), o)
  BY <1>1, <1>2 DEF Reached, Tables
<1> QED BY <1>1, <1>2, <1>3 DEF o

\* A database is given up to what it was.
LEMMA RollbackKeepsTInv ==
    ASSUME TInv, Rollback
    PROVE  TInv'
<1>1. /\ catalog' = before /\ new' = saved /\ todo' = <<>> /\ status' = "idle"
      /\ flow' = flow /\ saved' = saved /\ before' = before
  BY DEF Rollback
<1>2. Base' = Base
  BY <1>1 DEF Base
<1>3. Settled' /\ LiveHasNoViews' /\ IndexesApart(catalog)' /\ IndexesApart(before)'
  BY <1>1, <1>2 DEF TInv, Settled, LiveHasNoViews
<1>4. IsFunction(catalog.views)'
  BY <1>1 DEF TInv, Settled, ViewsOf, IsFunction
<1> QED BY <1>1, <1>3, <1>4 DEF TInv

\* A statement is executed.
LEMMA ExecuteKeepsTInv ==
    ASSUME TablesFollow, Inv, TInv, Execute
    PROVE  TInv'
<1> DEFINE s == Head(todo)
           S == ToSet(Tail(todo))
           o == Base
           n == new
           B == Tables(before)
<1>1. /\ status = "running" /\ todo # <<>> /\ Allowed(catalog, s)
      /\ catalog' = Effect(catalog, s, done) /\ todo' = Tail(todo)
      /\ flow' = flow /\ saved' = saved /\ new' = new /\ before' = before /\ status' = status
  BY DEF Execute
<1>2. /\ CatalogShape(catalog) /\ n \in Schemas /\ IsSeq(todo)
      /\ \A x \in ToSet(todo) : StatementShape(x, saved, n)
  BY <1>1 DEF Inv, Stages, TodoShape
<1>3. s \in ToSet(todo) /\ IsSeq(Tail(todo)) /\ ToSet(todo) = {s} \cup S
  BY <1>1, <1>2, HeadTailElements
<1>4. Named(n) /\ Creatable(n) /\ Known(n) /\ \A t \in DOMAIN n.tables : \A c \in ToSet(n.tables[t].cons) : Apart(c)
  BY <1>2, SchemaNamed
<1>5. s.op \in Operations /\ (s.op = "create_table" => IsSeq(s.cols))
  BY <1>2, <1>3 DEF StatementShape
<1>6. /\ TablesUnderWay(Tables(catalog), {s} \cup S, o, n, B)
      /\ ViewsUnderWay(catalog.views, {s} \cup S, o, n)
      /\ \A x \in ToSet(todo) : TableStatement(x, o, n)
      /\ Restored(todo, n) /\ DOMAIN n.tables \cap DOMAIN o.views = {}
      /\ IndexesApart(catalog) /\ IsFunction(catalog.views)
  BY <1>1, <1>3 DEF TInv, UnderWay
<1>7. DOMAIN catalog.views \subseteq DOMAIN o.views \cup DOMAIN n.views
  BY <1>6 DEF ViewsUnderWay
<1>8. TableStatement(s, o, n)
  BY <1>3, <1>6
<1>9. \A i \in DOMAIN Tail(todo) : Tail(todo)[i] = todo[i + 1] /\ i + 1 \in DOMAIN todo
  <2>1. todo \in Seq(ToSet(todo)) /\ DOMAIN todo = 1..Len(todo) /\ DOMAIN Tail(todo) = 1..Len(Tail(todo))
    BY <1>2, <1>3, SeqDomain DEF IsSeq
  <2> QED BY <1>1, <2>1, TailFacts
<1>10. Len(todo) \in Nat /\ DOMAIN todo = 1..Len(todo) /\ s = todo[1] /\ 1 \in DOMAIN todo
       /\ DOMAIN Tail(todo) = 1..Len(Tail(todo)) /\ Len(Tail(todo)) = Len(todo) - 1
  <2>1. todo \in Seq(ToSet(todo)) /\ DOMAIN todo = 1..Len(todo) /\ DOMAIN Tail(todo) = 1..Len(Tail(todo))
    BY <1>2, <1>3, SeqDomain DEF IsSeq
  <2> QED BY <1>1, <2>1, TailFacts
<1>11. Restored(Tail(todo), n)
  <2> SUFFICES ASSUME NEW i \in DOMAIN Tail(todo), Tail(todo)[i].op = "drop_view",
                      Tail(todo)[i].name \in DOMAIN n.views
               PROVE  \E j \in DOMAIN Tail(todo) : /\ i < j /\ Tail(todo)[j].op = "create_view"
                                                   /\ Tail(todo)[j].name = Tail(todo)[i].name
    BY DEF Restored
  <2>1. PICK j \in DOMAIN todo : /\ i + 1 < j /\ todo[j].op = "create_view"
                                 /\ todo[j].name = Tail(todo)[i].name
    BY <1>6, <1>9 DEF Restored
  <2>2. i \in Nat /\ j \in Nat /\ j - 1 \in DOMAIN Tail(todo) /\ i < j - 1 /\ (j - 1) + 1 = j
    BY <1>10, <2>1
  <2> QED BY <1>9, <2>1, <2>2
<1>12. s.op = "drop_view" /\ s.name \in DOMAIN n.views => \E x \in S : x.op = "create_view" /\ x.name = s.name
  <2> SUFFICES ASSUME s.op = "drop_view", s.name \in DOMAIN n.views
               PROVE  \E x \in S : x.op = "create_view" /\ x.name = s.name
    OBVIOUS
  <2>1. PICK j \in DOMAIN todo : 1 < j /\ todo[j].op = "create_view" /\ todo[j].name = s.name
    BY <1>6, <1>10 DEF Restored
  <2>2. j - 1 \in DOMAIN Tail(todo) /\ (j - 1) + 1 = j
    BY <1>10, <2>1
  <2>3. Tail(todo)[j - 1] \in S /\ Tail(todo)[j - 1] = todo[j]
    BY <1>3, <1>9, <2>2, SeqDomain
  <2> QED BY <2>1, <2>3
<1>13. s.op = "create_table" => \A c \in ToSet(s.cons) : Apart(c)
  <2> SUFFICES ASSUME s.op = "create_table" PROVE \A c \in ToSet(s.cons) : Apart(c)
    OBVIOUS
  <2>1. s.table \in NewTables(o, n) /\ ToSet(s.cons) \subseteq ToSet(n.tables[s.table].cons)
    BY <1>8 DEF TableStatement
  <2>2. s.table \in DOMAIN n.tables
    BY <1>4, <2>1, TableNames
  <2> QED BY <1>4, <2>1, <2>2
<1>14. s.op \in {"create_index", "add_constraint"} => Apart(s.con)
  BY <1>4, <1>8 DEF TableStatement
<1> HIDE DEF s, S, o, n, B
<1>15. TablesUnderWay(Tables(catalog'), S, o, n, B)
  BY <1>1, <1>2, <1>4, <1>5, <1>6, <1>7, <1>8, TablesStep
<1>16. ViewsUnderWay(catalog'.views, S, o, n)
  BY <1>1, <1>2, <1>4, <1>5, <1>6, <1>8, <1>12, ViewsStep
<1>17. IndexesApart(catalog') /\ IsFunction(catalog'.views)
  BY <1>1, <1>2, <1>5, <1>6, <1>13, <1>14, ApartKept, ViewsStayFunction
<1>18. Base' = Base
  BY <1>1 DEF Base
<1>19. UnderWay'
  BY <1>1, <1>3, <1>6, <1>11, <1>15, <1>16, <1>18 DEF UnderWay, o, n, B, S
<1>20. Settled' /\ LiveHasNoViews' /\ IndexesApart(before)'
  BY <1>1, <1>18 DEF TInv, Settled, LiveHasNoViews
<1> QED BY <1>17, <1>19, <1>20 DEF TInv

\* A migration is done: the database has the tables and views of the schema.
LEMMA CommitKeepsTInv ==
    ASSUME TablesFollow, Inv, TInv, Commit
    PROVE  TInv'
<1>1. /\ status = "running" /\ todo = <<>>
      /\ catalog' = [catalog EXCEPT !.fresh = {}] /\ before' = catalog'
      /\ saved' = Saved(new) /\ new' = saved' /\ status' = "idle" /\ flow' = flow
  BY DEF Commit
<1>2. new \in Schemas /\ CatalogShape(catalog) /\ Named(new) /\ flow \in {"snapshot", "live"}
  BY <1>1, SchemaNamed DEF Inv, Stages
<1>3. catalog'.tables = catalog.tables /\ catalog'.views = catalog.views /\ CatalogShape(catalog')
  BY <1>1, <1>2 DEF CatalogShape
<1>4. Tables(catalog') = Tables(catalog) /\ (IndexesApart(catalog') <=> IndexesApart(catalog))
  BY <1>3 DEF Tables, IndexesApart
<1>5. /\ TablesUnderWay(Tables(catalog), {}, Base, new, Tables(before))
      /\ ViewsUnderWay(catalog.views, {}, Base, new)
      /\ IsFunction(catalog.views) /\ LiveHasNoViews /\ IndexesApart(catalog)
  BY <1>1, SmallSeqs DEF TInv, UnderWay
<1>6. Reached(Tables(catalog), new) /\ catalog.views = ViewsOf(new)
  BY <1>2, <1>5, TablesEnd, ViewsEnd
<1>7. Saved(new).views = new.views /\ Reached(Tables(catalog), Saved(new))
  BY <1>2, <1>6, SavedTables
<1>8. ViewsOf(Saved(new)) = ViewsOf(new)
  BY <1>7 DEF ViewsOf
<1>9. Settled'
  BY <1>1, <1>3, <1>4, <1>6, <1>7, <1>8 DEF Settled
<1>10. LiveHasNoViews' /\ IsFunction(catalog.views)' /\ IndexesApart(catalog)' /\ IndexesApart(before)'
  BY <1>1, <1>3, <1>4, <1>5, <1>7 DEF LiveHasNoViews
<1> QED BY <1>1, <1>9, <1>10 DEF TInv

--------------------------------------------------------------------------------
(* What Diff finds: tables, columns and views                                 *)

ColumnChange(kind, u, c) == [kind |-> kind, object |-> u, col |-> c]
ColumnRename(u, c, nc)   == [kind |-> "rename_column", object |-> u, old |-> c, col |-> nc]

\* What a change inside table u, once ot, is about.
TableChange(x, u, ot, nt) ==
    /\ x.object = u
    /\ x.kind \in {"add_column", "drop_column", "rename_column", "alter_column_type", "alter_column_nullable",
                   "alter_column_default", "add_constraint", "drop_constraint"}
    /\ x.kind = "add_column" => x.col.name \in NewCols(ot, nt) /\ x.col = ColOf(nt, x.col.name)
    /\ x.kind = "drop_column" => x.col.name \in GoneCols(ot, nt)
    /\ x.kind = "rename_column" => x.col.name \in ColTargets(ot, nt) /\ x.old = OldColName(ot, nt, x.col.name)
    /\ x.kind \in {"alter_column_type", "alter_column_nullable", "alter_column_default"} =>
         x.col.name \in OldCols(ot, nt) /\ x.col = ColOf(nt, x.col.name)
    /\ x.kind = "add_constraint" => x.con \in ToSet(nt.cons)

\* Where the column oc differs from nc, the changes d say so.
Told(oc, u, nc, d) ==
    /\ oc.type = nc.type \/ ColumnChange("alter_column_type", u, nc) \in d
    /\ oc.notNull = nc.notNull \/ ColumnChange("alter_column_nullable", u, nc) \in d
    /\ oc.default = nc.default \/ ColumnChange("alter_column_default", u, nc) \in d

\* The changes d say all that becomes of the columns.
TableTold(d, u, ot, nt) ==
    /\ \A c \in GoneCols(ot, nt) : \E x \in d : x.kind = "drop_column" /\ x.object = u /\ x.col.name = c
    /\ \A k \in NewCols(ot, nt) : ColumnChange("add_column", u, ColOf(nt, k)) \in d
    /\ \A k \in ColTargets(ot, nt) : ColumnRename(u, OldColName(ot, nt, k), ColOf(nt, k)) \in d
    /\ \A k \in OldCols(ot, nt) : Told(ColOf(ot, OldColName(ot, nt, k)), u, ColOf(nt, k), d)

\* A column is altered where it differs.
LEMMA DiffColumnFacts ==
    ASSUME NEW u, NEW oc, NEW nc
    PROVE  LET d == DiffColumn(u, oc, nc)
           IN  /\ IsSeq(d) /\ Told(oc, u, nc, ToSet(d))
               /\ \A x \in ToSet(d) :
                    \E kind \in {"alter_column_type", "alter_column_nullable", "alter_column_default"} :
                      x = ColumnChange(kind, u, nc)
<1> DEFINE x1 == ColumnChange("alter_column_type", u, nc)
           x2 == ColumnChange("alter_column_nullable", u, nc)
           x3 == ColumnChange("alter_column_default", u, nc)
           a == IF oc.type # nc.type THEN <<x1>> ELSE <<>>
           b == IF oc.notNull # nc.notNull THEN <<x2>> ELSE <<>>
           c == IF oc.default # nc.default THEN <<x3>> ELSE <<>>
           d == DiffColumn(u, oc, nc)
<1>1. d = a \o b \o c
  BY DEF DiffColumn, When, ColumnChange
<1> HIDE DEF x1, x2, x3, d
<1>2. IsSeq(a) /\ ToSet(a) \subseteq {x1} /\ (oc.type # nc.type => x1 \in ToSet(a))
  BY SmallSeqs
<1>3. IsSeq(b) /\ ToSet(b) \subseteq {x2} /\ (oc.notNull # nc.notNull => x2 \in ToSet(b))
  BY SmallSeqs
<1>4. IsSeq(c) /\ ToSet(c) \subseteq {x3} /\ (oc.default # nc.default => x3 \in ToSet(c))
  BY SmallSeqs
<1> HIDE DEF a, b, c
<1>5. IsSeq(a \o b) /\ ToSet(a \o b) = ToSet(a) \cup ToSet(b)
  BY <1>2, <1>3, ConcatElements
<1>6. IsSeq(d) /\ ToSet(d) = ToSet(a) \cup ToSet(b) \cup ToSet(c)
  BY <1>1, <1>4, <1>5, ConcatElements
<1>7. Told(oc, u, nc, ToSet(d))
  BY <1>2, <1>3, <1>4, <1>6 DEF Told, x1, x2, x3
<1>8. \A x \in ToSet(d) : x \in {x1, x2, x3}
  BY <1>2, <1>3, <1>4, <1>6
<1> QED BY <1>6, <1>7, <1>8 DEF x1, x2, x3, d

\* What becomes of a column of the new table.
LEMMA ColumnChangesFacts ==
    ASSUME NEW u, NEW ot, NEW nt, IsSeq(nt.cols), Unique(nt), NEW i \in DOMAIN nt.cols
    PROVE  LET c == nt.cols[i]
               k == c.name
               d == ColumnChanges(u, ot, nt, c)
           IN  /\ IsSeq(d) /\ \A x \in ToSet(d) : TableChange(x, u, ot, nt)
               /\ k \in NewCols(ot, nt) => ColumnChange("add_column", u, c) \in ToSet(d)
               /\ k \in ColTargets(ot, nt) => ColumnRename(u, OldColName(ot, nt, k), c) \in ToSet(d)
               /\ k \in OldCols(ot, nt) => Told(ColOf(ot, OldColName(ot, nt, k)), u, c, ToSet(d))
<1> DEFINE c == nt.cols[i]
           k == c.name
           d == ColumnChanges(u, ot, nt, c)
           was == OldColName(ot, nt, k)
           e == DiffColumn(u, ColOf(ot, was), c)
           add == ColumnChange("add_column", u, c)
           ren == ColumnRename(u, was, c)
<1>1. k \in ColNames(nt) /\ ColOf(nt, k) = c
  BY ColOfFacts DEF Unique
<1>2. /\ k \in OldCols(ot, nt) \/ k \in NewCols(ot, nt)
      /\ NewCols(ot, nt) \cap (OldCols(ot, nt) \cup ColNames(ot)) = {}
      /\ k \in ColTargets(ot, nt) => k \in OldCols(ot, nt) /\ was # k
      /\ k \in ColNames(ot) /\ k \in OldCols(ot, nt) => was = k
  BY <1>1, ColumnNames
<1>3. k \in OldCols(ot, nt) => \A x \in ToSet(e) : TableChange(x, u, ot, nt)
  <2> SUFFICES ASSUME k \in OldCols(ot, nt), NEW x \in ToSet(e) PROVE TableChange(x, u, ot, nt)
    OBVIOUS
  <2>1. \E kind \in {"alter_column_type", "alter_column_nullable", "alter_column_default"} :
          x = ColumnChange(kind, u, c)
    BY DiffColumnFacts
  <2> HIDE DEF c, e
  <2> QED BY <1>1, <2>1 DEF TableChange, ColumnChange, k
<1>4. IsSeq(e) /\ Told(ColOf(ot, was), u, c, ToSet(e))
  BY DiffColumnFacts
<1>5. CASE k \in ColNames(ot)
  <2>1. k \in OldCols(ot, nt) /\ was = k /\ k \notin ColTargets(ot, nt) /\ k \notin NewCols(ot, nt)
    BY <1>1, <1>2, <1>5 DEF OldCols
  <2>2. d = e
    BY <1>5, <2>1 DEF ColumnChanges
  <2> QED BY <1>3, <1>4, <2>1, <2>2
<1>6. CASE k \notin ColNames(ot) /\ k \in ColTargets(ot, nt)
  <2>1. was = CHOOSE o \in DOMAIN ColRenames(ot, nt) : ColRenames(ot, nt)[o] = k
    BY <1>6 DEF OldColName
  <2>2. d = <<ren>> \o e
    BY <1>6, <2>1 DEF ColumnChanges, ColTargets, ColumnRename
  <2>3. TableChange(ren, u, ot, nt)
    BY <1>6 DEF TableChange, ColumnRename
  <2>4. k \notin NewCols(ot, nt) /\ k \in OldCols(ot, nt)
    BY <1>2, <1>6
  <2> HIDE DEF ren, e, d
  <2>5. IsSeq(d) /\ ToSet(d) = {ren} \cup ToSet(e)
    BY <1>4, <2>2, SmallSeqs, ConcatElements
  <2>6. Told(ColOf(ot, was), u, c, ToSet(d))
    BY <1>4, <2>5 DEF Told
  <2> QED BY <1>3, <2>3, <2>4, <2>5, <2>6 DEF ren, d
<1>7. CASE k \notin ColNames(ot) /\ k \notin ColTargets(ot, nt)
  <2>1. d = <<add>>
    BY <1>7 DEF ColumnChanges, ColTargets, ColumnChange
  <2>2. k \in NewCols(ot, nt) /\ k \notin OldCols(ot, nt)
    BY <1>1, <1>7 DEF OldCols, NewCols
  <2>3. TableChange(add, u, ot, nt)
    BY <1>1, <2>2 DEF TableChange, ColumnChange
  <2> HIDE DEF add, d
  <2>4. IsSeq(d) /\ ToSet(d) = {add}
    BY <2>1, SmallSeqs
  <2> QED BY <1>7, <2>2, <2>3, <2>4 DEF add, d
<1> QED BY <1>5, <1>6, <1>7

\* A column of the old table that does not live on is dropped.
LEMMA DropColumnFacts ==
    ASSUME NEW u, NEW ot, NEW nt, NEW i \in DOMAIN ot.cols
    PROVE  LET c == ot.cols[i]
               d == DropColumn(u, ot, nt, c)
           IN  /\ IsSeq(d) /\ \A x \in ToSet(d) : TableChange(x, u, ot, nt)
               /\ c.name \in GoneCols(ot, nt) => ColumnChange("drop_column", u, c) \in ToSet(d)
<1> DEFINE c == ot.cols[i]
           d == DropColumn(u, ot, nt, c)
           x == ColumnChange("drop_column", u, c)
<1>1. c.name \in ColNames(ot)
  BY DEF ColNames
<1>2. CASE c.name \in GoneCols(ot, nt)
  <2>1. d = <<x>>
    BY <1>2 DEF DropColumn, When, ColumnChange, GoneCols
  <2>2. TableChange(x, u, ot, nt)
    BY <1>2 DEF TableChange, ColumnChange
  <2> HIDE DEF d, x
  <2>3. IsSeq(d) /\ ToSet(d) = {x}
    BY <2>1, SmallSeqs
  <2> QED BY <2>2, <2>3 DEF d, x
<1>3. CASE c.name \notin GoneCols(ot, nt)
  <2>1. d = <<>>
    BY <1>1, <1>3 DEF DropColumn, When, GoneCols
  <2> QED BY <1>3, <2>1, SmallSeqs
<1> QED BY <1>2, <1>3


\* Of finitely many numbers one is the greatest.
LEMMA GreatestNumber ==
    ASSUME NEW l \in Nat, NEW S, S \subseteq 1..l, S # {}
    PROVE  Max(S) \in S
<1> DEFINE D == {l - i : i \in S}
<1>1. PICK x : x \in D
  OBVIOUS
<1>2. D \subseteq Nat
  OBVIOUS
<1>3. PICK m \in D : \A j \in D : m <= j
  <2> HIDE DEF D
  <2> QED BY <1>1, <1>2, LeastNumber
<1>4. PICK i \in S : m = l - i
  OBVIOUS
<1>5. \A j \in S : i >= j
  <2> SUFFICES ASSUME NEW j \in S PROVE i >= j
    OBVIOUS
  <2>1. l - j \in D
    OBVIOUS
  <2>2. l - i <= l - j
    BY <1>3, <1>4, <2>1
  <2>3. i \in Nat /\ j \in Nat
    OBVIOUS
  <2> HIDE DEF D
  <2> QED BY <2>2, <2>3
<1> QED BY <1>5 DEF Max

\* What becomes of constraints.
LEMMA ConstraintChangesFacts ==
    ASSUME NEW u, NEW ot, NEW nt, IsSeq(nt.cons)
    PROVE  /\ \A c \in ToSet(nt.cons) : IsSeq(ConAdded(u, c)) /\ \A x \in ToSet(ConAdded(u, c)) : TableChange(x, u, ot, nt)
           /\ \A c : /\ IsSeq(ConstraintChanges(u, nt, c))
                     /\ \A x \in ToSet(ConstraintChanges(u, nt, c)) : TableChange(x, u, ot, nt)
<1>1. ASSUME NEW c \in ToSet(nt.cons)
      PROVE  IsSeq(ConAdded(u, c)) /\ \A x \in ToSet(ConAdded(u, c)) : TableChange(x, u, ot, nt)
  <2> DEFINE x == [kind |-> "add_constraint", object |-> u, con |-> c]
  <2>1. ConAdded(u, c) = <<x>> /\ TableChange(x, u, ot, nt)
    BY DEF ConAdded, TableChange
  <2> HIDE DEF x
  <2> QED BY <2>1, SmallSeqs
<1>2. ASSUME NEW c
      PROVE  IsSeq(ConDropped(u, c)) /\ \A x \in ToSet(ConDropped(u, c)) : TableChange(x, u, ot, nt)
  <2> DEFINE x == [kind |-> "drop_constraint", object |-> u, con |-> c]
  <2>1. ConDropped(u, c) = <<x>> /\ TableChange(x, u, ot, nt)
    BY DEF ConDropped, TableChange
  <2> HIDE DEF x
  <2> QED BY <2>1, SmallSeqs
<1>3. ASSUME NEW c
      PROVE  /\ IsSeq(ConstraintChanges(u, nt, c))
             /\ \A x \in ToSet(ConstraintChanges(u, nt, c)) : TableChange(x, u, ot, nt)
  <2> DEFINE d == ConstraintChanges(u, nt, c)
  <2>1. CASE SameKey(nt.cons, c) = {}
    <3>1. d = ConDropped(u, c) \/ d = <<>>
      BY <2>1 DEF ConstraintChanges, When
    <3> QED BY <1>2, <3>1, SmallSeqs
  <2>2. CASE SameKey(nt.cons, c) # {}
    <3> DEFINE m == nt.cons[Max(SameKey(nt.cons, c))]
    <3>1. Max(SameKey(nt.cons, c)) \in DOMAIN nt.cons
      <4>1. SameKey(nt.cons, c) \subseteq 1..Len(nt.cons) /\ Len(nt.cons) \in Nat /\ DOMAIN nt.cons = 1..Len(nt.cons)
        BY SeqDomain DEF SameKey
      <4> QED BY <2>2, <4>1, GreatestNumber
    <3>2. m \in ToSet(nt.cons)
      BY <3>1, SeqDomain
    <3>3. d = ConDropped(u, c) \o ConAdded(u, m) \/ d = <<>>
      BY <2>2 DEF ConstraintChanges, When
    <3> HIDE DEF m, d
    <3>4. CASE d = ConDropped(u, c) \o ConAdded(u, m)
      <4>1. IsSeq(d) /\ ToSet(d) = ToSet(ConDropped(u, c)) \cup ToSet(ConAdded(u, m))
        BY <1>1, <1>2, <3>2, <3>4, ConcatElements
      <4> QED BY <1>1, <1>2, <3>2, <4>1 DEF d
    <3>5. CASE d = <<>>
      BY <3>5, SmallSeqs DEF d
    <3> QED BY <3>3, <3>4, <3>5
  <2> QED BY <2>1, <2>2
<1> QED BY <1>1, <1>3

\* What Diff says of a table that lives on.
LEMMA DiffTableFacts ==
    ASSUME NEW u, NEW ot, NEW nt, NEW r, Listed(ot), Listed(nt), Unique(nt)
    PROVE  LET d == DiffTable(u, ot, nt, r)
           IN  /\ IsSeq(d) /\ \A x \in ToSet(d) : TableChange(x, u, ot, nt)
               /\ TableTold(ToSet(d), u, ot, nt)
<1> DEFINE oldCons == [i \in DOMAIN ot.cons |->
                        NormalizeConstraintRefs(ot.cons[i], u, ColRenames(ot, nt), r)]
           a == [i \in DOMAIN nt.cols |-> ColumnChanges(u, ot, nt, nt.cols[i])]
           b == [i \in DOMAIN ot.cols |-> DropColumn(u, ot, nt, ot.cols[i])]
           c == [i \in DOMAIN nt.cons |-> When(SameKey(oldCons, nt.cons[i]) = {}, ConAdded(u, nt.cons[i]))]
           e == [i \in DOMAIN oldCons |-> ConstraintChanges(u, nt, oldCons[i])]
           d == DiffTable(u, ot, nt, r)
<1>1. d = FlattenSeq(a) \o FlattenSeq(b) \o FlattenSeq(c) \o FlattenSeq(e)
  BY DEF DiffTable, FlatMap
<1>2. IsSeq(oldCons)
  <2>1. oldCons = [i \in DOMAIN ot.cons |-> oldCons[i]]
    OBVIOUS
  <2> HIDE DEF oldCons
  <2> QED BY <2>1, MappedSeq DEF Listed
<1> HIDE DEF oldCons, d
<1>3. /\ a = [i \in DOMAIN nt.cols |-> a[i]] /\ b = [i \in DOMAIN ot.cols |-> b[i]]
      /\ c = [i \in DOMAIN nt.cons |-> c[i]] /\ e = [i \in DOMAIN oldCons |-> e[i]]
  OBVIOUS
<1>4. IsSeq(nt.cols) /\ IsSeq(ot.cols) /\ IsSeq(nt.cons)
  BY DEF Listed
<1>5. ASSUME NEW i \in DOMAIN nt.cols
      PROVE  LET k == nt.cols[i].name
             IN  /\ IsSeq(a[i]) /\ \A x \in ToSet(a[i]) : TableChange(x, u, ot, nt)
                 /\ k \in NewCols(ot, nt) => ColumnChange("add_column", u, nt.cols[i]) \in ToSet(a[i])
                 /\ k \in ColTargets(ot, nt) => ColumnRename(u, OldColName(ot, nt, k), nt.cols[i]) \in ToSet(a[i])
                 /\ k \in OldCols(ot, nt) => Told(ColOf(ot, OldColName(ot, nt, k)), u, nt.cols[i], ToSet(a[i]))
  <2>1. a[i] = ColumnChanges(u, ot, nt, nt.cols[i])
    OBVIOUS
  <2> HIDE DEF a
  <2> QED BY <1>4, <2>1, ColumnChangesFacts
<1>6. ASSUME NEW i \in DOMAIN ot.cols
      PROVE  /\ IsSeq(b[i]) /\ \A x \in ToSet(b[i]) : TableChange(x, u, ot, nt)
             /\ ot.cols[i].name \in GoneCols(ot, nt) => ColumnChange("drop_column", u, ot.cols[i]) \in ToSet(b[i])
  <2>1. b[i] = DropColumn(u, ot, nt, ot.cols[i])
    OBVIOUS
  <2> HIDE DEF b
  <2> QED BY <2>1, DropColumnFacts
<1>7. ASSUME NEW i \in DOMAIN nt.cons PROVE IsSeq(c[i]) /\ \A x \in ToSet(c[i]) : TableChange(x, u, ot, nt)
  <2>1. c[i] = ConAdded(u, nt.cons[i]) \/ c[i] = <<>>
    BY DEF When
  <2>2. nt.cons[i] \in ToSet(nt.cons)
    BY <1>4, SeqDomain
  <2> HIDE DEF c
  <2> QED BY <1>4, <2>1, <2>2, ConstraintChangesFacts, SmallSeqs
<1>8. ASSUME NEW i \in DOMAIN oldCons PROVE IsSeq(e[i]) /\ \A x \in ToSet(e[i]) : TableChange(x, u, ot, nt)
  <2>1. e[i] = ConstraintChanges(u, nt, oldCons[i])
    OBVIOUS
  <2> HIDE DEF e
  <2> QED BY <1>4, <2>1, ConstraintChangesFacts
<1> HIDE DEF a, b, c, e
<1>9. IsSeq(FlattenSeq(a)) /\ ToSet(FlattenSeq(a)) = UNION {ToSet(a[i]) : i \in DOMAIN nt.cols}
  BY <1>3, <1>4, <1>5, FlatElements
<1>10. IsSeq(FlattenSeq(b)) /\ ToSet(FlattenSeq(b)) = UNION {ToSet(b[i]) : i \in DOMAIN ot.cols}
  BY <1>3, <1>4, <1>6, FlatElements
<1>11. IsSeq(FlattenSeq(c)) /\ ToSet(FlattenSeq(c)) = UNION {ToSet(c[i]) : i \in DOMAIN nt.cons}
  BY <1>3, <1>4, <1>7, FlatElements
<1>12. IsSeq(FlattenSeq(e)) /\ ToSet(FlattenSeq(e)) = UNION {ToSet(e[i]) : i \in DOMAIN oldCons}
  BY <1>2, <1>3, <1>8, FlatElements
<1>13. PICK A, B, C, E : A = FlattenSeq(a) /\ B = FlattenSeq(b) /\ C = FlattenSeq(c) /\ E = FlattenSeq(e)
  OBVIOUS
<1>14. IsSeq(A \o B \o C) /\ ToSet(A \o B \o C) = ToSet(A) \cup ToSet(B) \cup ToSet(C)
  <2>1. IsSeq(A \o B) /\ ToSet(A \o B) = ToSet(A) \cup ToSet(B)
    BY <1>9, <1>10, <1>13, ConcatElements
  <2> QED BY <1>11, <1>13, <2>1, ConcatElements
<1>15. IsSeq(d) /\ ToSet(d) = ToSet(A) \cup ToSet(B) \cup ToSet(C) \cup ToSet(E)
  BY <1>1, <1>12, <1>13, <1>14, ConcatElements
<1>16. \A x \in ToSet(d) : TableChange(x, u, ot, nt)
  BY <1>5, <1>6, <1>7, <1>8, <1>9, <1>10, <1>11, <1>12, <1>13, <1>15
<1>17. \A i \in DOMAIN nt.cols : ToSet(a[i]) \subseteq ToSet(d)
  BY <1>9, <1>13, <1>15
<1>18. \A i \in DOMAIN ot.cols : ToSet(b[i]) \subseteq ToSet(d)
  BY <1>10, <1>13, <1>15
<1>19. /\ \A k \in ColNames(nt) : \E i \in DOMAIN nt.cols : nt.cols[i].name = k /\ ColOf(nt, k) = nt.cols[i]
       /\ OldCols(ot, nt) \subseteq ColNames(nt) /\ NewCols(ot, nt) \subseteq ColNames(nt)
       /\ ColTargets(ot, nt) \subseteq OldCols(ot, nt) /\ GoneCols(ot, nt) \subseteq ColNames(ot)
  <2>1. \A k \in ColNames(nt) : \E i \in DOMAIN nt.cols : nt.cols[i].name = k /\ ColOf(nt, k) = nt.cols[i]
    BY ColOfFacts DEF Unique
  <2> QED BY <1>4, <2>1, ColumnNames
<1>20. ASSUME NEW k \in GoneCols(ot, nt)
       PROVE  \E x \in ToSet(d) : x.kind = "drop_column" /\ x.object = u /\ x.col.name = k
  <2>1. PICK i \in DOMAIN ot.cols : ot.cols[i].name = k
    BY <1>19 DEF ColNames
  <2>2. ColumnChange("drop_column", u, ot.cols[i]) \in ToSet(d)
    BY <1>6, <1>18, <2>1
  <2> QED BY <2>1, <2>2 DEF ColumnChange
<1>21. ASSUME NEW k \in NewCols(ot, nt) PROVE ColumnChange("add_column", u, ColOf(nt, k)) \in ToSet(d)
  BY <1>5, <1>17, <1>19
<1>22. ASSUME NEW k \in ColTargets(ot, nt)
       PROVE  ColumnRename(u, OldColName(ot, nt, k), ColOf(nt, k)) \in ToSet(d)
  BY <1>5, <1>17, <1>19
<1>23. ASSUME NEW k \in OldCols(ot, nt)
       PROVE  Told(ColOf(ot, OldColName(ot, nt, k)), u, ColOf(nt, k), ToSet(d))
  <2>1. PICK i \in DOMAIN nt.cols : nt.cols[i].name = k /\ ColOf(nt, k) = nt.cols[i]
    BY <1>19
  <2>2. Told(ColOf(ot, OldColName(ot, nt, k)), u, nt.cols[i], ToSet(a[i]))
    BY <1>5, <2>1
  <2> QED BY <1>17, <2>1, <2>2 DEF Told
<1> QED BY <1>15, <1>16, <1>20, <1>21, <1>22, <1>23 DEF TableTold, d


TableRename(t, u)    == [kind |-> "rename_table", object |-> t, target |-> u]
TableCreate(u)       == [kind |-> "create_table", object |-> u]
TableDrop(t)         == [kind |-> "drop_table", object |-> t]
ViewPut(kind, v, n)  == [kind |-> kind, object |-> v, view |-> n.views[v]]
ViewDrop(v)          == [kind |-> "drop_view", object |-> v]

\* One change for every name of a list.
LEMMA FlatEach ==
    ASSUME NEW s, IsSeq(s), NEW f, NEW ss, ss = [i \in DOMAIN s |-> <<f[s[i]]>>]
    PROVE  IsSeq(FlattenSeq(ss)) /\ ToSet(FlattenSeq(ss)) = {f[x] : x \in ToSet(s)}
<1>1. Picks(s, ToSet(s), f, ss)
  BY SeqDomain DEF Picks
<1>2. IsSeq(FlattenSeq(ss)) /\ \A y : y \in ToSet(FlattenSeq(ss)) <=> \E x \in ToSet(s) : x \in ToSet(s) /\ y = f[x]
  BY <1>1, FlatSome
<1> QED BY <1>2

\* Tables that are renamed, created and dropped.
LEMMA TableLists ==
    ASSUME NEW o, NEW n, DOMAIN n.tables \cup DOMAIN o.tables \subseteq ToSet(Alphabet), Known(n)
    PROVE  /\ IsSeq(RenameTables(o, n))
           /\ ToSet(RenameTables(o, n)) = {TableRename(RenamedTo(o, n, u), u) : u \in RenameTargets(o, n)}
           /\ IsSeq(CreateTables(o, n)) /\ ToSet(CreateTables(o, n)) = {TableCreate(u) : u \in NewTables(o, n)}
           /\ IsSeq(DropTables(o, n)) /\ ToSet(DropTables(o, n)) = {TableDrop(t) : t \in Dropped(o, n)}
<1>1. /\ IsSeq(RenameTables(o, n))
      /\ ToSet(RenameTables(o, n)) = {TableRename(RenamedTo(o, n, u), u) : u \in RenameTargets(o, n)}
  <2> DEFINE s == Sorted(RenameTargets(o, n))
             f == [u \in RenameTargets(o, n) |-> TableRename(RenamedTo(o, n, u), u)]
             ss == [i \in DOMAIN s |-> <<f[s[i]]>>]
  <2>1. IsSeq(s) /\ ToSet(s) = RenameTargets(o, n)
    <3>1. RenameTargets(o, n) \subseteq DOMAIN n.tables
      BY RenamesKnown
    <3> QED BY <3>1, SortedFacts
  <2>2. RenameTables(o, n) = FlattenSeq(ss)
    <3>1. \A i \in DOMAIN s : s[i] \in RenameTargets(o, n)
      BY <2>1, SeqDomain
    <3> QED BY <3>1 DEF RenameTables, FlatMap, TableRename
  <2> HIDE DEF s, f
  <2>3. IsSeq(FlattenSeq(ss)) /\ ToSet(FlattenSeq(ss)) = {f[x] : x \in ToSet(s)}
    BY <2>1, FlatEach
  <2> QED BY <2>1, <2>2, <2>3 DEF f
<1>2. IsSeq(CreateTables(o, n)) /\ ToSet(CreateTables(o, n)) = {TableCreate(u) : u \in NewTables(o, n)}
  <2> DEFINE s == OrderNewTables(NewTables(o, n), n.tables)
             f == [u \in NewTables(o, n) |-> TableCreate(u)]
             ss == [i \in DOMAIN s |-> <<f[s[i]]>>]
  <2>1. IsSeq(s) /\ ToSet(s) = NewTables(o, n)
    <3>1. NewTables(o, n) \subseteq ToSet(Alphabet)
      BY DEF NewTables
    <3> QED BY <3>1, OrderedTables
  <2>2. CreateTables(o, n) = FlattenSeq(ss)
    <3>1. \A i \in DOMAIN s : s[i] \in NewTables(o, n)
      BY <2>1, SeqDomain
    <3>2. CreateTables(o, n) = FlattenSeq([i \in DOMAIN s |-> <<TableCreate(s[i])>>])
      BY DEF CreateTables, FlatMap, TableCreate, NewTables
    <3> HIDE DEF s
    <3>3. ss = [i \in DOMAIN s |-> <<TableCreate(s[i])>>]
      BY <3>1
    <3> QED BY <3>2, <3>3
  <2> HIDE DEF s, f
  <2>3. IsSeq(FlattenSeq(ss)) /\ ToSet(FlattenSeq(ss)) = {f[x] : x \in ToSet(s)}
    BY <2>1, FlatEach
  <2> QED BY <2>1, <2>2, <2>3 DEF f
<1>3. IsSeq(DropTables(o, n)) /\ ToSet(DropTables(o, n)) = {TableDrop(t) : t \in Dropped(o, n)}
  <2> DEFINE s == Sorted(Dropped(o, n))
             f == [t \in Dropped(o, n) |-> TableDrop(t)]
             ss == [i \in DOMAIN s |-> <<f[s[i]]>>]
  <2>1. IsSeq(s) /\ ToSet(s) = Dropped(o, n)
    <3>1. Dropped(o, n) \subseteq ToSet(Alphabet)
      BY DEF Dropped
    <3> QED BY <3>1, SortedFacts
  <2>2. DropTables(o, n) = FlattenSeq(ss)
    <3>1. \A i \in DOMAIN s : s[i] \in Dropped(o, n)
      BY <2>1, SeqDomain
    <3> QED BY <3>1 DEF DropTables, FlatMap, TableDrop
  <2> HIDE DEF s, f
  <2>3. IsSeq(FlattenSeq(ss)) /\ ToSet(FlattenSeq(ss)) = {f[x] : x \in ToSet(s)}
    BY <2>1, FlatEach
  <2> QED BY <2>1, <2>2, <2>3 DEF f
<1> QED BY <1>1, <1>2, <1>3

\* Views that are put.
LEMMA PutViewsFacts ==
    ASSUME NEW n, DOMAIN n.views \subseteq ToSet(Alphabet), NEW kind, NEW names, names \subseteq DOMAIN n.views
    PROVE  /\ IsSeq(PutViews(kind, n, names))
           /\ ToSet(PutViews(kind, n, names)) = {ViewPut(kind, v, n) : v \in names}
<1> DEFINE s == Sorted(names)
           f == [v \in names |-> ViewPut(kind, v, n)]
           ss == [i \in DOMAIN s |-> <<f[s[i]]>>]
<1>1. IsSeq(s) /\ ToSet(s) = names
  BY SortedFacts
<1>2. PutViews(kind, n, names) = FlattenSeq(ss)
  <2>1. \A i \in DOMAIN s : s[i] \in names
    <3> HIDE DEF s
    <3> QED BY <1>1, SeqDomain
  <2> QED BY <2>1 DEF PutViews, FlatMap, ViewPut
<1> HIDE DEF s, f
<1>3. IsSeq(FlattenSeq(ss)) /\ ToSet(FlattenSeq(ss)) = {f[x] : x \in ToSet(s)}
  BY <1>1, FlatEach
<1> QED BY <1>1, <1>2, <1>3 DEF f

\* Views that are dropped.
LEMMA DropViewsFacts ==
    ASSUME NEW o, NEW n, DOMAIN o.views \subseteq ToSet(Alphabet)
    PROVE  /\ IsSeq(DropViews(o, n))
           /\ ToSet(DropViews(o, n)) = {ViewDrop(v) : v \in DOMAIN o.views \ DOMAIN n.views}
<1> DEFINE names == DOMAIN o.views \ DOMAIN n.views
           s == Sorted(names)
           f == [v \in names |-> ViewDrop(v)]
           ss == [i \in DOMAIN s |-> <<f[s[i]]>>]
<1>1. IsSeq(s) /\ ToSet(s) = names
  <2>1. names \subseteq ToSet(Alphabet)
    OBVIOUS
  <2> HIDE DEF names
  <2> QED BY <2>1, SortedFacts
<1>2. DropViews(o, n) = FlattenSeq(ss)
  <2>1. \A i \in DOMAIN s : s[i] \in names
    <3> HIDE DEF s, names
    <3> QED BY <1>1, SeqDomain
  <2> QED BY <2>1 DEF DropViews, FlatMap, ViewDrop
<1> HIDE DEF s, f, names
<1>3. IsSeq(FlattenSeq(ss)) /\ ToSet(FlattenSeq(ss)) = {f[x] : x \in ToSet(s)}
  BY <1>1, FlatEach
<1> QED BY <1>1, <1>2, <1>3 DEF f, names

\* What changes inside the tables that live on.
LEMMA AlterTablesFacts ==
    ASSUME NEW o, NEW n, Named(n), Readable(o), Readable(n)
    PROVE  /\ IsSeq(AlterTables(o, n))
           /\ \A x \in ToSet(AlterTables(o, n)) : \E u \in OldTables(o, n) :
                TableChange(x, u, o.tables[OldName(o, n, u)], n.tables[u])
           /\ \A u \in OldTables(o, n) :
                TableTold(ToSet(AlterTables(o, n)), u, o.tables[OldName(o, n, u)], n.tables[u])
<1> DEFINE s == Sorted(OldTables(o, n))
           ss == [i \in DOMAIN s |-> DiffTable(s[i], o.tables[OldName(o, n, s[i])], n.tables[s[i]], TableRenames(o, n))]
           d == AlterTables(o, n)
<1>1. d = FlattenSeq(ss)
  <2>1. (DOMAIN n.tables \cap DOMAIN o.tables) \cup RenameTargets(o, n) = OldTables(o, n)
    BY DEF OldTables
  <2> QED BY <2>1 DEF AlterTables, FlatMap, OldName
<1>2. Known(n) /\ \A u \in DOMAIN n.tables : IsSeq(n.tables[u].cols) /\ Unique(n.tables[u])
  BY DEF Named
<1>3. \A u \in OldTables(o, n) : u \in DOMAIN n.tables /\ OldName(o, n, u) \in DOMAIN o.tables
  BY <1>2, TableNames
<1>4. IsSeq(s) /\ ToSet(s) = OldTables(o, n)
  <2>1. OldTables(o, n) \subseteq ToSet(Alphabet)
    BY <1>2, <1>3 DEF Known
  <2> QED BY <2>1, SortedFacts
<1>5. ss = [i \in DOMAIN s |-> ss[i]]
  OBVIOUS
<1>6. ASSUME NEW i \in DOMAIN s
      PROVE  /\ s[i] \in OldTables(o, n) /\ IsSeq(ss[i])
             /\ \A x \in ToSet(ss[i]) : TableChange(x, s[i], o.tables[OldName(o, n, s[i])], n.tables[s[i]])
             /\ TableTold(ToSet(ss[i]), s[i], o.tables[OldName(o, n, s[i])], n.tables[s[i]])
  <2>1. PICK u : u = s[i]
    OBVIOUS
  <2>2. u \in OldTables(o, n)
    BY <1>4, <2>1, SeqDomain
  <2>3. PICK ot, nt : ot = o.tables[OldName(o, n, u)] /\ nt = n.tables[u]
    OBVIOUS
  <2>4. ss[i] = DiffTable(u, ot, nt, TableRenames(o, n))
    BY <2>1, <2>3
  <2>5. Listed(ot) /\ Listed(nt) /\ Unique(nt)
    BY <1>2, <1>3, <2>2, <2>3 DEF Readable
  <2> HIDE DEF ss
  <2>6. IsSeq(ss[i]) /\ (\A x \in ToSet(ss[i]) : TableChange(x, u, ot, nt)) /\ TableTold(ToSet(ss[i]), u, ot, nt)
    BY <2>4, <2>5, DiffTableFacts
  <2> QED BY <2>1, <2>2, <2>3, <2>6
<1> HIDE DEF s, ss, d
<1>7. IsSeq(d) /\ ToSet(d) = UNION {ToSet(ss[i]) : i \in DOMAIN s}
  BY <1>1, <1>4, <1>5, <1>6, FlatElements
<1>8. \A x \in ToSet(d) : \E u \in OldTables(o, n) : TableChange(x, u, o.tables[OldName(o, n, u)], n.tables[u])
  BY <1>6, <1>7
<1>9. ASSUME NEW u \in OldTables(o, n) PROVE TableTold(ToSet(d), u, o.tables[OldName(o, n, u)], n.tables[u])
  <2>1. PICK i \in DOMAIN s : s[i] = u
    BY <1>4, SeqDomain
  <2>2. ToSet(ss[i]) \subseteq ToSet(d)
    BY <1>7
  <2>3. TableTold(ToSet(ss[i]), u, o.tables[OldName(o, n, u)], n.tables[u])
    BY <1>6, <2>1
  <2> QED BY <2>2, <2>3 DEF TableTold, Told
<1> QED BY <1>7, <1>8, <1>9 DEF d


\* A change on the way from o to n.
SchemaChange(x, o, n) ==
    \/ x.kind \in {"create_enum", "alter_enum", "drop_enum"}
    \/ \E u \in RenameTargets(o, n) : x = TableRename(RenamedTo(o, n, u), u)
    \/ \E u \in NewTables(o, n) : x = TableCreate(u)
    \/ \E t \in Dropped(o, n) : x = TableDrop(t)
    \/ \E u \in OldTables(o, n) : TableChange(x, u, o.tables[OldName(o, n, u)], n.tables[u])
    \/ \E v \in DOMAIN n.views : x = ViewPut("create_view", v, n)
    \/ \E v \in DOMAIN n.views \cap DOMAIN o.views : x = ViewPut("replace_view", v, n)
    \/ \E v \in DOMAIN o.views \ DOMAIN n.views : x = ViewDrop(v)

\* The changes d say all that becomes of tables and views.
SchemaTold(d, o, n) ==
    /\ \A u \in RenameTargets(o, n) : TableRename(RenamedTo(o, n, u), u) \in d
    /\ \A u \in NewTables(o, n) : TableCreate(u) \in d
    /\ \A t \in Dropped(o, n) : TableDrop(t) \in d
    /\ \A u \in OldTables(o, n) : TableTold(d, u, o.tables[OldName(o, n, u)], n.tables[u])
    /\ \A v \in NewViews(o, n) : ViewPut("create_view", v, n) \in d
    /\ \A v \in ChangedViews(o, n) : ViewPut("replace_view", v, n) \in d
    /\ \A v \in DOMAIN o.views \ DOMAIN n.views : ViewDrop(v) \in d

\* The names of a snapshot are of the alphabet, and its tables are listed.
Spelled(o) ==
    DOMAIN o.tables \cup DOMAIN o.views \cup DOMAIN o.enums \subseteq ToSet(Alphabet) /\ Readable(o)

\* Diff says all of it, and nothing else.
LEMMA DiffTells ==
    ASSUME NEW o, NEW n, Spelled(o), Spelled(n), Named(n), \A e \in DOMAIN n.enums : IsSeq(n.enums[e])
    PROVE  LET d == Diff(o, n)
           IN  IsSeq(d) /\ (\A x \in ToSet(d) : SchemaChange(x, o, n)) /\ SchemaTold(ToSet(d), o, n)
<1> DEFINE gone     == Dropped(o, n)
           renamed  == DOMAIN TableRenames(o, n)
           newEnums == DOMAIN n.enums \ DOMAIN o.enums
           p1  == CreateEnums(n, newEnums \ (gone \cup renamed))
           p2  == AlterEnums(o, n)
           p3  == RenameTables(o, n)
           p4  == CreateEnums(n, newEnums \cap renamed)
           p5  == CreateTables(o, n)
           p6  == AlterTables(o, n)
           p7  == PutViews("create_view", n, NewViews(o, n) \ gone)
           p8  == PutViews("replace_view", n, ChangedViews(o, n) \ gone)
           p9  == DropViews(o, n)
           p10 == DropTables(o, n)
           p11 == CreateEnums(n, newEnums \cap gone)
           p12 == PutViews("create_view", n, NewViews(o, n) \cap gone)
           p13 == PutViews("replace_view", n, ChangedViews(o, n) \cap gone)
           p14 == DropEnums(o, n)
           d   == Diff(o, n)
           Enums(p) == IsSeq(p) /\ \A x \in ToSet(p) : x.kind \in {"create_enum", "alter_enum", "drop_enum"}
<1>1. d = p1 \o p2 \o p3 \o p4 \o p5 \o p6 \o p7 \o p8 \o p9 \o p10 \o p11 \o p12 \o p13 \o p14
  BY DEF Diff
<1>2. ASSUME NEW names PROVE Enums(CreateEnums(n, names))
  BY CreateEnumsFacts DEF NewEnum
<1>3. Enums(p2) /\ Enums(p14)
  <2>1. IsSeq(p2) /\ \A x \in ToSet(p2) : \E e : x = LongerEnum(e, o, n)
    BY AlterEnumsFacts
  <2>2. IsSeq(p14) /\ \A x \in ToSet(p14) : \E e : x = OldEnum(e)
    <3>1. PICK E : E = ToSet(Sorted(DOMAIN o.enums \ DOMAIN n.enums))
      OBVIOUS
    <3>2. IsSeq(p14) /\ ToSet(p14) = {OldEnum(e) : e \in E}
      BY <3>1, DropEnumsFacts
    <3> HIDE DEF p14
    <3> QED BY <3>2
  <2> HIDE DEF p2, p14
  <2> QED BY <2>1, <2>2 DEF LongerEnum, OldEnum
<1>4. Enums(p1) /\ Enums(p4) /\ Enums(p11)
  <2> HIDE DEF Enums
  <2> QED BY <1>2
<1>5. /\ IsSeq(p3) /\ ToSet(p3) = {TableRename(RenamedTo(o, n, u), u) : u \in RenameTargets(o, n)}
      /\ IsSeq(p5) /\ ToSet(p5) = {TableCreate(u) : u \in NewTables(o, n)}
      /\ IsSeq(p10) /\ ToSet(p10) = {TableDrop(t) : t \in Dropped(o, n)}
  BY TableLists DEF Spelled, Named
<1>6. /\ IsSeq(p6)
      /\ \A x \in ToSet(p6) : \E u \in OldTables(o, n) :
           TableChange(x, u, o.tables[OldName(o, n, u)], n.tables[u])
      /\ \A u \in OldTables(o, n) : TableTold(ToSet(p6), u, o.tables[OldName(o, n, u)], n.tables[u])
  BY AlterTablesFacts DEF Spelled
<1>7. DOMAIN n.views \cup DOMAIN o.views \subseteq ToSet(Alphabet)
  BY DEF Spelled
<1>8. NewViews(o, n) \subseteq DOMAIN n.views /\ ChangedViews(o, n) \subseteq DOMAIN n.views \cap DOMAIN o.views
  BY DEF NewViews, ChangedViews
<1>9. /\ IsSeq(p7) /\ ToSet(p7) = {ViewPut("create_view", v, n) : v \in NewViews(o, n) \ gone}
      /\ IsSeq(p12) /\ ToSet(p12) = {ViewPut("create_view", v, n) : v \in NewViews(o, n) \cap gone}
  <2>1. NewViews(o, n) \ gone \subseteq DOMAIN n.views /\ NewViews(o, n) \cap gone \subseteq DOMAIN n.views
    BY <1>8
  <2> HIDE DEF gone
  <2> QED BY <1>7, <2>1, PutViewsFacts
<1>10. /\ IsSeq(p8) /\ ToSet(p8) = {ViewPut("replace_view", v, n) : v \in ChangedViews(o, n) \ gone}
       /\ IsSeq(p13) /\ ToSet(p13) = {ViewPut("replace_view", v, n) : v \in ChangedViews(o, n) \cap gone}
  <2>1. ChangedViews(o, n) \ gone \subseteq DOMAIN n.views /\ ChangedViews(o, n) \cap gone \subseteq DOMAIN n.views
    BY <1>8
  <2> HIDE DEF gone
  <2> QED BY <1>7, <2>1, PutViewsFacts
<1>11. IsSeq(p9) /\ ToSet(p9) = {ViewDrop(v) : v \in DOMAIN o.views \ DOMAIN n.views}
  BY <1>7, DropViewsFacts
<1> HIDE DEF p1, p2, p3, p4, p5, p6, p7, p8, p9, p10, p11, p12, p13, p14, d, gone
<1>12. /\ IsSeq(d)
       /\ ToSet(d) = ToSet(p1) \cup ToSet(p2) \cup ToSet(p3) \cup ToSet(p4) \cup ToSet(p5)
                     \cup ToSet(p6) \cup ToSet(p7) \cup ToSet(p8) \cup ToSet(p9) \cup ToSet(p10)
                     \cup ToSet(p11) \cup ToSet(p12) \cup ToSet(p13) \cup ToSet(p14)
  BY <1>1, <1>3, <1>4, <1>5, <1>6, <1>9, <1>10, <1>11, ConcatParts
<1>13. \A x \in ToSet(d) : SchemaChange(x, o, n)
  <2>1. \A x \in ToSet(p1) \cup ToSet(p2) \cup ToSet(p4) \cup ToSet(p11) \cup ToSet(p14) : SchemaChange(x, o, n)
    BY <1>3, <1>4 DEF SchemaChange
  <2>2. \A x \in ToSet(p3) \cup ToSet(p5) \cup ToSet(p10) : SchemaChange(x, o, n)
    BY <1>5 DEF SchemaChange
  <2>3. \A x \in ToSet(p6) : SchemaChange(x, o, n)
    BY <1>6 DEF SchemaChange
  <2>4. \A x \in ToSet(p7) \cup ToSet(p12) : SchemaChange(x, o, n)
    BY <1>8, <1>9 DEF SchemaChange
  <2>5. \A x \in ToSet(p8) \cup ToSet(p13) : SchemaChange(x, o, n)
    BY <1>8, <1>10 DEF SchemaChange
  <2>6. \A x \in ToSet(p9) : SchemaChange(x, o, n)
    BY <1>11 DEF SchemaChange
  <2> QED BY <1>12, <2>1, <2>2, <2>3, <2>4, <2>5, <2>6
<1>14. SchemaTold(ToSet(d), o, n)
  <2>1. /\ \A u \in RenameTargets(o, n) : TableRename(RenamedTo(o, n, u), u) \in ToSet(d)
        /\ \A u \in NewTables(o, n) : TableCreate(u) \in ToSet(d)
        /\ \A t \in Dropped(o, n) : TableDrop(t) \in ToSet(d)
    BY <1>5, <1>12
  <2>2. ASSUME NEW u \in OldTables(o, n)
        PROVE  TableTold(ToSet(d), u, o.tables[OldName(o, n, u)], n.tables[u])
    <3>1. TableTold(ToSet(p6), u, o.tables[OldName(o, n, u)], n.tables[u]) /\ ToSet(p6) \subseteq ToSet(d)
      BY <1>6, <1>12
    <3> QED BY <3>1 DEF TableTold, Told
  <2>3. \A v \in NewViews(o, n) : ViewPut("create_view", v, n) \in ToSet(d)
    BY <1>9, <1>12
  <2>4. \A v \in ChangedViews(o, n) : ViewPut("replace_view", v, n) \in ToSet(d)
    BY <1>10, <1>12
  <2>5. \A v \in DOMAIN o.views \ DOMAIN n.views : ViewDrop(v) \in ToSet(d)
    BY <1>11, <1>12
  <2> QED BY <2>1, <2>2, <2>3, <2>4, <2>5 DEF SchemaTold
<1> QED BY <1>12, <1>13, <1>14 DEF d


--------------------------------------------------------------------------------
(* The statements of a change                                                 *)

\* Statements on the way from o to n that drop no view for good which n has.
Statements(a, o, n) == IsSeq(a) /\ (\A s \in ToSet(a) : TableStatement(s, o, n)) /\ Restored(a, n)

\* One statement that drops no view, or one that n does not have.
LEMMA OneStatement ==
    ASSUME NEW o, NEW n, NEW s, TableStatement(s, o, n), s.op = "drop_view" => s.name \notin DOMAIN n.views
    PROVE  Statements(<<s>>, o, n)
<1>1. IsSeq(<<s>>) /\ ToSet(<<s>>) = {s}
  BY SmallSeqs
<1>2. Restored(<<s>>, n)
  BY DEF Restored
<1> QED BY <1>1, <1>2 DEF Statements

\* A new table with its indexes.
LEMMA CreateStatements ==
    ASSUME NEW o, NEW n, NEW u \in NewTables(o, n), u \in DOMAIN n.tables, Listed(n.tables[u])
    PROVE  LET a == CreateTable(u, n)
           IN  Statements(a, o, n) /\ \E s \in ToSet(a) : s.op = "create_table" /\ s.table = u
<1> DEFINE cons == n.tables[u].cons
           kept == [i \in DOMAIN cons |-> When(cons[i].kind \notin IndexKinds, <<cons[i]>>)]
           idx  == [i \in DOMAIN cons |-> When(cons[i].kind \in IndexKinds, CreateIndex(u, cons[i]))]
           s == [op |-> "create_table", table |-> u, cols |-> n.tables[u].cols, cons |-> FlattenSeq(kept)]
           a == CreateTable(u, n)
<1>1. a = <<s>> \o FlattenSeq(idx)
  BY DEF CreateTable, FlatMap
<1>2. IsSeq(cons)
  BY DEF Listed
<1>3. kept = [i \in DOMAIN cons |-> kept[i]] /\ \A i \in DOMAIN cons : kept[i] = <<cons[i]>> \/ kept[i] = <<>>
  BY DEF When
<1>4. idx = [i \in DOMAIN cons |-> idx[i]]
      /\ \A i \in DOMAIN cons : idx[i] = <<[op |-> "create_index", table |-> u, con |-> cons[i]]>> \/ idx[i] = <<>>
  BY DEF When, CreateIndex
<1> HIDE DEF kept, idx
<1>5. \A i \in DOMAIN cons : IsSeq(kept[i]) /\ ToSet(kept[i]) \subseteq ToSet(cons)
  <2> SUFFICES ASSUME NEW i \in DOMAIN cons PROVE IsSeq(kept[i]) /\ ToSet(kept[i]) \subseteq ToSet(cons)
    OBVIOUS
  <2>1. PICK c : c = cons[i]
    OBVIOUS
  <2>2. c \in ToSet(cons)
    BY <1>2, <2>1, SeqDomain
  <2>3. kept[i] = <<c>> \/ kept[i] = <<>>
    BY <1>3, <2>1
  <2> QED BY <2>2, <2>3, SmallSeqs
<1>6. IsSeq(FlattenSeq(kept)) /\ ToSet(FlattenSeq(kept)) \subseteq ToSet(cons)
  <2>1. ToSet(FlattenSeq(kept)) = UNION {ToSet(kept[i]) : i \in DOMAIN cons} /\ IsSeq(FlattenSeq(kept))
    BY <1>2, <1>3, <1>5, FlatElements
  <2> QED BY <1>5, <2>1
<1>7. TableStatement(s, o, n) /\ s.op = "create_table" /\ s.table = u
  <2> HIDE DEF kept
  <2> QED BY <1>6 DEF TableStatement
<1>8. \A i \in DOMAIN cons : IsSeq(idx[i]) /\ \A x \in ToSet(idx[i]) : TableStatement(x, o, n) /\ x.op = "create_index"
  <2> SUFFICES ASSUME NEW i \in DOMAIN cons
               PROVE  IsSeq(idx[i]) /\ \A x \in ToSet(idx[i]) : TableStatement(x, o, n) /\ x.op = "create_index"
    OBVIOUS
  <2> DEFINE x == [op |-> "create_index", table |-> u, con |-> cons[i]]
  <2>1. cons[i] \in ToSet(cons)
    BY <1>2, SeqDomain
  <2>2. TableStatement(x, o, n) /\ x.op = "create_index"
    BY <2>1 DEF TableStatement
  <2>3. idx[i] = <<x>> \/ idx[i] = <<>>
    BY <1>4
  <2> HIDE DEF x
  <2> QED BY <2>2, <2>3, SmallSeqs
<1>9. /\ IsSeq(FlattenSeq(idx))
      /\ \A x \in ToSet(FlattenSeq(idx)) : TableStatement(x, o, n) /\ x.op = "create_index"
  <2>1. ToSet(FlattenSeq(idx)) = UNION {ToSet(idx[i]) : i \in DOMAIN cons} /\ IsSeq(FlattenSeq(idx))
    BY <1>2, <1>4, <1>8, FlatElements
  <2> QED BY <1>8, <2>1
<1> HIDE DEF s, a
<1>10. IsSeq(a) /\ ToSet(a) = {s} \cup ToSet(FlattenSeq(idx))
  BY <1>1, <1>9, SmallSeqs, ConcatElements
<1>11. \A x \in ToSet(a) : TableStatement(x, o, n) /\ x.op # "drop_view"
  BY <1>7, <1>9, <1>10
<1>12. Restored(a, n)
  <2>1. \A i \in DOMAIN a : a[i] \in ToSet(a)
    BY <1>10, SeqDomain
  <2> QED BY <1>11, <2>1 DEF Restored
<1> QED BY <1>7, <1>10, <1>11, <1>12 DEF Statements, a

\* What changes inside a table.
LEMMA AlterStatements ==
    ASSUME NEW o, NEW n, Known(n), NEW u \in OldTables(o, n), NEW x,
           TableChange(x, u, o.tables[OldName(o, n, u)], n.tables[u])
    PROVE  Statements(GenerateChangeSQL(n, x), o, n)
<1> DEFINE ot == o.tables[OldName(o, n, u)]
           nt == n.tables[u]
           a == GenerateChangeSQL(n, x)
<1>0. u \in DOMAIN n.tables
  BY TableNames
<1>1. CASE x.kind \in {"add_column", "drop_column", "alter_column_type", "alter_column_nullable",
                       "alter_column_default"}
  <2> DEFINE s == [op |-> x.kind, table |-> u, col |-> x.col]
  <2>1. a = <<s>>
    BY <1>1 DEF GenerateChangeSQL, TableChange
  <2>2. TableStatement(s, o, n) /\ s.op # "drop_view"
    BY <1>1 DEF TableStatement, TableChange
  <2> HIDE DEF s
  <2> QED BY <2>1, <2>2, OneStatement
<1>2. CASE x.kind = "rename_column"
  <2> DEFINE s == [op |-> "rename_column", table |-> u, from |-> x.old, to |-> x.col.name]
  <2>1. a = <<s>>
    BY <1>2 DEF GenerateChangeSQL, TableChange
  <2>2. TableStatement(s, o, n) /\ s.op # "drop_view"
    BY <1>2 DEF TableStatement, TableChange
  <2> HIDE DEF s
  <2> QED BY <2>1, <2>2, OneStatement
<1>3. Statements(<<>>, o, n)
  BY SmallSeqs DEF Statements, Restored
<1>4. CASE x.kind = "add_constraint"
  <2> DEFINE s1 == [op |-> "create_index", table |-> u, con |-> x.con]
             s2 == [op |-> "add_constraint", table |-> u, con |-> x.con]
  <2>1. a = <<s1>> \/ a = <<s2>> \/ a = <<>>
    BY <1>4 DEF GenerateChangeSQL, TableChange, AddConstraint, CreateIndex, When
  <2>2. TableStatement(s1, o, n) /\ TableStatement(s2, o, n) /\ s1.op # "drop_view" /\ s2.op # "drop_view"
    BY <1>0, <1>4 DEF TableStatement, TableChange
  <2> HIDE DEF s1, s2
  <2> QED BY <1>3, <2>1, <2>2, OneStatement
<1>5. CASE x.kind = "drop_constraint"
  <2> DEFINE s1 == [op |-> "drop_index", name |-> x.con.name]
             s2 == [op |-> "drop_constraint", table |-> u, name |-> x.con.name]
  <2>1. a = <<s1>> \/ a = <<s2>>
    BY <1>5 DEF GenerateChangeSQL, TableChange, DropConstraint
  <2>2. TableStatement(s1, o, n) /\ TableStatement(s2, o, n) /\ s1.op # "drop_view" /\ s2.op # "drop_view"
    BY DEF TableStatement
  <2> HIDE DEF s1, s2
  <2> QED BY <2>1, <2>2, OneStatement
<1> QED BY <1>1, <1>2, <1>4, <1>5 DEF TableChange

\* Tables that are renamed, created or dropped.
LEMMA WholeTableStatements ==
    ASSUME NEW o, NEW n, Known(n), Readable(n)
    PROVE  /\ \A u \in RenameTargets(o, n) :
                /\ Statements(GenerateChangeSQL(n, TableRename(RenamedTo(o, n, u), u)), o, n)
                /\ RenameTable(RenamedTo(o, n, u), u) \in ToSet(GenerateChangeSQL(n, TableRename(RenamedTo(o, n, u), u)))
           /\ \A u \in NewTables(o, n) :
                /\ Statements(GenerateChangeSQL(n, TableCreate(u)), o, n)
                /\ \E s \in ToSet(GenerateChangeSQL(n, TableCreate(u))) : s.op = "create_table" /\ s.table = u
           /\ \A t \in Dropped(o, n) :
                /\ Statements(GenerateChangeSQL(n, TableDrop(t)), o, n)
                /\ [op |-> "drop_table", table |-> t] \in ToSet(GenerateChangeSQL(n, TableDrop(t)))
<1>1. ASSUME NEW u \in RenameTargets(o, n)
      PROVE  LET a == GenerateChangeSQL(n, TableRename(RenamedTo(o, n, u), u))
             IN  Statements(a, o, n) /\ RenameTable(RenamedTo(o, n, u), u) \in ToSet(a)
  <2> DEFINE s == RenameTable(RenamedTo(o, n, u), u)
             a == GenerateChangeSQL(n, TableRename(RenamedTo(o, n, u), u))
  <2>1. a = <<s>>
    BY DEF GenerateChangeSQL, TableRename, RenameTable
  <2>2. TableStatement(s, o, n) /\ s.op # "drop_view"
    BY DEF TableStatement, RenameTable
  <2> HIDE DEF s, a
  <2> QED BY <2>1, <2>2, OneStatement, SmallSeqs DEF s, a
<1>2. ASSUME NEW u \in NewTables(o, n)
      PROVE  LET a == GenerateChangeSQL(n, TableCreate(u))
             IN  Statements(a, o, n) /\ \E s \in ToSet(a) : s.op = "create_table" /\ s.table = u
  <2>1. GenerateChangeSQL(n, TableCreate(u)) = CreateTable(u, n)
    BY DEF GenerateChangeSQL, TableCreate
  <2>2. u \in DOMAIN n.tables /\ Listed(n.tables[u])
    BY TableNames DEF Readable
  <2> QED BY <2>1, <2>2, CreateStatements
<1>3. ASSUME NEW t \in Dropped(o, n)
      PROVE  LET a == GenerateChangeSQL(n, TableDrop(t))
             IN  Statements(a, o, n) /\ [op |-> "drop_table", table |-> t] \in ToSet(a)
  <2> DEFINE s == [op |-> "drop_table", table |-> t]
             a == GenerateChangeSQL(n, TableDrop(t))
  <2>1. a = <<s>>
    BY DEF GenerateChangeSQL, TableDrop
  <2>2. TableStatement(s, o, n) /\ s.op # "drop_view"
    BY DEF TableStatement
  <2> HIDE DEF s, a
  <2> QED BY <2>1, <2>2, OneStatement, SmallSeqs DEF s, a
<1> QED BY <1>1, <1>2, <1>3

\* A view that is put or dropped.
LEMMA ViewStatements ==
    ASSUME NEW o, NEW n, NEW v
    PROVE  /\ v \in DOMAIN n.views =>
                LET a == GenerateChangeSQL(n, ViewPut("create_view", v, n))
                IN  Statements(a, o, n) /\ \E s \in ToSet(a) : s.op = "create_view" /\ s.name = v
           /\ v \in DOMAIN n.views /\ v \in DOMAIN o.views =>
                LET a == GenerateChangeSQL(n, ViewPut("replace_view", v, n))
                IN  Statements(a, o, n) /\ \E s \in ToSet(a) : s.op = "create_view" /\ s.name = v
           /\ v \in DOMAIN o.views /\ v \notin DOMAIN n.views =>
                LET a == GenerateChangeSQL(n, ViewDrop(v))
                IN  Statements(a, o, n) /\ \E s \in ToSet(a) : s.op = "drop_view" /\ s.name = v
<1> DEFINE create(r) == [op |-> "create_view", name |-> v, view |-> n.views[v], replace |-> r]
           drop      == [op |-> "drop_view", name |-> v]
<1>1. v \in DOMAIN n.views =>
        \A r : TableStatement(create(r), o, n) /\ create(r).op = "create_view" /\ create(r).name = v
  BY DEF TableStatement
<1>2. v \in DOMAIN o.views => TableStatement(drop, o, n) /\ drop.op = "drop_view" /\ drop.name = v
  BY DEF TableStatement
<1>3. ASSUME v \in DOMAIN n.views
      PROVE  LET a == GenerateChangeSQL(n, ViewPut("create_view", v, n))
             IN  Statements(a, o, n) /\ \E s \in ToSet(a) : s.op = "create_view" /\ s.name = v
  <2> DEFINE a == GenerateChangeSQL(n, ViewPut("create_view", v, n))
  <2>1. a = <<create(TRUE)>>
    BY DEF GenerateChangeSQL, ViewPut
  <2> HIDE DEF a, create
  <2>2. PICK s : s = create(TRUE)
    OBVIOUS
  <2>3. a = <<s>> /\ TableStatement(s, o, n) /\ s.op = "create_view" /\ s.name = v
    BY <1>1, <1>3, <2>1, <2>2
  <2> QED BY <2>3, OneStatement, SmallSeqs DEF a
<1>4. ASSUME v \in DOMAIN n.views, v \in DOMAIN o.views
      PROVE  LET a == GenerateChangeSQL(n, ViewPut("replace_view", v, n))
             IN  Statements(a, o, n) /\ \E s \in ToSet(a) : s.op = "create_view" /\ s.name = v
  <2> DEFINE a == GenerateChangeSQL(n, ViewPut("replace_view", v, n))
  <2>1. a = <<drop>> \o <<create(FALSE)>>
    BY DEF GenerateChangeSQL, ViewPut
  <2> HIDE DEF a, create, drop
  <2>2. PICK s, x : s = create(FALSE) /\ x = drop
    OBVIOUS
  <2>3. /\ a = <<x>> \o <<s>> /\ TableStatement(s, o, n) /\ s.op = "create_view" /\ s.name = v
        /\ TableStatement(x, o, n) /\ x.op = "drop_view" /\ x.name = v
    BY <1>1, <1>2, <1>4, <2>1, <2>2
  <2>4. DOMAIN a = 1..2 /\ a[1] = x /\ a[2] = s
    <3>1. (<<x>> \o <<s>>)[1] = x
      OBVIOUS
    <3>2. (<<x>> \o <<s>>)[2] = s
      OBVIOUS
    <3>3. DOMAIN (<<x>> \o <<s>>) = 1..2
      OBVIOUS
    <3> QED BY <2>3, <3>1, <3>2, <3>3
  <2>5. IsSeq(a) /\ ToSet(a) = {x, s}
    <3>1. IsSeq(<<x>>) /\ IsSeq(<<s>>) /\ ToSet(<<x>>) = {x} /\ ToSet(<<s>>) = {s}
      BY SmallSeqs
    <3>2. PICK y, z : y = <<x>> /\ z = <<s>>
      OBVIOUS
    <3>3. IsSeq(y \o z) /\ ToSet(y \o z) = ToSet(y) \cup ToSet(z)
      BY <3>1, <3>2, ConcatElements
    <3> QED BY <2>3, <3>1, <3>2, <3>3
  <2>6. Restored(a, n)
    <3>1. \A i \in DOMAIN a : a[i].op = "drop_view" => i = 1
      BY <2>3, <2>4
    <3> QED BY <2>3, <2>4, <3>1 DEF Restored
  <2> QED BY <2>3, <2>5, <2>6 DEF Statements, a
<1>5. ASSUME v \in DOMAIN o.views, v \notin DOMAIN n.views
      PROVE  LET a == GenerateChangeSQL(n, ViewDrop(v))
             IN  Statements(a, o, n) /\ \E s \in ToSet(a) : s.op = "drop_view" /\ s.name = v
  <2> DEFINE a == GenerateChangeSQL(n, ViewDrop(v))
  <2>1. a = <<drop>>
    BY DEF GenerateChangeSQL, ViewDrop
  <2> HIDE DEF a, drop
  <2>2. PICK s : s = drop
    OBVIOUS
  <2>3. a = <<s>> /\ TableStatement(s, o, n) /\ s.op = "drop_view" /\ s.name = v
    BY <1>2, <1>5, <2>1, <2>2
  <2> QED BY <1>5, <2>3, OneStatement, SmallSeqs DEF a
<1> QED BY <1>3, <1>4, <1>5

\* Statements one after the other.
LEMMA StatementsConcat ==
    ASSUME NEW o, NEW n, NEW a, NEW b, Statements(a, o, n), Statements(b, o, n)
    PROVE  Statements(a \o b, o, n)
<1>1. IsSeq(a) /\ IsSeq(b) /\ Restored(a, n) /\ Restored(b, n)
  BY DEF Statements
<1>2. IsSeq(a \o b) /\ ToSet(a \o b) = ToSet(a) \cup ToSet(b)
  BY <1>1, ConcatElements
<1>3. /\ Len(a) \in Nat /\ Len(b) \in Nat /\ DOMAIN a = 1..Len(a) /\ DOMAIN b = 1..Len(b)
      /\ DOMAIN (a \o b) = 1..(Len(a) + Len(b))
      /\ \A i \in 1..Len(a) : (a \o b)[i] = a[i]
      /\ \A i \in 1..Len(b) : (a \o b)[Len(a) + i] = b[i]
  <2>1. a \in Seq(ToSet(a)) /\ b \in Seq(ToSet(b))
    BY <1>1 DEF IsSeq
  <2>2. a \in Seq(ToSet(a) \cup ToSet(b)) /\ b \in Seq(ToSet(a) \cup ToSet(b))
    BY <1>1, SeqElements
  <2>3. DOMAIN a = 1..Len(a) /\ DOMAIN b = 1..Len(b) /\ Len(a) \in Nat /\ Len(b) \in Nat
    BY <1>1, SeqDomain
  <2> QED BY <2>2, <2>3
<1>4. PICK c, l, m : c = a \o b /\ l = Len(a) /\ m = Len(b)
  OBVIOUS
<1>5. /\ l \in Nat /\ m \in Nat /\ DOMAIN a = 1..l /\ DOMAIN b = 1..m /\ DOMAIN c = 1..(l + m)
      /\ \A i \in 1..l : c[i] = a[i]
      /\ \A i \in 1..m : c[l + i] = b[i]
  BY <1>3, <1>4
<1>6. ASSUME NEW i \in DOMAIN c, c[i].op = "drop_view", c[i].name \in DOMAIN n.views
      PROVE  \E j \in DOMAIN c : i < j /\ c[j].op = "create_view" /\ c[j].name = c[i].name
  <2>1. CASE i <= l
    <3>1. i \in DOMAIN a /\ c[i] = a[i]
      BY <1>5, <2>1
    <3>2. PICK j \in DOMAIN a : i < j /\ a[j].op = "create_view" /\ a[j].name = a[i].name
      BY <1>1, <1>6, <3>1 DEF Restored
    <3>3. j \in DOMAIN c /\ c[j] = a[j]
      BY <1>5
    <3> QED BY <3>1, <3>2, <3>3
  <2>2. CASE i > l
    <3>1. PICK h \in DOMAIN b : i = l + h
      <4>1. i - l \in 1..m /\ i = l + (i - l)
        BY <1>5, <2>2
      <4> QED BY <1>5, <4>1
    <3>2. c[i] = b[h]
      BY <1>5, <3>1
    <3>3. PICK j \in DOMAIN b : h < j /\ b[j].op = "create_view" /\ b[j].name = b[h].name
      BY <1>1, <1>6, <3>2 DEF Restored
    <3>4. l + j \in DOMAIN c /\ c[l + j] = b[j] /\ i < l + j
      BY <1>5, <3>1, <3>3
    <3> QED BY <3>2, <3>3, <3>4
  <2>3. i <= l \/ i > l
    BY <1>5
  <2> QED BY <2>1, <2>2, <2>3
<1>7. Restored(a \o b, n)
  BY <1>4, <1>6 DEF Restored
<1> QED BY <1>2, <1>7 DEF Statements

\* Statements for every element of a list.
LEMMA StatementsFlat ==
    ASSUME NEW o, NEW n, NEW s, IsSeq(s), NEW ss, ss = [i \in DOMAIN s |-> ss[i]],
           \A i \in DOMAIN s : Statements(ss[i], o, n)
    PROVE  Statements(FlattenSeq(ss), o, n)
<1>0. IsSeq(ss) /\ DOMAIN ss = DOMAIN s
  BY MappedSeq
<1>1. Len(ss) \in Nat /\ DOMAIN ss = 1..Len(ss)
  BY <1>0, SeqDomain
<1>2. CASE ss = <<>>
  <2>1. FlattenSeq(ss) = <<>>
    BY <1>2 DEF FlattenSeq
  <2> QED BY <2>1, SmallSeqs DEF Statements, Restored
<1>3. CASE ss # <<>>
  <2>1. PICK f : /\ f[1] = ss[1] /\ FlattenSeq(ss) = f[Len(ss)]
                 /\ \A i \in 1..Len(ss) : i # 1 => f[i] = f[i - 1] \o ss[i]
    BY <1>0, <1>3, FlattenSteps
  <2>2. Len(ss) # 0
    BY <1>0, <1>3 DEF IsSeq
  <2> DEFINE S == {k \in Nat : k + 1 <= Len(ss) => Statements(f[k + 1], o, n)}
  <2>3. 0 \in S
    <3>1. 1 \in DOMAIN ss
      BY <1>1, <2>2
    <3> QED BY <1>0, <2>1, <3>1
  <2>4. ASSUME NEW k \in Nat, k \in S PROVE k + 1 \in S
    <3> DEFINE m == k + 1
    <3>1. SUFFICES ASSUME m + 1 <= Len(ss) PROVE Statements(f[m + 1], o, n)
      OBVIOUS
    <3>2. Statements(f[m], o, n)
      BY <1>1, <2>4, <3>1
    <3>3. m \in Nat /\ m + 1 \in DOMAIN ss /\ m + 1 # 1 /\ (m + 1) - 1 = m
      BY <1>1, <3>1
    <3> HIDE DEF m
    <3>4. f[m + 1] = f[m] \o ss[m + 1] /\ Statements(ss[m + 1], o, n)
      BY <1>0, <1>1, <2>1, <3>3
    <3> QED BY <3>2, <3>4, StatementsConcat
  <2>5. \A k \in Nat : k \in S
    <3> HIDE DEF S
    <3> QED BY <2>3, <2>4, NatSetInduction
  <2>6. Len(ss) - 1 \in Nat /\ (Len(ss) - 1) + 1 = Len(ss)
    BY <1>1, <2>2
  <2>7. Statements(f[Len(ss)], o, n)
    <3>1. Len(ss) - 1 \in S
      <4> HIDE DEF S
      <4> QED BY <2>5, <2>6
    <3> QED BY <1>1, <2>6, <3>1
  <2> QED BY <2>1, <2>7
<1> QED BY <1>2, <1>3

\* The statements S do all that becomes of the columns of table u.
TableDone(S, u, ot, nt) ==
    /\ \A c \in GoneCols(ot, nt) : \E s \in S : s.op = "drop_column" /\ s.table = u /\ s.col.name = c
    /\ \A k \in NewCols(ot, nt) : [op |-> "add_column", table |-> u, col |-> ColOf(nt, k)] \in S
    /\ \A k \in ColTargets(ot, nt) : RenameColumn(u, OldColName(ot, nt, k), k) \in S
    /\ \A k \in OldCols(ot, nt) : Altering(ColOf(ot, OldColName(ot, nt, k)), u, ColOf(nt, k), S)

\* The statements S do all that becomes of tables and views.
SchemaDone(S, o, n) ==
    /\ \A u \in RenameTargets(o, n) : RenameTable(RenamedTo(o, n, u), u) \in S
    /\ \A u \in NewTables(o, n) : \E s \in S : s.op = "create_table" /\ s.table = u
    /\ \A t \in Dropped(o, n) : [op |-> "drop_table", table |-> t] \in S
    /\ \A u \in OldTables(o, n) : TableDone(S, u, o.tables[OldName(o, n, u)], n.tables[u])
    /\ \A v \in NewViews(o, n) \cup ChangedViews(o, n) : \E s \in S : s.op = "create_view" /\ s.name = v
    /\ \A v \in DOMAIN o.views \ DOMAIN n.views : \E s \in S : s.op = "drop_view" /\ s.name = v

\* What is said of the columns is done.
LEMMA TableSaidAndDone ==
    ASSUME NEW n, NEW u, NEW ot, NEW nt, IsSeq(nt.cols), Unique(nt), NEW d, TableTold(d, u, ot, nt),
           NEW S, \A x \in d : ToSet(GenerateChangeSQL(n, x)) \subseteq S
    PROVE  TableDone(S, u, ot, nt)
<1>1. ASSUME NEW x, x.object = u,
             x.kind \in {"add_column", "drop_column", "alter_column_type", "alter_column_nullable",
                         "alter_column_default"}
      PROVE  x \in d => [op |-> x.kind, table |-> u, col |-> x.col] \in S
  <2> DEFINE s == [op |-> x.kind, table |-> u, col |-> x.col]
  <2>1. GenerateChangeSQL(n, x) = <<s>>
    BY <1>1 DEF GenerateChangeSQL
  <2> HIDE DEF s
  <2> QED BY <2>1, SmallSeqs DEF s
<1>2. ASSUME NEW kind \in {"add_column", "alter_column_type", "alter_column_nullable", "alter_column_default"},
             NEW c, ColumnChange(kind, u, c) \in d
      PROVE  [op |-> kind, table |-> u, col |-> c] \in S
  <2>1. PICK x : x = ColumnChange(kind, u, c)
    OBVIOUS
  <2>2. x.object = u /\ x.kind = kind /\ x.col = c /\ x \in d
    BY <1>2, <2>1 DEF ColumnChange
  <2> QED BY <1>1, <2>2
<1>3. ASSUME NEW c \in GoneCols(ot, nt)
      PROVE  \E s \in S : s.op = "drop_column" /\ s.table = u /\ s.col.name = c
  <2>1. PICK x \in d : x.kind = "drop_column" /\ x.object = u /\ x.col.name = c
    BY DEF TableTold
  <2>2. [op |-> x.kind, table |-> u, col |-> x.col] \in S
    BY <1>1, <2>1
  <2> QED BY <2>1, <2>2
<1>4. \A k \in NewCols(ot, nt) : [op |-> "add_column", table |-> u, col |-> ColOf(nt, k)] \in S
  BY <1>2 DEF TableTold
<1>5. ASSUME NEW k \in ColTargets(ot, nt) PROVE RenameColumn(u, OldColName(ot, nt, k), k) \in S
  <2>1. ColOf(nt, k).name = k
    <3>1. k \in ColNames(nt)
      BY ColumnNames
    <3> QED BY <3>1, ColOfFacts DEF Unique
  <2>2. PICK x : x = ColumnRename(u, OldColName(ot, nt, k), ColOf(nt, k))
    OBVIOUS
  <2> DEFINE s == RenameColumn(u, OldColName(ot, nt, k), k)
  <2>3. GenerateChangeSQL(n, x) = <<s>>
    BY <2>1, <2>2 DEF GenerateChangeSQL, ColumnRename, RenameColumn
  <2>4. x \in d
    BY <2>2 DEF TableTold
  <2> HIDE DEF s
  <2> QED BY <2>3, <2>4, SmallSeqs DEF s
<1>6. ASSUME NEW k \in OldCols(ot, nt) PROVE Altering(ColOf(ot, OldColName(ot, nt, k)), u, ColOf(nt, k), S)
  <2>1. Told(ColOf(ot, OldColName(ot, nt, k)), u, ColOf(nt, k), d)
    BY DEF TableTold
  <2> QED BY <1>2, <2>1 DEF Told, Altering
<1> QED BY <1>3, <1>4, <1>5, <1>6 DEF TableDone

\* Enums are another matter.
LEMMA EnumStatements ==
    ASSUME NEW o, NEW n, Readable(n), \A e \in DOMAIN n.enums : IsSeq(n.enums[e]),
           NEW x, ChangeShape(x, o, n), x.kind \in {"create_enum", "alter_enum", "drop_enum"}
    PROVE  Statements(GenerateChangeSQL(n, x), o, n)
<1> DEFINE a == GenerateChangeSQL(n, x)
<1>1. IsSeq(a)
  BY GenerateShape
<1>2. \A s \in ToSet(a) : s.op \in {"create_type", "add_value", "drop_type"}
  <2>1. CASE x.kind = "create_enum"
    <3> DEFINE s == [op |-> "create_type", name |-> x.object, labels |-> x.new]
    <3>1. a = <<s>> /\ s.op = "create_type"
      BY <2>1 DEF GenerateChangeSQL
    <3> HIDE DEF s, a
    <3> QED BY <3>1, SmallSeqs
  <2>2. CASE x.kind = "drop_enum"
    <3> DEFINE s == [op |-> "drop_type", name |-> x.object]
    <3>1. a = <<s>> /\ s.op = "drop_type"
      BY <2>2 DEF GenerateChangeSQL
    <3> HIDE DEF s, a
    <3> QED BY <3>1, SmallSeqs
  <2>3. CASE x.kind = "alter_enum"
    <3>1. a = AlterEnum(x.object, x.old, x.new)
      BY <2>3 DEF GenerateChangeSQL
    <3>2. \A i \in DOMAIN a : a[i].op = "add_value"
      BY <3>1 DEF AlterEnum
    <3> HIDE DEF a
    <3> QED BY <1>1, <3>2, SeqDomain
  <2> QED BY <2>1, <2>2, <2>3
<1> HIDE DEF a
<1>3. \A s \in ToSet(a) : TableStatement(s, o, n)
  BY <1>2 DEF TableStatement
<1>4. Restored(a, n)
  <2>1. \A i \in DOMAIN a : a[i] \in ToSet(a)
    BY <1>1, SeqDomain
  <2> QED BY <1>2, <2>1 DEF Restored
<1> QED BY <1>1, <1>3, <1>4 DEF Statements, a

\* The statements that lead from schema o to schema n do all of it, and nothing else.
LEMMA SchemaSaidAndDone ==
    ASSUME NEW o, NEW n, Spelled(o), Spelled(n), Named(n), \A e \in DOMAIN n.enums : IsSeq(n.enums[e])
    PROVE  LET a == AllChangeSQL(n, Diff(o, n))
           IN  Statements(a, o, n) /\ SchemaDone(ToSet(a), o, n)
<1> DEFINE d == Diff(o, n)
           g == [i \in DOMAIN d |-> GenerateChangeSQL(n, d[i])]
           a == AllChangeSQL(n, d)
<1>1. IsSeq(d) /\ (\A x \in ToSet(d) : SchemaChange(x, o, n)) /\ SchemaTold(ToSet(d), o, n)
  BY DiffTells
<1>2. \A x \in ToSet(d) : ChangeShape(x, o, n)
  BY DiffFacts DEF Spelled, Known
<1>3. a = FlattenSeq(g) /\ g = [i \in DOMAIN d |-> g[i]]
  BY DEF AllChangeSQL, FlatMap
<1>4. \A i \in DOMAIN d : g[i] = GenerateChangeSQL(n, d[i])
  OBVIOUS
<1> HIDE DEF d, g, a
<1>5. Known(n) /\ Readable(n)
  BY DEF Named, Spelled
<1>6. ASSUME NEW x \in ToSet(d) PROVE Statements(GenerateChangeSQL(n, x), o, n)
  <2>1. CASE x.kind \in {"create_enum", "alter_enum", "drop_enum"}
    BY <1>2, <1>5, <2>1, EnumStatements
  <2>2. CASE \E u \in OldTables(o, n) : TableChange(x, u, o.tables[OldName(o, n, u)], n.tables[u])
    BY <1>5, <2>2, AlterStatements
  <2>3. CASE \/ \E u \in RenameTargets(o, n) : x = TableRename(RenamedTo(o, n, u), u)
             \/ \E u \in NewTables(o, n) : x = TableCreate(u)
             \/ \E t \in Dropped(o, n) : x = TableDrop(t)
    BY <1>5, <2>3, WholeTableStatements
  <2>4. CASE \/ \E v \in DOMAIN n.views : x = ViewPut("create_view", v, n)
             \/ \E v \in DOMAIN n.views \cap DOMAIN o.views : x = ViewPut("replace_view", v, n)
             \/ \E v \in DOMAIN o.views \ DOMAIN n.views : x = ViewDrop(v)
    <3>1. CASE \E v \in DOMAIN n.views : x = ViewPut("create_view", v, n)
      BY <3>1, ViewStatements
    <3>2. CASE \E v \in DOMAIN n.views \cap DOMAIN o.views : x = ViewPut("replace_view", v, n)
      <4>1. PICK v : v \in DOMAIN n.views /\ v \in DOMAIN o.views /\ x = ViewPut("replace_view", v, n)
        BY <3>2
      <4> QED BY <4>1, ViewStatements
    <3>3. CASE \E v \in DOMAIN o.views \ DOMAIN n.views : x = ViewDrop(v)
      <4>1. PICK v : v \in DOMAIN o.views /\ v \notin DOMAIN n.views /\ x = ViewDrop(v)
        BY <3>3
      <4> QED BY <4>1, ViewStatements
    <3> QED BY <2>4, <3>1, <3>2, <3>3
  <2> QED BY <1>1, <2>1, <2>2, <2>3, <2>4 DEF SchemaChange
<1>7. \A i \in DOMAIN d : Statements(g[i], o, n)
  BY <1>1, <1>4, <1>6, SeqDomain
<1>8. Statements(a, o, n)
  BY <1>1, <1>3, <1>7, StatementsFlat
<1>9. ToSet(a) = UNION {ToSet(g[i]) : i \in DOMAIN d}
  <2>1. \A i \in DOMAIN d : IsSeq(g[i])
    BY <1>7 DEF Statements
  <2> QED BY <1>1, <1>3, <2>1, FlatElements
<1>10. \A x \in ToSet(d) : ToSet(GenerateChangeSQL(n, x)) \subseteq ToSet(a)
  BY <1>1, <1>4, <1>9, SeqDomain
<1>11. ASSUME NEW u \in OldTables(o, n) PROVE TableDone(ToSet(a), u, o.tables[OldName(o, n, u)], n.tables[u])
  <2>1. PICK ot, nt : ot = o.tables[OldName(o, n, u)] /\ nt = n.tables[u]
    OBVIOUS
  <2>2. TableTold(ToSet(d), u, ot, nt)
    BY <1>1, <2>1 DEF SchemaTold
  <2>3. IsSeq(nt.cols) /\ Unique(nt)
    BY <1>5, <2>1, TableNames DEF Named
  <2>4. TableDone(ToSet(a), u, ot, nt)
    BY <1>10, <2>2, <2>3, TableSaidAndDone
  <2> QED BY <2>1, <2>4
<1>12. /\ \A u \in RenameTargets(o, n) : RenameTable(RenamedTo(o, n, u), u) \in ToSet(a)
       /\ \A u \in NewTables(o, n) : \E s \in ToSet(a) : s.op = "create_table" /\ s.table = u
       /\ \A t \in Dropped(o, n) : [op |-> "drop_table", table |-> t] \in ToSet(a)
  BY <1>1, <1>5, <1>10, WholeTableStatements DEF SchemaTold
<1>13. \A v \in NewViews(o, n) \cup ChangedViews(o, n) : \E s \in ToSet(a) : s.op = "create_view" /\ s.name = v
  <2>1. NewViews(o, n) \subseteq DOMAIN n.views /\ ChangedViews(o, n) \subseteq DOMAIN n.views \cap DOMAIN o.views
    BY DEF NewViews, ChangedViews
  <2>2. ASSUME NEW v \in NewViews(o, n) PROVE \E s \in ToSet(a) : s.op = "create_view" /\ s.name = v
    <3>1. ViewPut("create_view", v, n) \in ToSet(d)
      BY <1>1 DEF SchemaTold
    <3>2. v \in DOMAIN n.views
      BY <2>1
    <3>3. PICK b : b = GenerateChangeSQL(n, ViewPut("create_view", v, n))
      OBVIOUS
    <3>4. Statements(b, o, n) /\ \E s \in ToSet(b) : s.op = "create_view" /\ s.name = v
      BY <3>2, <3>3, ViewStatements
    <3> QED BY <1>10, <3>1, <3>3, <3>4
  <2>3. ASSUME NEW v \in ChangedViews(o, n) PROVE \E s \in ToSet(a) : s.op = "create_view" /\ s.name = v
    <3>1. ViewPut("replace_view", v, n) \in ToSet(d)
      BY <1>1 DEF SchemaTold
    <3>2. v \in DOMAIN n.views /\ v \in DOMAIN o.views
      BY <2>1
    <3>3. PICK b : b = GenerateChangeSQL(n, ViewPut("replace_view", v, n))
      OBVIOUS
    <3>4. Statements(b, o, n) /\ \E s \in ToSet(b) : s.op = "create_view" /\ s.name = v
      BY <3>2, <3>3, ViewStatements
    <3> QED BY <1>10, <3>1, <3>3, <3>4
  <2> QED BY <2>2, <2>3
<1>14. ASSUME NEW v \in DOMAIN o.views \ DOMAIN n.views
       PROVE  \E s \in ToSet(a) : s.op = "drop_view" /\ s.name = v
  <2>1. ViewDrop(v) \in ToSet(d)
    BY <1>1 DEF SchemaTold
  <2>2. PICK b : b = GenerateChangeSQL(n, ViewDrop(v))
    OBVIOUS
  <2>3. Statements(b, o, n) /\ \E s \in ToSet(b) : s.op = "drop_view" /\ s.name = v
    BY <1>14, <2>2, ViewStatements
  <2> QED BY <1>10, <2>1, <2>2, <2>3
<1> QED BY <1>8, <1>11, <1>12, <1>13, <1>14 DEF SchemaDone, a, d

--------------------------------------------------------------------------------
(* A migration starts                                                         *)

\* The columns of a table before the first statement.
LEMMA ColumnsStart ==
    ASSUME NEW F, NEW S, NEW u, NEW ot, NEW nt, IsSeq(nt.cols), Unique(nt), TableDone(S, u, ot, nt),
           DOMAIN F = ColNames(ot), \A c \in DOMAIN F : SameColumn(F[c], ColOf(ot, c))
    PROVE  ColumnsUnderWay(F, S, u, ot, nt, F)
<1>1. /\ \A k \in OldCols(ot, nt) :
           /\ OldColName(ot, nt, k) \in ColNames(ot)
           /\ OldColName(ot, nt, k) # k => k \notin ColNames(ot)
      /\ NewCols(ot, nt) \cap ColNames(ot) = {}
  BY ColumnNames
<1>2. ASSUME NEW k \in OldCols(ot, nt)
      PROVE  ColumnGoesOn(F, S, u, OldColName(ot, nt, k), k, ColOf(nt, k), F[OldColName(ot, nt, k)].data)
  <2>1. PICK c, nc : c = OldColName(ot, nt, k) /\ nc = ColOf(nt, k)
    OBVIOUS
  <2>2. c \in DOMAIN F /\ SameColumn(F[c], ColOf(ot, c)) /\ Altering(ColOf(ot, c), u, nc, S)
    BY <1>1, <2>1 DEF TableDone
  <2>3. Altering(F[c], u, nc, S)
    BY <2>2 DEF Altering, SameColumn
  <2>4. CASE c = k
    BY <2>1, <2>2, <2>3, <2>4 DEF ColumnGoesOn
  <2>5. CASE c # k
    <3>1. k \notin ColNames(ot)
      BY <1>1, <2>1, <2>5
    <3>2. k \in ColTargets(ot, nt)
      BY <3>1 DEF OldCols
    <3>3. RenameColumn(u, c, k) \in S
      BY <2>1, <3>2 DEF TableDone
    <3> QED BY <2>1, <2>2, <2>3, <2>5, <3>1, <3>3 DEF ColumnGoesOn
  <2> QED BY <2>4, <2>5
<1>3. \A c \in GoneCols(ot, nt) : \E s \in S : s.op = "drop_column" /\ s.table = u /\ s.col.name = c
  BY DEF TableDone
<1>4. \A k \in NewCols(ot, nt) : k \notin DOMAIN F /\ [op |-> "add_column", table |-> u, col |-> ColOf(nt, k)] \in S
  BY <1>1 DEF TableDone
<1> QED BY <1>2, <1>3, <1>4 DEF ColumnsUnderWay

\* The tables.
LEMMA TablesStart ==
    ASSUME NEW T, NEW S, NEW o, NEW n, Named(n), SchemaDone(S, o, n), Reached(T, o)
    PROVE  TablesUnderWay(T, S, o, n, T)
<1>1. /\ \A u \in OldTables(o, n) :
           /\ u \in DOMAIN n.tables /\ OldName(o, n, u) \in DOMAIN o.tables
           /\ OldName(o, n, u) # u => u \notin DOMAIN o.tables
      /\ NewTables(o, n) \cap DOMAIN o.tables = {}
  BY TableNames DEF Named
<1>2. /\ DOMAIN T = DOMAIN o.tables
      /\ \A t \in DOMAIN T : /\ DOMAIN T[t] = ColNames(o.tables[t])
                             /\ \A k \in DOMAIN T[t] : SameColumn(T[t][k], ColOf(o.tables[t], k))
  BY DEF Reached
<1>3. ASSUME NEW u \in OldTables(o, n)
      PROVE  TableGoesOn(T, S, u, OldName(o, n, u), o.tables[OldName(o, n, u)], n.tables[u], T[OldName(o, n, u)])
  <2>1. PICK t, ot, nt : t = OldName(o, n, u) /\ ot = o.tables[t] /\ nt = n.tables[u]
    OBVIOUS
  <2>2. t \in DOMAIN T /\ DOMAIN T[t] = ColNames(ot) /\ \A k \in DOMAIN T[t] : SameColumn(T[t][k], ColOf(ot, k))
    BY <1>1, <1>2, <2>1
  <2>3. IsSeq(nt.cols) /\ Unique(nt) /\ TableDone(S, u, ot, nt)
    BY <1>1, <2>1 DEF Named, SchemaDone
  <2>4. ColumnsUnderWay(T[t], S, u, ot, nt, T[t])
    BY <2>2, <2>3, ColumnsStart
  <2>5. CASE t = u
    BY <2>1, <2>2, <2>4, <2>5 DEF TableGoesOn
  <2>6. CASE t # u
    <3>1. u \notin DOMAIN T
      BY <1>1, <1>2, <2>1, <2>6
    <3>2. u \in RenameTargets(o, n)
      BY <2>1, <2>6 DEF OldName
    <3>3. RenameTable(t, u) \in S
      BY <2>1, <3>2 DEF SchemaDone, OldName
    <3> QED BY <2>1, <2>2, <2>4, <2>6, <3>1, <3>3 DEF TableGoesOn
  <2> QED BY <2>5, <2>6
<1>4. \A t \in Dropped(o, n) : [op |-> "drop_table", table |-> t] \in S
  BY DEF SchemaDone
<1>5. \A u \in NewTables(o, n) : u \notin DOMAIN T /\ \E s \in S : s.op = "create_table" /\ s.table = u
  BY <1>1, <1>2 DEF SchemaDone
<1> QED BY <1>2, <1>3, <1>4, <1>5 DEF TablesUnderWay

\* What a schema says of its views.
ViewsShape(n) == \A v \in DOMAIN n.views : DOMAIN n.views[v] = {"on", "uses", "semi"}

\* The views.
LEMMA ViewsStart ==
    ASSUME NEW V, NEW S, NEW o, NEW n, ViewsShape(o), ViewsShape(n), SchemaDone(S, o, n), V = ViewsOf(o)
    PROVE  ViewsUnderWay(V, S, o, n)
<1>1. DOMAIN V = DOMAIN o.views /\ \A v \in DOMAIN V : V[v] = [on |-> o.views[v].on, uses |-> o.views[v].uses]
  BY DEF ViewsOf
<1>2. ASSUME NEW v \in DOMAIN n.views
      PROVE  \/ v \in DOMAIN V /\ V[v] = ViewsOf(n)[v]
             \/ \E s \in S : s.op = "create_view" /\ s.name = v
  <2>1. CASE v \in NewViews(o, n) \cup ChangedViews(o, n)
    BY <2>1 DEF SchemaDone
  <2>2. CASE v \notin NewViews(o, n) \cup ChangedViews(o, n)
    <3>1. v \in DOMAIN o.views /\ [n.views[v] EXCEPT !.semi = FALSE] = [o.views[v] EXCEPT !.semi = FALSE]
      BY <2>2 DEF NewViews, ChangedViews
    <3>2. PICK a, b : a = n.views[v] /\ b = o.views[v]
      OBVIOUS
    <3>3. /\ [a EXCEPT !.semi = FALSE] = [b EXCEPT !.semi = FALSE] 
          /\ DOMAIN a = {"on", "uses", "semi"} /\ DOMAIN b = {"on", "uses", "semi"}
      BY <3>1, <3>2 DEF ViewsShape
    <3>4. [a EXCEPT !.semi = FALSE].on = a.on /\ [a EXCEPT !.semi = FALSE].uses = a.uses
      BY <3>3
    <3>5. [b EXCEPT !.semi = FALSE].on = b.on /\ [b EXCEPT !.semi = FALSE].uses = b.uses
      BY <3>3
    <3>6. a.on = b.on /\ a.uses = b.uses
      BY <3>3, <3>4, <3>5
    <3> QED BY <1>1, <3>1, <3>2, <3>6 DEF ViewsOf
  <2> QED BY <2>1, <2>2
<1>3. \A v \in DOMAIN o.views \ DOMAIN n.views : \E s \in S : s.op = "drop_view" /\ s.name = v
  BY DEF SchemaDone
<1> QED BY <1>1, <1>2, <1>3 DEF ViewsUnderWay

\* A snapshot file has the names of its schema.
LEMMA SavedSpelled ==
    ASSUME NEW o, SavedSchema(o)
    PROVE  Spelled(o) /\ ViewsShape(o)
<1>1. Readable(o) /\ DOMAIN o.enums \subseteq ToSet(Alphabet)
  BY SavedFacts
<1>2. CASE o = EmptySnapshot
  <2>1. DOMAIN o.tables = {} /\ DOMAIN o.views = {}
    BY <1>2 DEF EmptySnapshot
  <2> QED BY <1>1, <2>1 DEF Spelled, ViewsShape
<1>3. ASSUME NEW n \in Schemas, o = Saved(n) PROVE Spelled(o) /\ ViewsShape(o)
  <2>1. /\ DOMAIN n = {"tables", "views", "enums"}
        /\ DOMAIN n.tables \cup DOMAIN n.views \cup DOMAIN n.enums \subseteq ToSet(Alphabet)
        /\ \A v \in DOMAIN n.views : DOMAIN n.views[v] = {"on", "uses", "semi"}
    BY SchemasAssumption DEF SnapshotShape
  <2>2. DOMAIN o.tables = DOMAIN n.tables /\ o.views = n.views
    BY <1>3, <2>1 DEF Saved
  <2> QED BY <1>1, <2>1, <2>2 DEF Spelled, ViewsShape
<1> QED BY <1>2, <1>3 DEF SavedSchema

\* What an open migration starts from says what the database has.
LEMMA BaseFacts ==
    ASSUME Inv, TInv
    PROVE  /\ Spelled(Base) /\ ViewsShape(Base) /\ (flow # "live" => Base = saved)
           /\ Reached(Tables(before), Base) /\ before.views = ViewsOf(Base)
           /\ flow = "live" => DOMAIN Base.views = {} /\ DOMAIN before.tables = DOMAIN Base.tables
<1>1. /\ SavedSchema(saved) /\ CatalogShape(before)
      /\ Reached(Tables(before), saved) /\ before.views = ViewsOf(saved) /\ LiveHasNoViews
  BY DEF Inv, Stages, TInv, Settled
<1>2. Spelled(saved) /\ ViewsShape(saved)
  BY <1>1, SavedSpelled
<1>3. CASE flow # "live"
  <2>1. Base = saved
    BY <1>3 DEF Base
  <2> QED BY <1>1, <1>2, <1>3, <2>1
<1>4. CASE flow = "live"
  <2>1. PICK o : o = LiveSnapshot(before)
    OBVIOUS
  <2>2. Reached(Tables(before), o) /\ o.views = <<>> /\ Readable(o) /\ DOMAIN o.enums = {}
    BY <1>1, <2>1, LiveTables, LiveFacts
  <2>3. DOMAIN o.tables = DOMAIN saved.tables /\ DOMAIN Tables(before) = DOMAIN before.tables
        /\ DOMAIN o.tables = DOMAIN Tables(before)
    BY <1>1, <2>2 DEF Reached, Tables
  <2>4. Spelled(o)
    BY <1>2, <2>2, <2>3 DEF Spelled
  <2>5. DOMAIN o.views = {} /\ DOMAIN saved.views = {}
    BY <1>1, <1>4, <2>2 DEF LiveHasNoViews
  <2>6. ViewsOf(o) = ViewsOf(saved)
    BY <2>5 DEF ViewsOf
  <2>7. Base = o
    BY <1>4, <2>1 DEF Base
  <2> QED BY <1>1, <1>4, <2>2, <2>3, <2>4, <2>5, <2>6, <2>7 DEF ViewsShape
<1> QED BY <1>3, <1>4

\* A migration starts with statements that do all of it.
LEMMA StartKeepsTInv ==
    ASSUME TablesFollow, Inv, TInv, status = "idle", NEW target \in Offered, Start(target)
    PROVE  TInv'
<1>1. /\ done < MaxMigrations /\ Evolves(flow, done, saved, target)
      /\ new' = target /\ todo' = AllChangeSQL(target, Diff(Baseline, target)) /\ status' = "running"
      /\ flow' = flow /\ saved' = saved /\ catalog' = catalog /\ before' = before
  BY DEF Start
<1>2. target \in Schemas /\ (flow = "live" => DOMAIN target.views = {})
  BY DEF Offered
<1>3. /\ SavedSchema(saved) /\ catalog = before /\ done \in 0..MaxMigrations /\ flow \in {"snapshot", "live"}
  BY DEF Inv, Stages
<1>4. Baseline = Base /\ Base' = Base
  BY <1>1, <1>3 DEF Baseline, Base
<1>5. PICK o : o = Base
  OBVIOUS
<1>6. /\ Spelled(o) /\ ViewsShape(o) /\ (flow # "live" => o = saved)
      /\ Reached(Tables(before), o) /\ before.views = ViewsOf(o)
      /\ flow = "live" => DOMAIN o.views = {}
  BY <1>5, BaseFacts
<1>7. Named(target) /\ Spelled(target) /\ ViewsShape(target) /\ \A e \in DOMAIN target.enums : IsSeq(target.enums[e])
  <2>1. /\ DOMAIN target.tables \cup DOMAIN target.views \cup DOMAIN target.enums \subseteq ToSet(Alphabet)
        /\ \A v \in DOMAIN target.views : DOMAIN target.views[v] = {"on", "uses", "semi"}
    BY <1>2, SchemasAssumption DEF SnapshotShape
  <2>2. Readable(target) /\ \A e \in DOMAIN target.enums : IsSeq(target.enums[e])
    BY <1>2, SchemaFacts DEF Labels
  <2> QED BY <1>2, <2>1, <2>2, SchemaNamed DEF Spelled, ViewsShape
<1>8. PICK a : a = AllChangeSQL(target, Diff(o, target))
  OBVIOUS
<1>9. Statements(a, o, target) /\ SchemaDone(ToSet(a), o, target)
  BY <1>6, <1>7, <1>8, SchemaSaidAndDone
<1>10. TablesUnderWay(Tables(before), ToSet(a), o, target, Tables(before))
  BY <1>6, <1>7, <1>9, TablesStart
<1>11. ViewsUnderWay(before.views, ToSet(a), o, target)
  BY <1>6, <1>7, <1>9, ViewsStart
<1>12. DOMAIN target.tables \cap DOMAIN o.views = {}
  <2>1. CASE flow = "live"
    BY <1>6, <2>1
  <2>2. CASE flow # "live"
    <3>1. saved \in {EmptySnapshot} \cup {Saved(s) : s \in Schemas}
      BY <1>3 DEF SavedSchema
    <3> QED BY <1>1, <1>2, <1>3, <1>6, <2>2, <3>1 DEF TablesFollow, ViewNamesApart
  <2> QED BY <2>1, <2>2
<1>13. todo' = a /\ Tables(catalog)' = Tables(before) /\ Tables(before)' = Tables(before)
       /\ catalog'.views = before.views
  BY <1>1, <1>3, <1>4, <1>5, <1>8
<1>14. UnderWay'
  BY <1>1, <1>4, <1>5, <1>9, <1>10, <1>11, <1>12, <1>13 DEF UnderWay, Statements
<1>15. Settled' /\ LiveHasNoViews' /\ IndexesApart(catalog)' /\ IndexesApart(before)' /\ IsFunction(catalog.views)'
  BY <1>1, <1>2, <1>3 DEF TInv, Settled, LiveHasNoViews
<1> QED BY <1>14, <1>15 DEF TInv

--------------------------------------------------------------------------------
(* The invariant, and what follows                                            *)

\* The invariant holds initially and always.
THEOREM TablesInvariance == ASSUME TablesFollow PROVE Spec => []TInv
<1>1. Init => TInv
  <2> SUFFICES ASSUME Init PROVE TInv
    OBVIOUS
  <2>1. /\ saved = EmptySnapshot /\ new = EmptySnapshot /\ catalog = EmptyCatalog /\ before = EmptyCatalog
        /\ status = "idle"
    BY DEF Init
  <2>2. /\ DOMAIN EmptyCatalog.tables = {} /\ EmptyCatalog.views = <<>> /\ DOMAIN EmptyCatalog.views = {}
        /\ DOMAIN EmptySnapshot.tables = {} /\ DOMAIN EmptySnapshot.views = {}
    BY DEF EmptySnapshot, EmptyCatalog
  <2>3. Reached(Tables(EmptyCatalog), EmptySnapshot)
    BY <2>2 DEF Reached, Tables
  <2>4. EmptyCatalog.views = ViewsOf(EmptySnapshot) /\ IsFunction(EmptyCatalog.views)
    BY <2>2 DEF ViewsOf, IsFunction
  <2>5. IndexesApart(EmptyCatalog)
    BY <2>2 DEF IndexesApart
  <2> QED BY <2>1, <2>2, <2>3, <2>4, <2>5 DEF TInv, Settled, LiveHasNoViews
<1>2. Inv /\ TInv /\ [Next]_vars => TInv'
  <2> SUFFICES ASSUME Inv, TInv, [Next]_vars PROVE TInv'
    OBVIOUS
  <2>1. ASSUME status = "idle", NEW target \in Offered, Start(target) PROVE TInv'
    BY <2>1, StartKeepsTInv
  <2>2. CASE Execute
    BY <2>2, ExecuteKeepsTInv
  <2>3. CASE Rollback
    BY <2>3, RollbackKeepsTInv
  <2>4. CASE Commit
    BY <2>4, CommitKeepsTInv
  <2>5. CASE UNCHANGED vars
    <3>1. /\ flow' = flow /\ saved' = saved /\ new' = new /\ catalog' = catalog /\ before' = before
          /\ todo' = todo /\ status' = status
      BY <2>5 DEF vars
    <3>2. Base' = Base
      BY <3>1 DEF Base
    <3>3. UnderWay' <=> UnderWay
      BY <3>1, <3>2 DEF UnderWay
    <3>4. Settled' /\ LiveHasNoViews'
      BY <3>1 DEF TInv, Settled, LiveHasNoViews
    <3> QED BY <3>1, <3>3, <3>4 DEF TInv
  <2> QED BY <2>1, <2>2, <2>3, <2>4, <2>5 DEF Next
<1> QED BY <1>1, <1>2, Invariance, PTL DEF Spec

\* When the statements have run, a new table that an old one became holds what it held.
LEMMA EndOfMigration ==
    ASSUME TablesFollow, Inv, TInv, status = "running", todo = <<>>
    PROVE  /\ new \in Schemas /\ Named(new) /\ CatalogShape(catalog) /\ CatalogShape(before)
           /\ Reached(Tables(catalog), new) /\ catalog.views = ViewsOf(new)
           /\ DataFollows(Tables(catalog), Base, new, Tables(before))
<1>1. new \in Schemas /\ CatalogShape(catalog) /\ CatalogShape(before)
  BY DEF Inv, Stages
<1>2. Named(new)
  BY <1>1, SchemaNamed
<1>3. /\ TablesUnderWay(Tables(catalog), {}, Base, new, Tables(before))
      /\ ViewsUnderWay(catalog.views, {}, Base, new) /\ IsFunction(catalog.views)
  BY SmallSeqs DEF TInv, UnderWay
<1>4. Reached(Tables(catalog), new) /\ DataFollows(Tables(catalog), Base, new, Tables(before))
  BY <1>2, <1>3, TablesEnd
<1>5. catalog.views = ViewsOf(new)
  BY <1>3, ViewsEnd
<1> QED BY <1>1, <1>2, <1>4, <1>5

\* Whatever the schemas a database can hold and follow, in whatever order and number they
\* come, and whether from a snapshot or from the database: when the statements of a
\* migration have run the tables, their columns and the views are those of the code.
\* (kit.Diff, kit.AllChangeSQL)
THEOREM TablesBecomeThose == ASSUME TablesFollow PROVE Spec => []TablesConverge
<1>1. Inv /\ TInv => TablesConverge
  <2> SUFFICES ASSUME Inv, TInv, status = "running", todo = <<>>
               PROVE  /\ DOMAIN catalog.tables = DOMAIN new.tables
                      /\ \A t \in DOMAIN new.tables :
                           Found(t, catalog.tables[t], new.tables[t]).cols = Wanted(t, new.tables[t]).cols
                      /\ catalog.views = ViewsOf(new)
    BY DEF TablesConverge, ViewsOf
  <2>1. /\ Named(new) /\ CatalogShape(catalog)
        /\ Reached(Tables(catalog), new) /\ catalog.views = ViewsOf(new)
    BY EndOfMigration
  <2>2. DOMAIN catalog.tables = DOMAIN new.tables
    BY <2>1 DEF Reached, Tables
  <2>3. ASSUME NEW t \in DOMAIN new.tables
        PROVE  Found(t, catalog.tables[t], new.tables[t]).cols = Wanted(t, new.tables[t]).cols
    <3>1. PICK ct, nt : ct = catalog.tables[t] /\ nt = new.tables[t]
      OBVIOUS
    <3>2. CatalogTable(ct) /\ IsSeq(nt.cols) /\ Unique(nt)
      BY <2>1, <2>2, <3>1 DEF CatalogShape, Named
    <3>3. /\ DOMAIN Fields(ct) = ColNames(nt)
          /\ \A k \in ColNames(nt) : SameColumn(Fields(ct)[k], ColOf(nt, k))
      BY <2>1, <2>2, <3>1 DEF Reached, Tables
    <3>4. /\ DOMAIN Fields(ct) = ColNames(ct)
          /\ \A i \in DOMAIN ct.cols : ct.cols[i].name \in ColNames(ct) /\ Fields(ct)[ct.cols[i].name] = ct.cols[i]
          /\ \A k \in ColNames(ct) : \E i \in DOMAIN ct.cols : ct.cols[i].name = k /\ Fields(ct)[k] = ct.cols[i]
      BY <3>2, FieldsFacts
    <3>5. /\ \A i \in DOMAIN nt.cols : nt.cols[i].name \in ColNames(nt) /\ ColOf(nt, nt.cols[i].name) = nt.cols[i]
          /\ \A k \in ColNames(nt) : \E i \in DOMAIN nt.cols : nt.cols[i].name = k /\ ColOf(nt, k) = nt.cols[i]
      BY <3>2, ColOfFacts DEF Unique
    <3>6. /\ \A c \in ToSet(ct.cols) : \E i \in DOMAIN ct.cols : c = ct.cols[i]
          /\ \A i \in DOMAIN ct.cols : ct.cols[i] \in ToSet(ct.cols)
          /\ \A c \in ToSet(nt.cols) : \E i \in DOMAIN nt.cols : c = nt.cols[i]
          /\ \A i \in DOMAIN nt.cols : nt.cols[i] \in ToSet(nt.cols)
      BY DEF ToSet
    <3>7. ASSUME NEW c \in ToSet(ct.cols)
          PROVE  \E d \in ToSet(nt.cols) : d.name = c.name /\ SameColumn(c, d)
      <4>1. c.name \in ColNames(nt) /\ Fields(ct)[c.name] = c
        BY <3>3, <3>4, <3>6
      <4>2. PICK i \in DOMAIN nt.cols : nt.cols[i].name = c.name /\ ColOf(nt, c.name) = nt.cols[i]
        BY <3>5, <4>1
      <4> QED BY <3>3, <3>6, <4>1, <4>2
    <3>8. ASSUME NEW d \in ToSet(nt.cols)
          PROVE  \E c \in ToSet(ct.cols) : d.name = c.name /\ SameColumn(c, d)
      <4>1. d.name \in ColNames(nt) /\ ColOf(nt, d.name) = d
        BY <3>5, <3>6
      <4>2. PICK i \in DOMAIN ct.cols : ct.cols[i].name = d.name /\ Fields(ct)[d.name] = ct.cols[i]
        BY <3>3, <3>4, <4>1
      <4> QED BY <3>3, <3>6, <4>1, <4>2
    <3>9. {[name |-> c.name, type |-> c.type, notNull |-> c.notNull, default |-> c.default] : c \in ToSet(ct.cols)}
          = {[name |-> c.name, type |-> c.type, notNull |-> c.notNull, default |-> c.default] : c \in ToSet(nt.cols)}
      BY <3>7, <3>8 DEF SameColumn
    <3> QED BY <3>1, <3>9 DEF Found, Wanted
  <2> QED BY <2>1, <2>2, <2>3
<1> QED BY <1>1, Invariance, TablesInvariance, PTL

\* The columns of the new table that were called otherwise before.
ColClaims(ot, nt, c) == {i \in DOMAIN nt.cols : nt.cols[i].prev = c /\ nt.cols[i].name \notin ColNames(ot)}

\* The new table that is renamed from an old one.
LEMMA WhoTakesATable ==
    ASSUME NEW o, NEW n, Known(n), NEW t \in DOMAIN o.tables \ DOMAIN n.tables, NEW u,
           LET S == {v \in DOMAIN n.tables \ DOMAIN o.tables : n.tables[v].prev = t}
           IN  u \in S /\ u = Head(Sorted(S))
    PROVE  u \in OldTables(o, n) /\ OldName(o, n, u) = t
<1> DEFINE S(d) == {v \in DOMAIN n.tables \ DOMAIN o.tables : n.tables[v].prev = d}
           R == TableRenames(o, n)
<1>1. R = [d \in {e \in DOMAIN o.tables \ DOMAIN n.tables : S(e) # {}} |-> Head(Sorted(S(d)))]
  BY DEF TableRenames
<1>2. t \in DOMAIN R /\ R[t] = u
  BY <1>1
<1>3. u \in RenameTargets(o, n)
  BY <1>2 DEF RenameTargets
<1> HIDE DEF R, S
<1>4. /\ \A d \in DOMAIN R : n.tables[R[d]].prev = d
      /\ RenamedTo(o, n, u) \in DOMAIN R /\ R[RenamedTo(o, n, u)] = u
  BY <1>3, TableRenamesFacts DEF R
<1>5. RenamedTo(o, n, u) = t
  BY <1>2, <1>4
<1> QED BY <1>3, <1>5 DEF OldTables, OldName

\* The new column that is renamed from an old one.
LEMMA WhoTakesAColumn ==
    ASSUME NEW ot, NEW nt, IsSeq(nt.cols), Unique(nt), NEW c \in ColNames(ot) \ ColNames(nt),
           NEW i \in ColClaims(ot, nt, c), i = Min(ColClaims(ot, nt, c))
    PROVE  nt.cols[i].name \in OldCols(ot, nt) /\ OldColName(ot, nt, nt.cols[i].name) = c
<1> DEFINE R == ColRenames(ot, nt)
           k == nt.cols[i].name
<1>1. R = [d \in {e \in ColNames(ot) \ ColNames(nt) : ColClaims(ot, nt, e) # {}}
             |-> nt.cols[Min(ColClaims(ot, nt, d))].name]
  BY DEF ColRenames, ColClaims
<1> HIDE DEF R
<1>2. c \in DOMAIN R /\ R[c] = k
  BY <1>1
<1>3. k \in ColTargets(ot, nt)
  BY <1>2 DEF ColTargets, R
<1> HIDE DEF k
<1>4. /\ \A d \in DOMAIN R : ColOf(nt, R[d]).prev = d
      /\ k \in OldCols(ot, nt) /\ OldColName(ot, nt, k) \in DOMAIN R /\ R[OldColName(ot, nt, k)] = k
  BY <1>3, ColRenamesFacts, ColumnNames DEF R
<1> QED BY <1>2, <1>4 DEF k

\* Whatever the schemas a database can hold and follow, in whatever order and number they
\* come, and whether from a snapshot or from the database: an annotated rename keeps what is
\* stored.  (PreviousName; diffTable, detectTableRenames)
THEOREM RenamesKeepData == ASSUME TablesFollow PROVE Spec => []DataKept
<1>1. Inv /\ TInv => DataKept
  <2> DEFINE SameTable(t, u) ==
                \/ u = t
                \/ /\ t \notin DOMAIN new.tables /\ u \in TablesNamedBefore(t)
                   /\ u = Head(Sorted(TablesNamedBefore(t)))
             Renamed(t, u, c, d) ==
                \/ d.name = c.name
                \/ /\ c.name \notin ColNames(new.tables[u])
                   /\ \E i \in ColumnsNamedBefore(t, u, c.name) :
                        i = Min(ColumnsNamedBefore(t, u, c.name)) /\ d = new.tables[u].cols[i]
  <2> SUFFICES ASSUME Inv, TInv, status = "running", todo = <<>>,
                      NEW t \in DOMAIN before.tables, NEW u \in DOMAIN new.tables, SameTable(t, u),
                      NEW c \in ToSet(before.tables[t].cols), NEW d \in ToSet(new.tables[u].cols),
                      Renamed(t, u, c, d)
               PROVE  ColOf(catalog.tables[u], d.name).data = c.data
    BY DEF DataKept
  <2>1. /\ Named(new) /\ CatalogShape(catalog) /\ CatalogShape(before)
        /\ Reached(Tables(catalog), new) /\ Reached(Tables(before), Base)
        /\ DataFollows(Tables(catalog), Base, new, Tables(before))
    BY EndOfMigration, BaseFacts
  <2>2. PICK o : o = Base
    OBVIOUS
  <2>3. DOMAIN o.tables = DOMAIN before.tables /\ DOMAIN catalog.tables = DOMAIN new.tables
    BY <2>1, <2>2 DEF Reached, Tables
  <2>4. u \in OldTables(o, new) /\ OldName(o, new, u) = t
    <3>1. Known(new)
      BY <2>1 DEF Named
    <3>2. CASE u = t
      <4>1. u \in OldTables(o, new)
        BY <2>3, <3>2 DEF OldTables
      <4> QED BY <2>3, <3>1, <3>2, <4>1, TableNames
    <3>3. CASE u # t
      <4>1. TablesNamedBefore(t) = {v \in DOMAIN new.tables \ DOMAIN o.tables : new.tables[v].prev = t}
        BY <2>3 DEF TablesNamedBefore
      <4>2. t \in DOMAIN o.tables \ DOMAIN new.tables
        BY <2>3, <3>3
      <4> QED BY <3>1, <3>3, <4>1, <4>2, WhoTakesATable
    <3> QED BY <3>2, <3>3
  <2>5. PICK bt, ct, ot, nt : bt = before.tables[t] /\ ct = catalog.tables[u] /\ ot = o.tables[t] /\ nt = new.tables[u]
    OBVIOUS
  <2>6. CatalogTable(bt) /\ CatalogTable(ct) /\ IsSeq(nt.cols) /\ Unique(nt)
    BY <2>1, <2>3, <2>5 DEF CatalogShape, Named
  <2>7. /\ Tables(before)[t] = Fields(bt) /\ DOMAIN Fields(bt) = ColNames(ot)
        /\ Tables(catalog)[u] = Fields(ct) /\ DOMAIN Fields(ct) = ColNames(nt)
    BY <2>1, <2>2, <2>3, <2>5 DEF Reached, Tables
  <2>8. ColNames(bt) = ColNames(ot) /\ ColNames(ct) = ColNames(nt)
        /\ c.name \in ColNames(ot) /\ Fields(bt)[c.name] = c
    <3>1. PICK i \in DOMAIN bt.cols : c = bt.cols[i]
      BY <2>5 DEF ToSet
    <3>2. DOMAIN Fields(bt) = ColNames(bt) /\ bt.cols[i].name \in ColNames(bt) /\ Fields(bt)[bt.cols[i].name] = bt.cols[i]
      BY <2>6, FieldsFacts
    <3>3. DOMAIN Fields(ct) = ColNames(ct)
      BY <2>6, FieldsFacts
    <3> QED BY <2>7, <3>1, <3>2, <3>3
  <2>9. d.name \in ColNames(nt)
    BY <2>5 DEF ColNames, ToSet
  <2>10. d.name \in OldCols(ot, nt) /\ OldColName(ot, nt, d.name) = c.name
    <3>1. CASE d.name = c.name
      BY <2>8, <2>9, <3>1 DEF OldCols, OldColName
    <3>2. CASE d.name # c.name
      <4>1. PICK k : k = c.name
        OBVIOUS
      <4>2. ColumnsNamedBefore(t, u, k) = ColClaims(ot, nt, k)
        BY <2>5, <2>8 DEF ColumnsNamedBefore, ColClaims
      <4>3. PICK i \in ColumnsNamedBefore(t, u, k) : i = Min(ColumnsNamedBefore(t, u, k)) /\ d = nt.cols[i]
        BY <2>5, <3>2, <4>1
      <4>4. k \in ColNames(ot) \ ColNames(nt)
        BY <2>5, <2>8, <3>2, <4>1
      <4>5. nt.cols[i].name \in OldCols(ot, nt) /\ OldColName(ot, nt, nt.cols[i].name) = k
        BY <2>6, <4>2, <4>3, <4>4, WhoTakesAColumn
      <4> QED BY <4>1, <4>3, <4>5
    <3> QED BY <3>1, <3>2
  <2>11. Fields(ct)[d.name].data = Fields(bt)[c.name].data
    BY <2>1, <2>2, <2>4, <2>5, <2>7, <2>10 DEF DataFollows
  <2>12. Fields(ct)[d.name] = ColOf(ct, d.name)
    BY <2>8, <2>9 DEF Fields
  <2> QED BY <2>5, <2>8, <2>11, <2>12
<1> QED BY <1>1, Invariance, TablesInvariance, PTL

================================================================================
