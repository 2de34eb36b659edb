------------------------------ MODULE MCSqliteApply ------------------------------
EXTENDS SqliteApply

Col(n, ty) == [name |-> n, type |-> ty, notNull |-> FALSE, default |-> Blank, ref |-> <<>>, prev |-> Blank,
               pk |-> FALSE, unique |-> FALSE]
Was(col, n)       == [col EXCEPT !.prev = n]
Required(col, d)  == [col EXCEPT !.notNull = TRUE, !.default = d]
Con(kind, name, cols) == [kind |-> kind, name |-> name, cols |-> cols, table |-> Blank,
                          refCols |-> <<>>, expr |-> Blank, act |-> Blank]
Index(name, cols) == Con("index", name, cols)
Check(name, n)    == [Con("check", name, <<>>) EXCEPT !.expr = n]
Key(name, n, t, act) == [Con("foreign_key", name, <<n>>) EXCEPT !.table = t, !.refCols = <<"id">>, !.act = act]
Table(prev, cols, cons) == [prev |-> prev, cols |-> cols, cons |-> cons]

MCAlphabet == <<"acct", "mood", "post", "user", "v">>

\* Primary keys that come back from introspection as they are, and some that do not.
Serial == [Col("id", "serial") EXCEPT !.pk = TRUE, !.notNull = TRUE, !.default = "auto"]
Uuid   == [Col("id", "uuid") EXCEPT !.pk = TRUE, !.notNull = TRUE, !.default = "gen_random_uuid()"]
Plain  == [Col("id", "integer") EXCEPT !.notNull = TRUE]

Accounts(prev) ==
    {Table(prev, <<Serial, Col("x", "integer"), Col("w", "text")>>, <<Index("by_x", <<"x">>)>>),
     Table(prev, <<Uuid, Required(Was(Col("y", "text"), "x"), "now()")>>, <<Index("by_y", <<"y">>)>>),
     Table(prev, <<Uuid, Was(Col("y", "boolean"), "x"), Required(Col("z", "boolean"), "true")>>,
           <<Check("sane", "y"), Con("unique_index", "one_z", <<"z">>)>>),
     Table(prev, <<Plain>>, <<Con("primary_key", Blank, <<"id">>)>>)}
Posts(t) ==
    {Table(Blank, <<Plain, [Col("owner", "integer") EXCEPT !.ref = <<t, "id">>]>>, <<>>),
     Table(Blank, <<Plain, Col("owner", "integer"), Col("at", "timestamptz")>>,
           <<Key("owned", "owner", t, "CASCADE"), Index("by_at", <<"at">>)>>),
     Table(Blank, <<Plain, Was(Col("author", "uuid"), "owner"), Required(Col("at", "timestamptz"), Blank)>>,
           <<Index("by_at", <<"at">>)>>),
     Table(Blank, <<Plain, Col("author", "uuid"), [Col("slug", "text") EXCEPT !.unique = TRUE]>>, <<>>)}

TableChoices ==
    {<<>>}
    \cup {("acct" :> a) : a \in Accounts(Blank)}
    \cup {("post" :> p) : p \in {q \in Posts(Blank) : Len(q.cols) = 3 /\ q.cols[3].notNull}}
    \cup {("user" :> a) : a \in {b \in Accounts("acct") : Len(b.cols) > 1}}
    \cup {("acct" :> a) @@ ("post" :> p) : a \in {b \in Accounts(Blank) : Len(b.cols) # 3}, p \in Posts("acct")}
    \cup {("user" :> a) @@ ("post" :> p) : a \in {b \in Accounts("acct") : Len(b.cols) = 1}, p \in Posts("user")}
View(t, uses) == [on |-> t, uses |-> uses, semi |-> FALSE]
ObjectChoices ==
    {[views |-> <<>>, enums |-> <<>>],
     [views |-> <<>>, enums |-> "mood" :> <<"a", "b">>],
     [views |-> "v" :> View("acct", {"id"}), enums |-> "mood" :> <<"b">>],
     [views |-> "v" :> View("user", {"id", "w"}), enums |-> <<>>],
     [views |-> "acct" :> View("user", {"id"}), enums |-> <<>>]}
WellFormed(s) ==
    /\ DOMAIN s.tables \cap (DOMAIN s.views \cup DOMAIN s.enums) = {}
    /\ \A v \in DOMAIN s.views :
         s.views[v].on \in DOMAIN s.tables /\ s.views[v].uses \subseteq ColNames(s.tables[s.views[v].on])

MCSchemas ==
    {s \in {[tables |-> t, views |-> o.views, enums |-> o.enums] : t \in TableChoices, o \in ObjectChoices} :
       WellFormed(s)}

MCEvolves(f, cat, o, n) == SqliteCompatible(f, cat, o, n)

--------------------------------------------------------------------------------
\* Schemas outside SqliteCompatible.
AnyEvolution(f, cat, o, n) == TRUE

OnlyTable(cols, cons) == [tables |-> "acct" :> Table(Blank, cols, cons), views |-> <<>>, enums |-> <<>>]

\* Nothing changes; a column is unique.
UniqueSchemas == {OnlyTable(<<Serial, [Col("x", "text") EXCEPT !.unique = TRUE]>>, <<>>)}

================================================================================
