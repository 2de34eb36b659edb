------------------------------ MODULE MCSchemaApply ------------------------------
EXTENDS SchemaApply

Col(n, ty) == [name |-> n, type |-> ty, notNull |-> FALSE, default |-> Blank, ref |-> <<>>, prev |-> Blank]
Key(name, col, t, act) == [kind |-> "foreign_key", name |-> name, cols |-> <<col>>, table |-> t,
                           refCols |-> <<"id">>, expr |-> Blank, act |-> act]
Index(name, cols) == [kind |-> "index", name |-> name, cols |-> cols, table |-> Blank,
                      refCols |-> <<>>, expr |-> Blank, act |-> Blank]
Check(name, e)    == [Index(name, <<>>) EXCEPT !.kind = "check", !.expr = e]
Primary           == [Index(Blank, <<"id">>) EXCEPT !.kind = "primary_key"]
Table(prev, cols, cons) == [prev |-> prev, cols |-> cols, cons |-> cons]

MCAlphabet == <<"acct", "mood", "post", "user", "v">>

Id == [Col("id", "integer") EXCEPT !.notNull = TRUE]

\* The table that others refer to, under either name.
Accounts(prev) ==
    {Table(prev, <<Id, Col("x", "integer")>>, <<Primary>>),
     Table(prev, <<Id, [Col("y", "text") EXCEPT !.prev = "x", !.default = "0", !.notNull = TRUE]>>,
           <<Primary, Check("positive", "y")>>),
     Table(prev, <<[Col("m", "mood") EXCEPT !.default = "b"], Id, [Col("y", "integer") EXCEPT !.prev = "x"]>>,
           <<Primary, Check("positive", "m"), Index("by_y", <<"y">>)>>)}
\* A table that refers to it: from its column, by a constraint, or no longer.
Posts(t) ==
    {Table(Blank, <<Id, [Col("owner", "integer") EXCEPT !.ref = <<t, "id">>]>>, <<>>),
     Table(Blank, <<Id, Col("owner", "integer")>>, <<Key("owned", "owner", t, Blank)>>),
     Table(Blank, <<Id, [Col("author", "integer") EXCEPT !.prev = "owner"]>>,
           <<Key("owned", "author", t, "CASCADE"), Index("by_author", <<"author">>)>>)}

\* The same table with another type in that column, which cannot refer to it.
Loose == Table(Blank, <<Id, Col("owner", "text")>>, <<>>)

TableChoices ==
    {<<>>}
    \cup {("acct" :> a) : a \in Accounts(Blank)}
    \cup {("user" :> a) : a \in Accounts("acct")}
    \cup {("acct" :> a) @@ ("post" :> p) : a \in Accounts(Blank), p \in Posts("acct")}
    \cup {("user" :> a) @@ ("post" :> p) : a \in Accounts("acct"), p \in Posts("user")}
    \cup {("acct" :> Table(Blank, <<Id>>, <<Primary>>)) @@ ("post" :> Loose)}
View(t, uses, semi) == [on |-> t, uses |-> uses, semi |-> semi]
Mood(labels) == "mood" :> labels
\* Views and enums, among them some that take the name of a table.
ObjectChoices ==
    {[views |-> <<>>, enums |-> e] : e \in {<<>>, Mood(<<"b">>), "post" :> <<"a">>, "acct" :> <<"a">>}}
    \cup {[views |-> "v" :> View("acct", {"id"}, semi), enums |-> Mood(<<"a", "b">>)] : semi \in BOOLEAN}
    \cup {[views |-> "v" :> View("user", {"id", "x"}, TRUE), enums |-> <<>>],
          [views |-> "acct" :> View("user", {"y"}, FALSE), enums |-> Mood(<<"c", "a", "d", "b">>)],
          [views |-> "post" :> View("acct", {"y"}, FALSE), enums |-> Mood(<<"c", "a", "d", "b">>)]}

\* A schema that could be created from nothing.
WellFormed(s) ==
    /\ Creatable(s)
    /\ (DOMAIN s.tables \cup DOMAIN s.views) \cap DOMAIN s.enums = {}
    /\ \A t \in DOMAIN s.tables : \A c \in ToSet(s.tables[t].cols) :
         c.type \in BaseTypes \/ (c.type \in DOMAIN s.enums /\ c.default \in ToSet(s.enums[c.type]))

\* What the theorems about tables ask of the schemas holds of these.
ASSUME MCTablesFollow == TablesFollow

MCSchemas ==
    {s \in {[tables |-> t, views |-> o.views, enums |-> o.enums] : t \in TableChoices, o \in ObjectChoices} :
       WellFormed(s)}

\* A third migration has no old table: it is there for enums and what they kept.
MCEvolves(f, d, o, n) == (d = 2 => DOMAIN o.tables = {}) /\ Compatible(f, o, n)

--------------------------------------------------------------------------------
\* Schemas outside Compatible, each with what the next version makes of it.
AnyEvolution(f, d, o, n) == TRUE

OnlyTable(cols, cons) ==
    [tables |-> "acct" :> Table(Blank, cols, cons), views |-> <<>>, enums |-> <<>>]

\* An index keeps its name and loses the column that is dropped.
IndexSchemas ==
    {OnlyTable(<<Id, Col("x", "integer"), Col("y", "integer")>>, <<Index("by", <<"x", "y">>)>>),
     OnlyTable(<<Id, Col("x", "integer")>>, <<Index("by", <<"x">>)>>)}

\* Nothing changes.
SteadySchemas == {OnlyTable(<<Id>>, <<Primary>>)}

================================================================================
