------------------------------- MODULE MCBuilders -------------------------------
(***************************************************************************)
(* Small programs for the builders: where they start, how many calls they  *)
(* may make and with which arguments.                                      *)
(***************************************************************************)
EXTENDS BuiltQueries

\* A dialect that supports nothing beyond the standard.
Minimal ==
    [name |-> "minimal", numbered |-> FALSE, returning |-> FALSE, upsert |-> "none",
     insertIgnore |-> "", ignoreConflicts |-> FALSE, cte |-> FALSE, windows |-> FALSE,
     distinctOn |-> FALSE, forUpdate |-> FALSE, noKeyUpdate |-> FALSE, fullJoin |-> FALSE,
     rightJoin |-> FALSE, forShare |-> "", forShareOf |-> FALSE, regexp |-> FALSE,
     fullText |-> FALSE, limitOnMutate |-> FALSE]
MCDialects == {Postgres, MySQL, SQLite, Minimal}

users == Table("users", "users")
posts == Table("posts", "p")

id    == Col("users", "id")
name  == Col("users", "name")
age   == Col("users", "age")
owner == Col("p", "owner")
a     == IsNull(id)
b     == IsNull(name)
c     == IsNull(age)

MCConditions  == {Nil, a, Or(<<b, c>>), Not(And(<<a, b>>)), Binary(age, ">", "1"), TypedNil}
MCColumnLists == {<<id>>, <<ColAs(name, "n")>>, <<Nil>>}
MCJoined      == {[kind |-> "LEFT JOIN", table |-> posts, on |-> Binary(owner, "=", "2")],
                  [kind |-> "INNER JOIN", table |-> posts, on |-> Nil],
                  [kind |-> "RIGHT JOIN", table |-> posts, on |-> ColCol(owner, "=", id)],
                  [kind |-> "FULL JOIN", table |-> posts, on |-> ColCol(owner, "=", id)],
                  [kind |-> "CROSS JOIN", table |-> posts, on |-> Nil]}
MCSources     == {users, posts, TypedNil, CTERef("cte")}
MCOrders      == {<<OrderBy(name, "ASC", "")>>, <<OrderBy(Func("LOWER", <<ColExpr(name)>>), "DESC", "NULLS LAST")>>}
MCCounts      == {-1, 5}
MCLocking     == {[strength |-> "FOR UPDATE", opts |-> <<"NOWAIT">>], [strength |-> "FOR SHARE", opts |-> <<>>],
                  [strength |-> "FOR KEY SHARE", opts |-> <<"SKIP LOCKED">>],
                  [strength |-> "FOR SHARE", opts |-> <<"NOWAIT", "SKIP LOCKED">>],
                  [strength |-> "FOR UPDATE", opts |-> <<"NOWAIT", "NOWAIT">>],
                  [strength |-> "FOR EVER", opts |-> <<>>]}
MCLockTables  == {<<>>, <<users>>, <<posts>>}
MCKeyLists    == {<<>>, <<"7", "8">>}

Field(col, kind, option, v) == [col |-> col, kind |-> kind, option |-> option, v |-> v, exported |-> TRUE]
Struct(fields)              == [k |-> "struct", fields |-> fields]
User(n, g) == Struct(<<Field("id", "plain", "", "u"), Field("name", "pointer", "omitempty", n),
                       Field("age", "pointer", "", g), Field("-", "plain", "", "x")>>)
MCRows     == {User("ann", "30"), User(Absent, "31"), User("bob", Absent), Struct(<<>>), TypedNil,
               Struct(<<Field("age", "plain", "", "40")>>), Struct(<<Field("name", "plain", "", "eve")>>),
               Struct(<<Field("id", "plain", "", "u"), Field("id", "plain", "", "v")>>)}
MCSlices   == {<<User("ann", "30"), User("bob", Absent)>>, <<User("ann", "30"), User(Absent, "31")>>,
               <<TypedNil, User("ann", "30")>>}
MCAssigned == {[col |-> "name", val |-> "eve"], [col |-> "a.b", val |-> "0"]}
MCTargets  == {<<"id">>, <<>>}

\* One query per column method, and per other kind of expression.
MethodQueries ==
    UNION {{SetWhere([Select(<<id>>) EXCEPT !.from = users], Method(m, name, "3", "4", owner))
            : m \in ColumnTypes[t]} : t \in DOMAIN ColumnTypes}

\* One for each method of an expression that is no column.
Methods(methods, e) ==
    {[Select(<<id>>) EXCEPT !.from = users, !.having = Method(m, e, "3", "simple", owner)] : m \in methods}
ExpressionMethods ==
    Methods(AggMethods, Agg("SUM", age)) \cup Methods(FuncMethods, Func("LOWER", <<ColExpr(name)>>))
    \cup Methods(ArithMethods, Arith(age, "-", Lit("5")))
    \cup Methods(TsvectorMethods, ToTsvector(name, "english"))

coalesce == Func("COALESCE", <<ColExpr(age), Lit("0")>>)
Expressions1 ==
    {coalesce, As(coalesce, "age"), Arith(Arith(age, "+", Lit("1")), "*", age),
     Count, As(Agg("SUM", Arith(age, "*", Lit("2"))), "total"), CountDistinct(Nil), CountDistinct(coalesce),
     RowNumber, WinCount, ColAs(WinSum(age), "sum"), NthValue(age, 0), NthValue(age, 2),
     WindowOrderBy(PartitionBy(LagWithDefault(age, 1, "0"), <<coalesce>>), <<OrderBy(coalesce, "ASC", "")>>),
     As(Case(<<<<Binary(age, ">", "1"), Lit("old")>>, <<a, Lit("x")>>>>, Lit("young")), "label"),
     Case(<<>>, Nil), SimpleCase(coalesce, <<<<"1", Lit("one")>>, <<"2", coalesce>>>>, Lit("many")),
     SimpleCase(name, <<<<"1", Nil>>>>, Nil), ToTsvector(coalesce, "english"), As(ToTsvector(name, ""), "doc"),
     ColAs(name, ""), ColAs(name, "a.b"), ColAs(coalesce, "x")}
Tests ==
    {Between(coalesce, "1", "9"), InList(coalesce, "IN", <<"1", "2">>), InList(id, "IN", <<>>),
     Matches(ToTsvector(coalesce, "english"), "to_tsquery", "simple", "cat"),
     Binary(TsRank(name, TsQuery("to_tsquery", "", "cat")), ">", "5"),
     RawArgs(2, <<"1", "2">>), RawArgs(1, <<"1", "2">>), Flip("1", "@>", name),
     Or(<<Binary(age, "=", "1"), Not(Between(age, "2", "3")), Nil>>), And(<<a, TypedNil>>)}
ExpressionQueries ==
    {SetWhere([Select(<<e, id>>) EXCEPT !.from = users], Binary(id, "=", "z")) : e \in Expressions1}
    \cup {[SetWhere([Select(<<id>>) EXCEPT !.from = users], e) EXCEPT !.groupBy = <<coalesce>>,
           !.having = Binary(Count, ">", "6")] : e \in Tests}
    \cup {[Select(<<id>>) EXCEPT !.from = users, !.orderBy = <<OrderBy(e, "ASC", "")>>] : e \in Expressions1}
    \cup {[Select(<<id>>) EXCEPT !.from = users, !.distinct = TRUE, !.distinctOn = <<e>>] : e \in Expressions1}

Start(bs, calls) == [built |-> bs, heap |-> <<>>, rows |-> <<>>, calls |-> calls]

plain    == [Select(<<id>>) EXCEPT !.from = users]
filtered == SetWhere([Select(<<name, coalesce>>) EXCEPT !.from = users], Binary(age, "<", "9"))
other    == [SetWhere(Select(<<owner>>), Binary(owner, "=", "8")) EXCEPT !.from = posts]

\* An upsert whose three assignments lie in an array of four.
three == <<[col |-> "x", val |-> "1"], [col |-> "y", val |-> "2"], [col |-> "z", val |-> "3"], Unset>>
upsert == [[InsertInto(users) EXCEPT !.colNames = <<"id", "age">>, !.rows = <<<<"u", "31">>>>] EXCEPT
           !.upsert = [NoUpsert EXCEPT !.sets = [arr |-> 1, len |-> 3], !.conflictCols = <<"id">>,
                                       !.conflictTargetSet = TRUE]]
upserting == [Start(<<upsert>>, 2) EXCEPT !.heap = <<three>>, !.rows = <<User(Absent, "31")>>]
inserting == [Start(<<ValuesOf(InsertInto(users), User("ann", "30"))>>, 2) EXCEPT !.rows = <<User("ann", "30")>>]
union     == NewSetOp(plain, "UNION", filtered)

MCStarts ==
    {Start(<<q>>, 0) : q \in MethodQueries \cup ExpressionMethods \cup ExpressionQueries}
    \cup {Start(<<plain>>, 2), Start(<<other, filtered>>, 1),
          Start(<<InsertInto(users)>>, 2), inserting, upserting, Start(<<Update(users)>>, 2),
          Start(<<AndWhere(Update(users), a)>>, 2), Start(<<DeleteFrom(posts)>>, 2),
          Start(<<other, union>>, 1), Start(<<union>>, 2)}

================================================================================
