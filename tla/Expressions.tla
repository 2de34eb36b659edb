------------------------------ MODULE Expressions -------------------------------
(***************************************************************************)
(* Package expr: SQL expressions as trees, and what each of them writes.   *)
(*                                                                         *)
(* A tree is a record with a kind k.  What it writes is a sequence of      *)
(* pieces in the order of the text: words, names to be quoted, values to   *)
(* be bound, other trees, or a failure where RenderSQL returns an error.   *)
(* It renders by position: "sql" is RenderSQL, "ref" is colRef, the        *)
(* reference to a column from within another expression.                   *)
(***************************************************************************)
EXTENDS Integers, Sequences, SequencesExt, Dialects

Text(words)  == [k |-> "text", words |-> words]
Name(n)      == [k |-> "name", n |-> n]           \* an identifier, through Quote
Fail(code)   == [k |-> "fail", code |-> code]
Late(v)      == [k |-> "late", v |-> v]           \* a value that is bound after its neighbours
Check(n)     == [k |-> "check", n |-> n]          \* Quote, its result dropped
AsSQL(e)     == [k |-> "in", mode |-> "sql", of |-> e]
AsRef(e)     == [k |-> "in", mode |-> "ref", of |-> e]
AsBare(e)    == [k |-> "bare", of |-> e]          \* a column without its table

Invalid      == Fail("build_validation")
Unsupported  == Fail("unsupported_feature")

Nil          == [k |-> "nil"]         \* a nil interface
TypedNil     == [k |-> "typed nil"]   \* a nil pointer in an interface
IsNil(e)     == e \in {Nil, TypedNil}

When(cond, s) == IF cond THEN s ELSE <<>>

\* The pieces of each element of a sequence, separated by a word.
Separated(word, lists) ==
    FlattenSeq([i \in DOMAIN lists |-> When(i > 1, <<Text(<<word>>)>>) \o lists[i]])
Listed(word, pieces) == Separated(word, [i \in DOMAIN pieces |-> <<pieces[i]>>])
Parens(pieces) == <<Text(<<"(">>)>> \o pieces \o <<Text(<<")">>)>>

--------------------------------------------------------------------------------
(* Constructors                                                              *)

Node(k, op, parts) == [k |-> k, op |-> op, parts |-> parts, alias |-> ""]

Lit(v)       == [k |-> "lit", v |-> v]            \* a bound value
Col(t, c)    == [k |-> "column", t |-> t, c |-> c]
Raw(words)   == Node("raw", words, <<>>)
\* The fragment's holes are filled in order; their number is checked when it renders.
RawArgs(holes, vals) ==
    IF holes # Len(vals) THEN Invalid ELSE Node("raw args", "", [i \in DOMAIN vals |-> Lit(vals[i])])

\* filterNil: plain nil is dropped, a typed nil is reported when it renders.  The code compacts
\* the slice it is given in place: a caller that passes one with nil in it and uses it again
\* finds its operands moved.  Operands here are given one by one.
FilterNil(es) ==
    LET active == SelectSeq(es, LAMBDA e : e # Nil)
    IN  [i \in DOMAIN active |-> IF active[i] = TypedNil THEN Invalid ELSE active[i]]

Combine(op, es) ==
    LET active == FilterNil(es)
    IN  IF active = <<>> THEN Nil ELSE IF Len(active) = 1 THEN active[1] ELSE Node("logic", op, active)

And(es) == Combine("AND", es)
Or(es)  == Combine("OR", es)
Not(e)  == IF e = Nil THEN Nil ELSE IF e = TypedNil THEN Invalid ELSE Node("not", "", <<e>>)

Binary(ref, op, v)    == Node("binary", op, <<ref, Lit(v)>>)
ColCol(left, op, right) == Node("columns", op, <<left, right>>)
IsNull(ref)           == Node("null", "IS NULL", <<ref>>)
IsNotNull(ref)        == Node("null", "IS NOT NULL", <<ref>>)
Between(ref, lo, hi)  == Node("between", "", <<ref, Lit(lo), Lit(hi)>>)
InList(ref, op, vals) ==
    IF vals = <<>> THEN Invalid ELSE Node("list", op, <<ref>> \o [i \in DOMAIN vals |-> Lit(vals[i])])
Like(ref, op, v)      == Node("like", op, <<ref, Lit(v)>>)
Regexp(ref, op, v)    == Node("regexp", op, <<ref, Lit(v)>>)
Nav(ref, op, v)       == Node("nav", op, <<ref, Lit(v)>>)
ContainsValue(ref, v) == Node("contains", "@>", <<ref, Lit(v)>>)
HasKey(ref, op, v)    == Node("key", op, <<ref, Lit(v)>>)
HasNotKey(ref, v)     == Node("no key", "?", <<ref, Lit(v)>>)
Path(ref, op)         == Node("path", op, <<ref>>)
Flip(v, op, ref)      == Node("flip", op, <<Lit(v), ref>>)

\* Searched CASE: branches <<condition, result>>, Nil for no ELSE.
Case(branches, else) == [k |-> "case", op |-> "", alias |-> "", else |-> else,
                         parts |-> FlattenSeq(branches)]
\* Simple CASE: the subject, and branches <<value, result>>.
SimpleCase(subject, branches, else) ==
    [k |-> "simple case", op |-> "", alias |-> "", else |-> else,
     parts |-> <<subject>> \o FlattenSeq([i \in DOMAIN branches |->
                                            <<Lit(branches[i][1]), branches[i][2]>>])]

\* Col: a column where an expression is asked for.
ColExpr(col)           == Node("col", "", <<col>>)
Func(fn, args)         == Node("func", fn, args)
Arith(left, op, right) == Node("arith", op, <<left, right>>)
Count                  == Node("agg", "COUNT", <<>>)
Agg(fn, col)           == IF IsNil(col) THEN Invalid ELSE Node("agg", fn, <<col>>)
CountDistinct(col)     == IF IsNil(col) THEN Invalid ELSE Node("agg distinct", "COUNT", <<col>>)

\* vals: the offset and the default value of LEAD, LAG and NTH_VALUE.
Window(fn, parts, vals) ==
    [k |-> "window", op |-> fn, alias |-> "", parts |-> parts,
     vals |-> [i \in DOMAIN vals |-> Lit(vals[i])], partition |-> <<>>, order |-> <<>>]
RowNumber              == Window("ROW_NUMBER", <<>>, <<>>)
WinCount               == Window("COUNT", <<>>, <<>>)
RequiredColumnWindow(fn, col, vals) == IF IsNil(col) THEN Invalid ELSE Window(fn, <<col>>, vals)
WinSum(col)            == RequiredColumnWindow("SUM", col, <<>>)
LagWithDefault(col, offset, v) == RequiredColumnWindow("LAG", col, <<offset, v>>)
NthValue(col, n)       == IF n < 1 THEN Invalid ELSE RequiredColumnWindow("NTH_VALUE", col, <<n>>)
PartitionBy(w, cols)   == [w EXCEPT !.partition = cols]
WindowOrderBy(w, es)   == [w EXCEPT !.order = es]

\* config is "" or the text search configuration that is bound before the query.
TsArgs(config, query)  == When(config # "", <<Lit(config)>>) \o <<Lit(query)>>
TsQuery(fn, config, query) == Node("tsquery", fn, TsArgs(config, query))
ToTsvector(ref, config) == Node("tsvector", "to_tsvector", When(config # "", <<Lit(config)>>) \o <<ref>>)
TsRank(col, tsq)       == Func("TS_RANK", <<ColExpr(col), tsq>>)
Matches(ref, fn, config, query) == Node("match", fn, <<ref>> \o TsArgs(config, query))

As(e, alias)           == [e EXCEPT !.alias = alias]
ColAs(col, alias)      == [k |-> "aliased", op |-> "", parts |-> <<col>>, alias |-> alias]
OrderBy(ref, dir, nulls) == [k |-> "order", op |-> dir, nulls |-> nulls, parts |-> <<ref>>]

--------------------------------------------------------------------------------
(* The operators of the typed columns                                        *)

Symbol == [EQ |-> "=", NEQ |-> "<>", GT |-> ">", GTE |-> ">=", LT |-> "<", LTE |-> "<=",
           IsTrue |-> "=", IsFalse |-> "=",
           Like |-> "LIKE", ILike |-> "ILIKE", NotLike |-> "NOT LIKE", NotILike |-> "NOT ILIKE",
           RegexpMatch |-> "~", RegexpMatchI |-> "~*", NotRegexpMatch |-> "!~", NotRegexpMatchI |-> "!~*",
           Arrow |-> "->", ArrowText |-> "->>", Path |-> "#>", PathText |-> "#>>", HasKey |-> "?",
           HasAnyKey |-> "?|", HasAllKeys |-> "?&", Contains |-> "@>", IsContainedBy |-> "<@",
           Overlaps |-> "&&", Add |-> "+", Sub |-> "-", Mul |-> "*", Div |-> "/",
           Matches |-> "to_tsquery", MatchesPlain |-> "plainto_tsquery",
           MatchesPhrase |-> "phraseto_tsquery", MatchesWebSearch |-> "websearch_to_tsquery"]

Compare     == {"EQ", "NEQ", "GT", "GTE", "LT", "LTE"}
CompareCols == {"EQCol", "NEQCol", "GTCol", "GTECol", "LTCol", "LTECol"}
Arithmetic  == {"Add", "Sub", "Mul", "Div", "AddCol", "SubCol", "MulCol"}
Lists       == {"In", "NotIn"}
Patterns    == {"Like", "ILike", "NotLike", "NotILike"}
Regexps     == {"RegexpMatch", "RegexpMatchI", "NotRegexpMatch", "NotRegexpMatchI"}
Searches    == {"Matches", "MatchesPlain", "MatchesPhrase", "MatchesWebSearch"}
WithConfig  == {"MatchesWithConfig", "MatchesPlainWithConfig", "MatchesPhraseWithConfig",
                "MatchesWebSearchWithConfig"}

\* Which methods each column type has; ArrayColumn.ContainedBy, unlike JSONBColumn's,
\* keeps the column in front and is called IsContainedBy here.
UUIDColumn      == {"EQ", "NEQ", "EQCol"} \cup Lists
StringColumn    == {"EQ", "NEQ", "EQCol"} \cup Lists \cup Patterns \cup Regexps
IntColumn       == Compare \cup {"Between", "EQCol"} \cup Lists \cup Arithmetic
BigIntColumn    == Compare \cup {"Between", "EQCol"} \cup Lists \cup Arithmetic
BoolColumn      == {"EQ", "IsTrue", "IsFalse", "EQCol"}
TimestampColumn == (Compare \ {"NEQ"}) \cup {"Between"} \cup CompareCols
JSONBColumn     == {"Arrow", "ArrowText", "Path", "PathText", "Contains", "ContainedBy", "HasKey",
                    "HasKeyNot", "HasAnyKey", "HasAllKeys"}
FloatColumn     == Compare \cup {"Between"} \cup Lists \cup CompareCols \cup Arithmetic
BytesColumn     == {"EQ", "NEQ"}
DateColumn      == Compare \cup {"EQCol"}
IntervalColumn  == {"EQ", "NEQ"}
EnumColumn      == {"EQ", "NEQ"} \cup Lists
InetColumn      == {"EQ", "NEQ"}
TsvectorColumn  == Searches \cup WithConfig
ArrayColumn     == {"EQ", "NEQ", "Contains", "IsContainedBy", "Overlaps"}

ColumnTypes == <<UUIDColumn, StringColumn, IntColumn, BigIntColumn, BoolColumn, TimestampColumn,
                 JSONBColumn, FloatColumn, BytesColumn, DateColumn, IntervalColumn, EnumColumn,
                 InetColumn, TsvectorColumn, ArrayColumn>>

\* The methods of the other expressions a condition can be built on.
AggMethods      == Compare
FuncMethods     == Compare \cup {"Like", "ILike"}
ArithMethods    == Compare \cup {"Add", "Sub", "Mul", "Div"}
TsvectorMethods == Searches \cup WithConfig

\* The method whose name m is n, then the suffix.
Stem(m, names, suffix) == CHOOSE n \in names : m = n \o suffix

\* What method m of column c returns, with two values or another column.
Method(m, c, v, w, other) ==
    CASE m \in CompareCols       -> ColCol(c, Symbol[Stem(m, Compare, "Col")], other)
      [] m \in {"AddCol", "SubCol", "MulCol"} -> Arith(c, Symbol[Stem(m, Arithmetic, "Col")], other)
      [] m \in Arithmetic        -> Arith(c, Symbol[m], Lit(v))
      [] m = "Between"           -> Between(c, v, w)
      [] m = "In"                -> InList(c, "IN", <<v, w>>)
      [] m = "NotIn"             -> InList(c, "NOT IN", <<v>>)
      [] m \in Regexps           -> Regexp(c, Symbol[m], v)
      [] m \in {"Path", "PathText"} -> Path(c, Symbol[m])
      [] m = "ContainedBy"       -> Flip(v, "@>", c)
      [] m = "HasKeyNot"         -> HasNotKey(c, v)
      [] m \in {"HasKey", "HasAnyKey", "HasAllKeys"} -> HasKey(c, Symbol[m], v)
      [] m \in {"Arrow", "ArrowText"} -> Nav(c, Symbol[m], v)
      [] m = "Contains"          -> ContainsValue(c, v)
      [] m \in Patterns          -> Like(c, Symbol[m], v)
      [] m \in Searches          -> Matches(c, Symbol[m], "", v)
      [] m \in WithConfig        -> Matches(c, Symbol[Stem(m, Searches, "WithConfig")], w, v)
      [] OTHER                   -> Binary(c, Symbol[m], v)

--------------------------------------------------------------------------------
(* What an expression writes                                                 *)

Keyword(e)  == Text(<<e.op>>)
Rest(e)     == SubSeq(e.parts, 2, Len(e.parts))

\* An alias follows where the expression stands in a SELECT list.
Alias(e) == When(e.alias # "", <<Text(<<"AS">>), Name(e.alias)>>)
\* Functions, arithmetic and wrapped columns leave it out elsewhere; aggregates,
\* CASE and window functions, whose colRef is RenderSQL, never do.
AliasInSQL(e, mode) == When(mode = "sql", Alias(e))

ColPieces(e)     == When(IsNil(e.parts[1]), <<Invalid>>) \o <<AsRef(e.parts[1])>>
\* Mutant: the operands are joined without parentheses.
LogicPiecesBare(e) == Listed(e.op, [i \in DOMAIN e.parts |-> AsSQL(e.parts[i])])
LogicPieces(e)   == Parens(Listed(e.op, [i \in DOMAIN e.parts |-> AsSQL(e.parts[i])]))
NotPieces(e)     == <<Text(<<"NOT">>)>> \o Parens(<<AsSQL(e.parts[1])>>)
RawArgsPieces(e) == <<Text(<<"raw">>)>> \o Parens(Listed("and", e.parts))
BinaryPieces(e)  == <<AsRef(e.parts[1]), Keyword(e), e.parts[2]>>
ColumnsPieces(e) == <<AsRef(e.parts[1]), Keyword(e), AsRef(e.parts[2])>>
NullPieces(e)    == <<AsRef(e.parts[1]), Keyword(e)>>
\* Mutant: a range is bound with its upper end first.
BetweenPiecesLate(e) == <<AsRef(e.parts[1]), Text(<<"BETWEEN">>), Late(e.parts[2].v), Text(<<"AND">>), e.parts[3]>>
BetweenPieces(e) == <<AsRef(e.parts[1]), Text(<<"BETWEEN">>), e.parts[2], Text(<<"AND">>), e.parts[3]>>
ListPieces(e)    == <<AsRef(e.parts[1]), Keyword(e)>> \o Parens(Listed(",", Rest(e)))
\* Of types of their own, but in the form of a binary expression.
LikePieces(e)     == BinaryPieces(e)
NavPieces(e)      == BinaryPieces(e)
ContainsPieces(e) == BinaryPieces(e)
KeyPieces(e)      == When(e.k = "no key", <<Text(<<"NOT">>)>>) \o BinaryPieces(e)
PathPieces(e)    == <<AsRef(e.parts[1]), Keyword(e), Text(<<"ARRAY">>)>>
\* The reference renders, and binds what it holds, before the value in front of it.
FlipPieces(e)    == <<Late(e.parts[1].v), Keyword(e), AsRef(e.parts[2])>>

RegexpPieces(e, d) == When(~d.regexp, <<Unsupported>>) \o BinaryPieces(e)
MatchPieces(e, d)  == When(~d.fullText, <<Unsupported>>)
                      \o <<AsRef(e.parts[1]), Text(<<"@@", e.op>>)>> \o Parens(Listed(",", Rest(e)))
TsQueryPieces(e, d) == When(~d.fullText, <<Unsupported>>) \o <<Keyword(e)>> \o Parens(Listed(",", e.parts))
TsvectorPieces(e, mode, d) ==
    When(~d.fullText, <<Unsupported>>) \o <<Keyword(e)>>
    \o Parens(Listed(",", [i \in DOMAIN e.parts |-> IF i < Len(e.parts) THEN Late(e.parts[i].v)
                                                    ELSE AsRef(e.parts[i])]))
    \o AliasInSQL(e, mode)

Else(e) == When(e.else # Nil, IF IsNil(e.else) THEN <<Invalid>> ELSE <<Text(<<"ELSE">>), AsSQL(e.else)>>)
Branch(when, then) == <<Text(<<"WHEN">>), when, Text(<<"THEN">>), AsSQL(then)>>

CasePieces(e) ==
    LET p == e.parts
    IN  When(p = <<>>, <<Invalid>>) \o <<Text(<<"CASE">>)>>
        \o FlattenSeq([i \in 1 .. Len(p) \div 2 |->
               IF IsNil(p[2*i - 1]) \/ IsNil(p[2*i]) THEN <<Invalid>>
               ELSE Branch(AsSQL(p[2*i - 1]), p[2*i])])
        \o Else(e) \o <<Text(<<"END">>)>> \o Alias(e)

SimpleCasePieces(e) ==
    LET p == Rest(e)
    IN  When(IsNil(e.parts[1]) \/ p = <<>>, <<Invalid>>) \o <<Text(<<"CASE">>), AsRef(e.parts[1])>>
        \o FlattenSeq([i \in 1 .. Len(p) \div 2 |->
               IF IsNil(p[2*i]) THEN <<Invalid>> ELSE Branch(p[2*i - 1], p[2*i])])
        \o Else(e) \o <<Text(<<"END">>)>> \o Alias(e)

FuncPieces(e, mode) ==
    <<Keyword(e)>> \o Parens(Listed(",", [i \in DOMAIN e.parts |->
                                            IF IsNil(e.parts[i]) THEN Invalid ELSE AsSQL(e.parts[i])]))
    \o AliasInSQL(e, mode)

ArithPieces(e, mode) ==
    When(\E p \in {1, 2} : IsNil(e.parts[p]), <<Invalid>>) \o
    Parens(<<AsRef(e.parts[1]), Keyword(e), AsRef(e.parts[2])>>) \o AliasInSQL(e, mode)

AggPieces(e) ==
    <<Keyword(e)>> \o Parens(When(e.k = "agg distinct", <<Text(<<"DISTINCT">>)>>)
                             \o (IF e.parts = <<>> THEN <<Text(<<"*">>)>> ELSE <<AsRef(e.parts[1])>>))
    \o Alias(e)

WindowPieces(e, d) ==
    LET RefOrFail(c) == IF IsNil(c) THEN Invalid ELSE AsRef(c)
    IN  When(~d.windows, <<Unsupported>>) \o <<Keyword(e)>>
        \o Parens(When(e.parts # <<>>, Listed(",", [i \in DOMAIN e.parts |-> AsRef(e.parts[i])] \o e.vals)))
        \o <<Text(<<"OVER">>)>>
        \o Parens(When(e.partition # <<>>,
                       <<Text(<<"PARTITION BY">>)>>
                       \o Listed(",", [i \in DOMAIN e.partition |-> RefOrFail(e.partition[i])]))
                  \o When(e.order # <<>>, <<Text(<<"ORDER BY">>)>> \o Listed(",", e.order)))
        \o Alias(e)

\* AliasedCol: the reference to its column; its alias in the SELECT list.
AliasedPieces(e, mode) ==
    When(IsNil(e.parts[1]), <<Invalid>>) \o <<AsRef(e.parts[1])>> \o AliasInSQL(e, mode)

OrderPieces(e) ==
    When(IsNil(e.parts[1]), <<Invalid>>) \o <<AsRef(e.parts[1]), Keyword(e)>> \o When(e.nulls # "", <<Text(<<e.nulls>>)>>)

\* ORDER BY of a set operation: the name alone where the column has a table.
UnqualifiedPieces(e) ==
    LET ref == e.parts[1]
    IN  When(IsNil(ref), <<Invalid>>)
        \o <<AsBare(ref), Keyword(e)>>
        \o When(e.nulls # "", <<Text(<<e.nulls>>)>>)

ExpressionPieces(e, mode, d) ==
    CASE e.k = "raw"         -> <<Keyword(e)>>
      [] e.k = "raw args"    -> RawArgsPieces(e)
      [] e.k = "col"         -> ColPieces(e)
      [] e.k = "logic"       -> LogicPieces(e)
      [] e.k = "not"         -> NotPieces(e)
      [] e.k = "binary"      -> BinaryPieces(e)
      [] e.k = "columns"     -> ColumnsPieces(e)
      [] e.k = "null"        -> NullPieces(e)
      [] e.k = "between"     -> BetweenPieces(e)
      [] e.k = "list"        -> ListPieces(e)
      [] e.k = "like"        -> LikePieces(e)
      [] e.k = "nav"         -> NavPieces(e)
      [] e.k = "contains"    -> ContainsPieces(e)
      [] e.k \in {"key", "no key"} -> KeyPieces(e)
      [] e.k = "path"        -> PathPieces(e)
      [] e.k = "flip"        -> FlipPieces(e)
      [] e.k = "regexp"      -> RegexpPieces(e, d)
      [] e.k = "match"       -> MatchPieces(e, d)
      [] e.k = "tsquery"     -> TsQueryPieces(e, d)
      [] e.k = "tsvector"    -> TsvectorPieces(e, mode, d)
      [] e.k = "case"        -> CasePieces(e)
      [] e.k = "simple case" -> SimpleCasePieces(e)
      [] e.k = "func"        -> FuncPieces(e, mode)
      [] e.k = "arith"       -> ArithPieces(e, mode)
      [] e.k \in {"agg", "agg distinct"} -> AggPieces(e)
      [] e.k = "window"      -> WindowPieces(e, d)
      [] e.k = "aliased"     -> AliasedPieces(e, mode)
      [] e.k = "order"       -> OrderPieces(e)

================================================================================
