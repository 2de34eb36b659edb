-------------------------------- MODULE Queries ---------------------------------
(***************************************************************************)
(* Package query: the five builders as records, and what Build writes for  *)
(* each of them, piece by piece, in the order of the code: a failing check *)
(* stands where the code makes it, behind whatever was written before.     *)
(***************************************************************************)
EXTENDS Expressions

Table(name, alias)        == [k |-> "table", name |-> name, alias |-> alias]
CTERef(name)              == Table(name, name)
FromSubquery(sub, alias)  == [k |-> "subquery", name |-> alias, alias |-> alias, sub |-> sub]

Select(cols) ==
    [kind |-> "select", ctes |-> <<>>, distinct |-> FALSE, distinctOn |-> <<>>, cols |-> cols,
     from |-> Nil, joins |-> <<>>, where |-> Nil, groupBy |-> <<>>, having |-> Nil,
     orderBy |-> <<>>, limit |-> 0, offset |-> 0, lockStrength |-> "", lockOpts |-> <<>>,
     lockOf |-> <<>>, lockOfSet |-> FALSE]
InsertInto(t) ==
    [kind |-> "insert", table |-> t, colNames |-> <<>>, rows |-> <<>>, returning |-> <<>>,
     upsert |-> Nil, ignoreConflict |-> FALSE, buildErr |-> FALSE]
Update(t) ==
    [kind |-> "update", table |-> t, sets |-> <<>>, where |-> Nil, returning |-> <<>>,
     limit |-> 0, buildErr |-> FALSE]
DeleteFrom(t) == [kind |-> "delete", table |-> t, where |-> Nil, returning |-> <<>>, limit |-> 0]
SetPart(op, sel) == [op |-> op, sel |-> sel]
NewSetOp(left, op, right) ==
    [kind |-> "setop", parts |-> <<SetPart("", left), SetPart(op, right)>>, orderBy |-> <<>>,
     limit |-> 0, offset |-> 0]

\* A SELECT inside another statement renders into the same BuildContext.
Sub(sel) == IF IsNil(sel) THEN Invalid ELSE [k |-> "select", of |-> sel]

Exists(sub)             == [k |-> "exists", op |-> "EXISTS", parts |-> <<>>, sub |-> sub]
NotExists(sub)          == [k |-> "exists", op |-> "NOT EXISTS", parts |-> <<>>, sub |-> sub]
SubqueryIn(col, sub)    == [k |-> "in select", op |-> "IN", parts |-> <<col>>, sub |-> sub]
SubqueryNotIn(col, sub) == [k |-> "in select", op |-> "NOT IN", parts |-> <<col>>, sub |-> sub]

--------------------------------------------------------------------------------
(* Clauses                                                                   *)

IsWindowFunction(c) == c.k = "window" \/ (c.k = "aliased" /\ c.parts[1].k = "window")

SelectCol(c) == IF IsNil(c) THEN Invalid ELSE AsSQL(c)
\* distinctColSQL: one level of AliasedCol is unwrapped, so that its alias is not written.
DistinctCol(c) == IF c.k = "aliased" THEN SelectCol(c.parts[1]) ELSE SelectCol(c)

ExistsPieces(e)   == <<Keyword(e)>> \o Parens(<<Sub(e.sub)>>)
InSelectPieces(e) == <<DistinctCol(e.parts[1]), Keyword(e)>> \o Parens(<<Sub(e.sub)>>)

\* A mutation names its table only, but Quote still looks at the alias.
QuoteTableSource(t) ==
    IF IsNil(t) THEN <<Invalid>> ELSE <<Name(t.name)>> \o When(t.alias # t.name, <<Check(t.alias)>>)

SourcePieces(t) ==
    QuoteTableSource(t) \o When(~IsNil(t) /\ t.alias # t.name, <<Text(<<"AS">>), Name(t.alias)>>)

FromPieces(b) ==
    When(b.from # Nil,
         <<Text(<<"FROM">>)>>
         \o (IF b.from.k = "subquery"
             THEN Parens(<<Sub(b.from.sub)>>) \o <<Text(<<"AS">>), Name(b.from.alias)>>
             ELSE SourcePieces(b.from)))

Unless(supported) == When(~supported, <<Unsupported>>)
InvalidIf(cond)   == When(cond, <<Invalid>>)

JoinKinds == {"INNER JOIN", "LEFT JOIN", "RIGHT JOIN", "FULL JOIN", "CROSS JOIN"}

JoinPieces(b, d) ==
    FlattenSeq([i \in DOMAIN b.joins |->
        LET j == b.joins[i]
        IN  Unless(j.kind = "RIGHT JOIN" => d.rightJoin) \o Unless(j.kind = "FULL JOIN" => d.fullJoin)
            \o InvalidIf(j.kind # "CROSS JOIN" /\ IsNil(j.on))
            \o <<Text(<<j.kind>>)>> \o SourcePieces(j.table)
            \o When(j.kind # "CROSS JOIN", <<Text(<<"ON">>), AsSQL(j.on)>>)])

BuildWhere(where) ==
    When(where # Nil, InvalidIf(IsNil(where)) \o <<Text(<<"WHERE">>), AsSQL(where)>>)

BuildOrderBy(es) == When(es # <<>>, <<Text(<<"ORDER BY">>)>> \o Listed(",", [i \in DOMAIN es |-> AsSQL(es[i])]))
BuildSetOpOrderBy(es) ==
    When(es # <<>>, <<Text(<<"ORDER BY">>)>>
                    \o Separated(",", [i \in DOMAIN es |-> UnqualifiedPieces(es[i])]))

CtePieces(c) ==
    <<Name(c.name), Text(<<"AS">>)>>
    \o Parens(IF c.anchor # Nil
              THEN InvalidIf(c.recursive = Nil)
                   \o <<Sub(c.anchor), Text(<<"UNION ALL">>), Sub(c.recursive)>>
              ELSE <<Sub(c.sub)>>)

WithPieces(b, d) ==
    LET recursive == \E i \in DOMAIN b.ctes : b.ctes[i].anchor # Nil
    IN  When(b.ctes # <<>>,
             Unless(d.cte) \o <<Text(<<IF recursive THEN "WITH RECURSIVE" ELSE "WITH">>)>>
             \o Separated(",", [i \in DOMAIN b.ctes |-> CtePieces(b.ctes[i])]))

DistinctPieces(b, d) ==
    When(b.distinct,
         IF b.distinctOn = <<>> THEN <<Text(<<"DISTINCT">>)>>
         ELSE Unless(d.distinctOn) \o <<Text(<<"DISTINCT ON">>)>>
              \o Parens(Listed(",", [i \in DOMAIN b.distinctOn |-> DistinctCol(b.distinctOn[i])])))

ColumnsOfSelect(b, d) ==
    IF b.cols = <<>> THEN <<Text(<<"*">>)>>
    ELSE Separated(",", [i \in DOMAIN b.cols |->
             When(~IsNil(b.cols[i]), Unless(IsWindowFunction(b.cols[i]) => d.windows))
             \o <<SelectCol(b.cols[i])>>])

GroupByPieces(b) ==
    When(b.groupBy # <<>>, <<Text(<<"GROUP BY">>)>>
                           \o Listed(",", [i \in DOMAIN b.groupBy |-> DistinctCol(b.groupBy[i])]))
HavingPieces(b) ==
    When(b.having # Nil, InvalidIf(IsNil(b.having)) \o <<Text(<<"HAVING">>), AsSQL(b.having)>>)

LimitPieces(b)  == When(b.limit > 0, <<Text(<<"LIMIT">>)>>)
OffsetPieces(b) == When(b.offset > 0, <<Text(<<"OFFSET">>)>>)

\* validateLockSource: a locked table goes by the alias of a source of the query.
ActiveLockSource(b, t) ==
    /\ ~IsNil(t)
    /\ \/ ~IsNil(b.from) /\ b.from.alias = t.alias
       \/ \E i \in DOMAIN b.joins : ~IsNil(b.joins[i].table) /\ b.joins[i].table.alias = t.alias

LockStrengths == {"FOR UPDATE", "FOR NO KEY UPDATE", "FOR SHARE", "FOR KEY SHARE"}
LockOptions   == {"NOWAIT", "SKIP LOCKED"}

LockPieces(b, d) ==
    LET keys    == b.lockStrength \in {"FOR NO KEY UPDATE", "FOR KEY SHARE"}
        keyword == IF b.lockStrength = "FOR SHARE" THEN d.forShare ELSE b.lockStrength
        opts    == b.lockOpts
    IN  IF b.lockStrength = "" THEN InvalidIf(b.lockOfSet)
        ELSE InvalidIf(b.lockStrength \notin LockStrengths)
             \o InvalidIf(~IsInjective(opts) \/ \E i \in DOMAIN opts : opts[i] \notin LockOptions)
             \o InvalidIf(b.lockOfSet /\ b.lockOf = <<>>)
             \o Unless(d.forUpdate) \o Unless(keys => d.noKeyUpdate)
             \o <<Text(<<keyword>>)>>
             \o Unless(~keys /\ b.lockOf # <<>> => d.forShareOf)
             \o When(b.lockOf # <<>>,
                     <<Text(<<"OF">>)>>
                     \o Listed(",", [i \in DOMAIN b.lockOf |->
                                       IF ActiveLockSource(b, b.lockOf[i]) THEN Name(b.lockOf[i].alias)
                                       ELSE Invalid]))
             \o <<Text(opts)>>

\* buildWith
SelectPieces(b, d) ==
    InvalidIf(b.limit < 0 \/ b.offset < 0)
    \o WithPieces(b, d) \o <<Text(<<"SELECT">>)>> \o DistinctPieces(b, d) \o ColumnsOfSelect(b, d)
    \o FromPieces(b) \o JoinPieces(b, d) \o BuildWhere(b.where) \o GroupByPieces(b) \o HavingPieces(b)
    \o BuildOrderBy(b.orderBy) \o LimitPieces(b) \o OffsetPieces(b) \o LockPieces(b, d)

SetOpPieces(b) ==
    InvalidIf(Len(b.parts) < 2 \/ b.limit < 0 \/ b.offset < 0)
    \o FlattenSeq([i \in DOMAIN b.parts |->
           When(i > 1, InvalidIf(b.parts[i].op = "") \o <<Text(<<b.parts[i].op>>)>>)
           \o Parens(<<Sub(b.parts[i].sel)>>)])
    \o BuildSetOpOrderBy(b.orderBy) \o LimitPieces(b) \o OffsetPieces(b)

--------------------------------------------------------------------------------
(* Mutations                                                                 *)

\* Mutant: RETURNING is written for every dialect.
ReturningUngated(b, d) ==
    When(b.returning # <<>>,
         <<Text(<<"RETURNING">>)>> \o Listed(",", [i \in DOMAIN b.returning |-> SelectCol(b.returning[i])]))
Returning(b, d) ==
    When(b.returning # <<>>,
         Unless(d.returning) \o <<Text(<<"RETURNING">>)>>
         \o Listed(",", [i \in DOMAIN b.returning |-> SelectCol(b.returning[i])]))

Assignments(sets) == [i \in DOMAIN sets |-> <<Name(sets[i].col), Text(<<"=">>), Lit(sets[i].val)>>]

MutationLimit(b, d) == When(b.limit > 0, Unless(d.limitOnMutate) \o <<Text(<<"LIMIT">>)>>)

UpdatePieces(b, d) ==
    InvalidIf(b.limit < 0)
    \o <<Text(<<"UPDATE">>)>> \o QuoteTableSource(b.table) \o <<Text(<<"SET">>)>>
    \o InvalidIf(b.sets = <<>>) \o Separated(",", Assignments(b.sets))
    \o BuildWhere(b.where) \o MutationLimit(b, d) \o Returning(b, d)

DeletePieces(b, d) ==
    InvalidIf(b.limit < 0) \o <<Text(<<"DELETE FROM">>)>> \o QuoteTableSource(b.table)
    \o BuildWhere(b.where) \o MutationLimit(b, d) \o Returning(b, d)

NoUpsert == [conflictCols |-> <<>>, conflictConstraint |-> "", conflictTargetSet |-> FALSE,
             doNothing |-> FALSE, sets |-> <<>>, excluded |-> <<>>]

BuildOnConflict(u) ==
    LET Excluded(c) == <<Name(c), Text(<<"= EXCLUDED.">>), Name(c)>>
    IN  InvalidIf(u.conflictTargetSet /\ u.conflictCols = <<>> /\ u.conflictConstraint = "")
        \o InvalidIf(~u.doNothing /\ ~u.conflictTargetSet)
        \o <<Text(<<"ON CONFLICT">>)>>
        \o (IF u.conflictCols # <<>>
            THEN Parens(Listed(",", [i \in DOMAIN u.conflictCols |-> Name(u.conflictCols[i])]))
            ELSE When(u.conflictConstraint # "",
                      <<Text(<<"ON CONSTRAINT">>), Name(u.conflictConstraint)>>))
        \o (IF u.doNothing THEN <<Text(<<"DO NOTHING">>)>>
            ELSE InvalidIf(u.sets = <<>> /\ u.excluded = <<>>) \o <<Text(<<"DO UPDATE SET">>)>>
                 \o Separated(",", Assignments(u.sets)
                                   \o [i \in DOMAIN u.excluded |-> Excluded(u.excluded[i])]))

BuildOnDuplicateKey(u) ==
    LET Proposed(c) == <<Name(c), Text(<<"= VALUES">>)>> \o Parens(<<Name(c)>>)
    IN  Unless(~u.conflictTargetSet) \o Unless(~u.doNothing)
        \o InvalidIf(u.sets = <<>> /\ u.excluded = <<>>)
        \o <<Text(<<"ON DUPLICATE KEY UPDATE">>)>>
        \o Separated(",", Assignments(u.sets)
                          \o [i \in DOMAIN u.excluded |-> Proposed(u.excluded[i])])

InsertKeyword(b, d) ==
    IF ~b.ignoreConflict THEN <<Text(<<"INSERT INTO">>)>>
    ELSE Unless(d.ignoreConflicts)
         \o (IF d.upsert = "on_conflict" THEN <<Text(<<"INSERT INTO">>)>>
             ELSE Unless(d.insertIgnore # "") \o <<Text(<<d.insertIgnore, "INTO">>)>>)

UpsertPieces(b, d) ==
    When(b.ignoreConflict /\ d.upsert = "on_conflict", BuildOnConflict([NoUpsert EXCEPT !.doNothing = TRUE]))
    \o When(b.upsert # Nil,
            CASE d.upsert = "on_conflict"   -> BuildOnConflict(b.upsert)
              [] d.upsert = "duplicate_key" -> BuildOnDuplicateKey(b.upsert)
              [] OTHER                      -> <<Unsupported>>)

InsertPieces(b, d) ==
    LET Row(r) == InvalidIf(Len(r) # Len(b.colNames)) \o Parens(Listed(",", [i \in DOMAIN r |-> Lit(r[i])]))
    IN  InvalidIf(b.colNames = <<>> \/ b.rows = <<>>)
        \o InvalidIf(b.ignoreConflict /\ b.upsert # Nil)
        \o InsertKeyword(b, d) \o QuoteTableSource(b.table)
        \o Parens(Listed(",", [i \in DOMAIN b.colNames |-> Name(b.colNames[i])]))
        \o <<Text(<<"VALUES">>)>> \o Separated(",", [i \in DOMAIN b.rows |-> Row(b.rows[i])])
        \o UpsertPieces(b, d) \o Returning(b, d)

\* The error that a call has left comes before anything else.
KeptError(b) == b.kind \in {"insert", "update"} /\ b.buildErr
BuilderPieces(b, d) ==
    IF KeptError(b) THEN <<Invalid>>
    ELSE CASE b.kind = "select" -> SelectPieces(b, d)
           [] b.kind = "setop"  -> SetOpPieces(b)
           [] b.kind = "insert" -> InsertPieces(b, d)
           [] b.kind = "update" -> UpdatePieces(b, d)
           [] b.kind = "delete" -> DeletePieces(b, d)

--------------------------------------------------------------------------------
(* Structs                                                                   *)

\* The elements at some places of a sequence.
Chosen(s, places) == FlattenSeq([i \in DOMAIN s |-> When(i \in places, <<s[i]>>)])

\* A field has its column (from the db tag; "-" leaves it out), what its type is
\* ("plain", "pointer", "slice"), its option and its value; Absent is a nil pointer
\* or an empty slice.
Absent == "absent"
Tagged(row) == Chosen(row.fields, {i \in DOMAIN row.fields : row.fields[i].col # "-"})

\* Both readers of structs refuse the same inputs.
BadStruct(row) ==
    \/ IsNil(row) \/ row.k # "struct"
    \/ LET fs == Tagged(row)
       IN  \/ \E i \in DOMAIN fs : ~fs[i].exported \/ fs[i].col = "" \/ fs[i].option \notin {"", "omitempty"}
           \/ ~IsInjective([i \in DOMAIN fs |-> fs[i].col])

Fields(err, fs, Value(_)) ==
    [err |-> err, cols |-> [i \in DOMAIN fs |-> fs[i].col], vals |-> [i \in DOMAIN fs |-> Value(fs[i])]]

\* A nil pointer becomes NULL, unless its tag says omitempty.
StructToColVals(row) ==
    LET IsEmptyValue(f) == f.kind \in {"pointer", "slice"} /\ f.v = Absent
        Value(f)        == IF f.kind = "pointer" /\ f.v = Absent THEN "NULL" ELSE f.v
        fs              == Tagged(row)
    IN  IF BadStruct(row) THEN Fields(TRUE, <<>>, Value)
        ELSE Fields(FALSE, Chosen(fs, {i \in DOMAIN fs : ~(fs[i].option = "omitempty" /\ IsEmptyValue(fs[i]))}),
                    Value)

\* A nil pointer leaves the column unchanged.
StructSetsForUpdate(row) ==
    LET Value(f) == f.v
        fs       == Tagged(row)
    IN  IF BadStruct(row) THEN Fields(TRUE, <<>>, Value)
        ELSE Fields(FALSE, Chosen(fs, {i \in DOMAIN fs : ~(fs[i].kind = "pointer" /\ fs[i].v = Absent)}), Value)

================================================================================
