-------------------------------- MODULE Builders --------------------------------
(***************************************************************************)
(* Programs that build queries: every method call makes a new builder from *)
(* one that exists, and any of them can be extended again or built.        *)
(*                                                                         *)
(* A builder is a value, except for the assignments of an upsert clause:   *)
(* these are a Go slice, an array on the heap and a length, which copies   *)
(* of the clause share.                                                    *)
(***************************************************************************)
EXTENDS Queries

CONSTANTS
    Starts,        \* programs: their first builders, their heap, the calls they may make
    Dialects,      \* the dialects every builder is built for
    ColumnLists,   \* arguments of DistinctOn, GroupBy and Returning
    Conditions,    \* arguments of Where, And and Having
    Joined,        \* joins: kind, table and condition
    Sources,       \* arguments of From
    Orders,        \* arguments of OrderBy
    Counts,        \* arguments of Limit and Offset
    Locking,       \* arguments of For: a strength and options
    LockTables,    \* arguments of Of
    KeyLists,      \* arguments of Preload: the values of the foreign keys
    KeyColumn,     \* the column that Preload matches
    Rows,          \* arguments of Values, SetStruct and DoUpdateSetStruct
    Slices,        \* arguments of ValueSlice
    Assigned,      \* column and value of Set and DoUpdateSet
    Targets,       \* columns of a conflict target, and of DoUpdateSetExcluded
    Aliasing,      \* whether DoUpdateSetStruct may meet an array that is already longer than its slice
    Rendered(_, _) \* what the pieces of a statement render to in a dialect (Rendering)

VARIABLES
    built,   \* the builders, in the order they were made
    heap,    \* the arrays of upsert assignments
    said,    \* of each builder: the call that made it and what the calls up to it asked for
    out,     \* what Build returned for the newest builder, for each dialect; empty before
    left     \* calls the program may still make

vars == <<built, heap, said, out, left>>

--------------------------------------------------------------------------------
(* Slices                                                                    *)

Unset    == [col |-> "", val |-> ""]
NilSlice == [arr |-> 0, len |-> 0]

SliceOf(h, s) == IF s.arr = 0 THEN <<>> ELSE SubSeq(h[s.arr], 1, s.len)
Room(h, s)    == s.arr # 0 /\ s.len < Len(h[s.arr])

\* append(append([]T(nil), s...), x): a copy, with room for twice as much.
Spare(len) == When(len > 1, [i \in 1 .. len - 1 |-> Unset])
AppendToCopy(h, s, x) ==
    LET new == Append(SliceOf(h, s), x) \o Spare(s.len)
    IN  [heap |-> Append(h, new), slice |-> [arr |-> Len(h) + 1, len |-> s.len + 1]]

\* append(s, x): in place while the array has room.
AppendInPlace(h, s, x) ==
    IF Room(h, s)
    THEN [heap |-> [h EXCEPT ![s.arr][s.len + 1] = x], slice |-> [s EXCEPT !.len = s.len + 1]]
    ELSE AppendToCopy(h, s, x)

\* The cells behind the last assignment of an array are empty, and those of a slice are not.
ArrayShape(a) ==
    a \in Seq(ToSet(a)) /\ \A k, l \in DOMAIN a : a[k] = Unset /\ k < l => a[l] = Unset
SliceShape(h, s) ==
    \/ s = NilSlice
    \/ /\ DOMAIN s = {"arr", "len"} /\ s.arr \in DOMAIN h /\ s.len \in 0 .. Len(h[s.arr])
       /\ \A k \in 1 .. s.len : h[s.arr][k] # Unset

\* The builder as Build sees it.
View(b, h) ==
    IF b.kind = "insert" /\ b.upsert # Nil THEN [b EXCEPT !.upsert.sets = SliceOf(h, b.upsert.sets)] ELSE b

\* A builder as the package makes it: joins of a known kind, rows as wide as the column
\* list or, from structs without columns, empty.
BuilderShape(b, h) ==
    /\ b.kind \in {"select", "insert", "update", "delete", "setop"}
    /\ b.kind = "select" =>
          /\ DOMAIN b = DOMAIN Select(<<>>) /\ b.joins \in Seq(ToSet(b.joins))
          /\ \A j \in DOMAIN b.joins : b.joins[j].kind \in JoinKinds
    /\ b.kind = "insert" =>
          /\ DOMAIN b = DOMAIN InsertInto(Nil) /\ b.rows \in Seq(ToSet(b.rows))
          /\ \A r \in DOMAIN b.rows : Len(b.rows[r]) \in {0, Len(b.colNames)}
          /\ b.upsert # Nil => DOMAIN b.upsert = DOMAIN NoUpsert /\ SliceShape(h, b.upsert.sets)
    /\ b.kind = "update" => DOMAIN b = DOMAIN Update(Nil)
    /\ b.kind = "delete" => DOMAIN b = DOMAIN DeleteFrom(Nil)
    /\ b.kind = "setop" => DOMAIN b = DOMAIN NewSetOp(Nil, "", Nil)

\* Programs start with builders the package can have made, and structs have fields.  No
\* call assigns the empty value to the empty name, and a statement that is invalid from
\* the start fails.
RowShape(row) == ~IsNil(row) /\ row.k = "struct" => row.fields \in Seq(ToSet(row.fields))
ASSUME BuildersAssumption ==
    /\ \A s \in Starts :
         /\ s.calls \in Nat /\ s.built # <<>> /\ s.built \in Seq(ToSet(s.built)) /\ s.heap \in Seq(ToSet(s.heap))
         /\ \A a \in DOMAIN s.heap : ArrayShape(s.heap[a])
         /\ \A i \in DOMAIN s.built :
              /\ BuilderShape(s.built[i], s.heap)
              /\ s.built[i].kind \in {"insert", "update"} => s.built[i].buildErr \in BOOLEAN
    /\ \A j \in Joined : j.kind \in JoinKinds
    /\ \A row \in Rows : RowShape(row)
    /\ \A rows \in Slices : rows \in Seq(ToSet(rows)) /\ \A k \in DOMAIN rows : RowShape(rows[k])
    /\ Unset \notin Assigned
    /\ \A d \in Dialects : Rendered(<<Invalid>>, d).err # ""

--------------------------------------------------------------------------------
(* Calls                                                                     *)

Of(kinds) == {i \in DOMAIN built : built[i].kind \in kinds}

NotBuilt == <<>>

\* The call makes builder b out of builder i.
Make(b, h, s) ==
    /\ left > 0
    /\ left' = left - 1
    /\ built' = Append(built, b)
    /\ heap' = h
    /\ said' = Append(said, s)
    /\ out' = NotBuilt

Called(i, name) == [said[i] EXCEPT !.from = i, !.call = name]
Call(i, name, b) == Make(b, heap, Called(i, name))

Distinct   == \E i \in Of({"select"}) : Call(i, "Distinct", [built[i] EXCEPT !.distinct = TRUE])
DistinctOn == \E i \in Of({"select"}), cols \in ColumnLists :
    Call(i, "DistinctOn", [built[i] EXCEPT !.distinct = TRUE, !.distinctOn = @ \o cols])
For  == \E i \in Of({"select"}), l \in Locking :
    Call(i, "For", [built[i] EXCEPT !.lockStrength = l.strength, !.lockOpts = l.opts])
\* ForUpdate, ForShare, ForNoKeyUpdate and ForKeyShare.
LockShorthands == \E i \in Of({"select"}), s \in LockStrengths :
    Call(i, "For", [built[i] EXCEPT !.lockStrength = s, !.lockOpts = <<>>])
LockOf == \E i \in Of({"select"}), ts \in LockTables :
    Call(i, "Of", [built[i] EXCEPT !.lockOf = @ \o ts, !.lockOfSet = TRUE])
With == \E i \in Of({"select"}), j \in Of({"select"}) :
    Call(i, "With", [built[i] EXCEPT !.ctes = Append(@,
        [name |-> "cte", sub |-> built[j], anchor |-> Nil, recursive |-> Nil])])
WithRecursive == \E i \in Of({"select"}), j \in Of({"select"}) :
    \E rec \in {built[j], Nil} :
        Call(i, "WithRecursive", [built[i] EXCEPT !.ctes = Append(@,
            [name |-> "tree", sub |-> Nil, anchor |-> built[j], recursive |-> rec])])
From == \E i \in Of({"select"}), t \in Sources : Call(i, "From", [built[i] EXCEPT !.from = t])
FromSelect == \E i \in Of({"select"}), j \in Of({"select"}) :
    Call(i, "From", [built[i] EXCEPT !.from = FromSubquery(built[j], "sub")])
Join == \E i \in Of({"select"}), j \in Joined : Call(i, "Join", [built[i] EXCEPT !.joins = Append(@, j)])
SelectOrderBy == \E i \in Of({"select"}), es \in Orders : Call(i, "OrderBy", [built[i] EXCEPT !.orderBy = es])
GroupBy == \E i \in Of({"select"}), cols \in ColumnLists : Call(i, "GroupBy", [built[i] EXCEPT !.groupBy = cols])
Having  == \E i \in Of({"select"}), e \in Conditions : Call(i, "Having", [built[i] EXCEPT !.having = e])
SelectLimit == \E i \in Of({"select"}), n \in Counts : Call(i, "Limit", [built[i] EXCEPT !.limit = n])
SelectOffset == \E i \in Of({"select"}), n \in Counts : Call(i, "Offset", [built[i] EXCEPT !.offset = n])

\* Where replaces the condition, And adds one.
SetWhere(b, e)   == [b EXCEPT !.where = e]
AndWhere(b, e)   == SetWhere(b, And(<<b.where, e>>))
WhereOn(kind, name) == \E i \in Of({kind}), e \in Conditions :
    Make(SetWhere(built[i], e), heap, [Called(i, name) EXCEPT !.conds = <<e>>])
AndOn(kind, name) == \E i \in Of({kind}), e \in Conditions :
    Make(AndWhere(built[i], e), heap, [Called(i, name) EXCEPT !.conds = Append(@, e)])

SelectWhere == WhereOn("select", "Where")
SelectAnd   == AndOn("select", "And")
UpdateWhere == WhereOn("update", "Where")
UpdateAnd   == AndOn("update", "And")
DeleteWhere == WhereOn("delete", "Where")
DeleteAnd   == AndOn("delete", "And")

\* EXISTS and IN over another query, as a further condition.
AndExists == \E i \in Of({"select", "update", "delete"}), j \in Of({"select"}) :
    \E e \in {Exists(built[j]), NotExists(built[j])} :
        Make(AndWhere(built[i], e), heap, [Called(i, "And") EXCEPT !.conds = Append(@, e)])
AndIn == \E i \in Of({"select", "update", "delete"}), j \in Of({"select"}) :
    \E e \in {SubqueryIn(KeyColumn, built[j]), SubqueryNotIn(KeyColumn, built[j])} :
        Make(AndWhere(built[i], e), heap, [Called(i, "And") EXCEPT !.conds = Append(@, e)])

\* PreloadUUIDs and PreloadStrings go through Where.
PreloadCondition(keys) == IF keys = <<>> THEN Raw(<<"FALSE">>) ELSE InList(KeyColumn, "IN", keys)
Preload == \E i \in Of({"select"}), keys \in KeyLists :
    Make(SetWhere(built[i], PreloadCondition(keys)), heap,
         [Called(i, "Preload") EXCEPT !.conds = <<PreloadCondition(keys)>>])

SetOperators == {"UNION", "UNION ALL", "INTERSECT", "EXCEPT"}
SetOperation == \E i \in Of({"select"}), j \in Of({"select"}), op \in SetOperators :
    Make(NewSetOp(built[i], op, built[j]), heap, [Called(i, op) EXCEPT !.conds = <<>>])
AddPart == \E i \in Of({"setop"}), j \in Of({"select"}), op \in SetOperators :
    Call(i, op, [built[i] EXCEPT !.parts = Append(@, SetPart(op, built[j]))])
SetOpOrderBy == \E i \in Of({"setop"}), es \in Orders : Call(i, "OrderBy", [built[i] EXCEPT !.orderBy = es])
SetOpLimit  == \E i \in Of({"setop"}), n \in Counts : Call(i, "Limit", [built[i] EXCEPT !.limit = n])
SetOpOffset == \E i \in Of({"setop"}), n \in Counts : Call(i, "Offset", [built[i] EXCEPT !.offset = n])

--------------------------------------------------------------------------------
(* Calls on mutations                                                        *)

Pairs(r) == [k \in DOMAIN r.cols |-> [col |-> r.cols[k], val |-> r.vals[k]]]

\* Mutant: a struct that can be read clears the error of an earlier one.
SetStructOfForgets(b, row) ==
    LET r == StructSetsForUpdate(row)
    IN  [b EXCEPT !.buildErr = r.err, !.sets = @ \o Pairs(r)]
\* The first error stays, and with it what was set before.
SetStructOf(b, row) ==
    LET r == StructSetsForUpdate(row)
    IN  IF r.err THEN [b EXCEPT !.buildErr = TRUE] ELSE [b EXCEPT !.sets = @ \o Pairs(r)]

UpdateSet == \E i \in Of({"update"}), a \in Assigned : Call(i, "Set", [built[i] EXCEPT !.sets = Append(@, a)])
UpdateSetStruct == \E i \in Of({"update"}), row \in Rows :
    Make(SetStructOf(built[i], row), heap,
         [Called(i, "SetStruct") EXCEPT !.bad = @ \/ BadStruct(row)])
UpdateLimit == \E i \in Of({"update"}), n \in Counts : Call(i, "Limit", [built[i] EXCEPT !.limit = n])
UpdateReturning == \E i \in Of({"update"}), cols \in ColumnLists :
    Call(i, "Returning", [built[i] EXCEPT !.returning = cols])
DeleteLimit == \E i \in Of({"delete"}), n \in Counts : Call(i, "Limit", [built[i] EXCEPT !.limit = n])
DeleteReturning == \E i \in Of({"delete"}), cols \in ColumnLists :
    Call(i, "Returning", [built[i] EXCEPT !.returning = cols])

\* Mutant: the columns of further rows are not looked at.
Uncompared(xs, ys) == TRUE
\* Mutant: only the number of columns is compared.
EqualLengths(xs, ys) == Len(xs) = Len(ys)
EqualStrings(xs, ys) == xs = ys

\* One row more, unless it is no struct or has other columns than the first.
ValuesOf(b, row) ==
    LET r == StructToColVals(row)
    IN  IF r.err \/ (b.colNames # <<>> /\ ~EqualStrings(b.colNames, r.cols)) THEN [b EXCEPT !.buildErr = TRUE]
        ELSE [b EXCEPT !.colNames = IF @ = <<>> THEN r.cols ELSE @, !.rows = Append(@, r.vals)]

\* The rows up to the first bad one: once one is missing, no other is looked at.
ValueSliceOf(b, rows) ==
    LET taken[n \in 0 .. Len(rows)] ==
            IF n = 0 THEN b
            ELSE IF Len(taken[n - 1].rows) < Len(b.rows) + n - 1 THEN taken[n - 1]
            ELSE ValuesOf(taken[n - 1], rows[n])
    IN  taken[Len(rows)]

Took(i, name, rows) ==
    [Called(i, name) EXCEPT !.rows = @ \o rows, !.bad = @ \/ \E k \in DOMAIN rows : BadStruct(rows[k])]
Values == \E i \in Of({"insert"}), row \in Rows : Make(ValuesOf(built[i], row), heap, Took(i, "Values", <<row>>))
ValueSlice == \E i \in Of({"insert"}), rows \in Slices :
    Make(ValueSliceOf(built[i], rows), heap, Took(i, "ValueSlice", rows))
\* A nil slice, or no slice at all.
ValueSliceOfNothing == \E i \in Of({"insert"}) :
    Make([built[i] EXCEPT !.buildErr = TRUE], heap, [Called(i, "ValueSlice") EXCEPT !.bad = TRUE])

UpsertCopy(b) == IF b.upsert = Nil THEN [NoUpsert EXCEPT !.sets = NilSlice] ELSE b.upsert

OnConflict == \E i \in Of({"insert"}), cols \in Targets :
    Call(i, "OnConflict", [built[i] EXCEPT !.upsert = [UpsertCopy(built[i]) EXCEPT
        !.conflictCols = cols, !.conflictConstraint = "", !.conflictTargetSet = TRUE]])
OnConflictConstraint == \E i \in Of({"insert"}) :
    Call(i, "OnConflictConstraint", [built[i] EXCEPT !.upsert = [UpsertCopy(built[i]) EXCEPT
        !.conflictCols = <<>>, !.conflictConstraint = "uq", !.conflictTargetSet = TRUE]])
DoNothing == \E i \in Of({"insert"}) :
    Call(i, "DoNothing", [built[i] EXCEPT !.upsert = [UpsertCopy(built[i]) EXCEPT
        !.doNothing = TRUE, !.sets = NilSlice, !.excluded = <<>>]])

Upserting(b, slice) == [b EXCEPT !.upsert = [UpsertCopy(b) EXCEPT !.doNothing = FALSE, !.sets = slice]]

\* Mutant: the assignments are appended to where they lie.
DoUpdateSetOfInPlace(h, b, a) ==
    LET grown == AppendInPlace(h, UpsertCopy(b).sets, a)
    IN  [heap |-> grown.heap, builder |-> Upserting(b, grown.slice)]
DoUpdateSetOf(h, b, a) ==
    LET grown == AppendToCopy(h, UpsertCopy(b).sets, a)
    IN  [heap |-> grown.heap, builder |-> Upserting(b, grown.slice)]
DoUpdateSet == \E i \in Of({"insert"}), a \in Assigned :
    LET r == DoUpdateSetOf(heap, built[i], a) IN Make(r.builder, r.heap, Called(i, "DoUpdateSet"))

DoUpdateSetExcluded == \E i \in Of({"insert"}), cols \in Targets :
    Call(i, "DoUpdateSetExcluded", [built[i] EXCEPT !.upsert = [UpsertCopy(built[i]) EXCEPT
        !.doNothing = FALSE, !.excluded = @ \o cols]])

DoUpdateSetStructOf(h, b, row) ==
    LET r     == StructSetsForUpdate(row)
        pairs == Pairs(r)
        grown[n \in 0 .. Len(pairs)] ==
            IF n = 0 THEN [heap |-> h, slice |-> UpsertCopy(b).sets]
            ELSE AppendInPlace(grown[n - 1].heap, grown[n - 1].slice, pairs[n])
    IN  IF r.err THEN [heap |-> h, builder |-> [b EXCEPT !.buildErr = TRUE]]
        ELSE [heap |-> grown[Len(pairs)].heap, builder |-> Upserting(b, grown[Len(pairs)].slice)]
\* Another builder's assignment lies in the array behind this one's last.
Overwrites(b) ==
    LET s == UpsertCopy(b).sets IN Room(heap, s) /\ heap[s.arr][s.len + 1] # Unset
DoUpdateSetStruct == \E i \in Of({"insert"}), row \in Rows :
    LET r == DoUpdateSetStructOf(heap, built[i], row)
    IN  /\ Aliasing \/ ~Overwrites(built[i])
        /\ Make(r.builder, r.heap, [Called(i, "DoUpdateSetStruct") EXCEPT !.bad = @ \/ BadStruct(row)])

IgnoreConflicts == \E i \in Of({"insert"}) :
    Call(i, "IgnoreConflicts", [built[i] EXCEPT !.ignoreConflict = TRUE])
InsertReturning == \E i \in Of({"insert"}), cols \in ColumnLists :
    Call(i, "Returning", [built[i] EXCEPT !.returning = cols])

Build(b, d) == Rendered(BuilderPieces(b, d), d)

\* Build, for every dialect; it may be called at any time, and leaves the builder as it is.
BuildNewest ==
    /\ out = NotBuilt
    /\ out' = [d \in Dialects |-> Build(View(built[Len(built)], heap), d)]
    /\ UNCHANGED <<built, heap, said, left>>

--------------------------------------------------------------------------------

\* What a builder that the program starts with was asked for.
SaidAtStart(b, rows) ==
    [from |-> 0, call |-> "", rows |-> rows, bad |-> FALSE,
     conds |-> When(b.kind \in {"select", "update", "delete"}, <<b.where>>)]

Init ==
    \E s \in Starts :
        /\ built = s.built
        /\ heap = s.heap
        /\ said = [i \in DOMAIN s.built |-> SaidAtStart(s.built[i], s.rows)]
        /\ out = NotBuilt
        /\ left = s.calls

Next ==
    \/ Distinct \/ DistinctOn \/ For \/ LockShorthands \/ LockOf \/ With \/ WithRecursive \/ From \/ FromSelect \/ Join
    \/ SelectOrderBy \/ GroupBy \/ Having \/ SelectLimit \/ SelectOffset \/ SelectWhere \/ SelectAnd
    \/ AndExists \/ AndIn \/ Preload \/ SetOperation \/ AddPart \/ SetOpOrderBy \/ SetOpLimit \/ SetOpOffset
    \/ UpdateSet \/ UpdateSetStruct \/ UpdateWhere \/ UpdateAnd \/ UpdateLimit \/ UpdateReturning
    \/ DeleteWhere \/ DeleteAnd \/ DeleteLimit \/ DeleteReturning
    \/ Values \/ ValueSlice \/ ValueSliceOfNothing \/ OnConflict \/ OnConflictConstraint \/ DoNothing
    \/ DoUpdateSet \/ DoUpdateSetExcluded \/ DoUpdateSetStruct \/ IgnoreConflicts \/ InsertReturning
    \/ BuildNewest

Spec == Init /\ [][Next]_vars

--------------------------------------------------------------------------------
(* Properties                                                                *)

Newest    == built[Len(built)]
Asked     == said[Len(said)]
Builds(d) == out # NotBuilt /\ out[d].err = ""

\* Type correctness: builders, the calls that made them and the results stay in step,
\* rows are as wide as their column list (or come from a struct without columns), joins
\* are of a known kind, and every slice of assignments lies within the filled part of its
\* array.
TypeOK ==
    /\ Len(said) = Len(built) /\ left \in Nat /\ DOMAIN out \in {{}, Dialects}
    /\ \A a \in DOMAIN heap : ArrayShape(heap[a])
    /\ \A i \in DOMAIN built : BuilderShape(built[i], heap) /\ said[i].from \in 0 .. i - 1

\* "Each method returns a new copy": no call changes what a builder made earlier
\* would build (select.go:36-38, query.go:2-3).
BuildersNeverChange ==
    [][\A i \in DOMAIN built : View(built'[i], heap') = View(built[i], heap)]_vars

\* An invalid row is never forgotten: whatever is called on the builder afterwards, and
\* on every builder made from it, Build fails (insert.go and update.go, buildErr).
ErrorsStick == Asked.bad => \A d \in Dialects : ~Builds(d)

================================================================================
