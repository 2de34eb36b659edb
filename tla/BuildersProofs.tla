----------------------------- MODULE BuildersProofs ------------------------------
(***************************************************************************)
(* Proofs about Builders for every program, every set of arguments and      *)
(* every dialect: its types, that no call but one changes what a builder    *)
(* made earlier builds, and that an invalid row is not forgotten.           *)
(***************************************************************************)
EXTENDS Builders, SequenceLemmas

--------------------------------------------------------------------------------
(* The invariant                                                             *)

\* What was asked for, and that an invalid row has left its error.
SaidShape(b, s) ==
    /\ DOMAIN s = {"from", "call", "rows", "bad", "conds"} /\ s.bad \in BOOLEAN
    /\ b.kind \in {"insert", "update"} => b.buildErr \in BOOLEAN
    /\ s.bad => b.kind \in {"insert", "update"} /\ b.buildErr

\* The result, if there is one, is that of the newest builder.
OutShape == out = NotBuilt \/ out = [d \in Dialects |-> Build(View(Newest, heap), d)]

IInv ==
    /\ IsSeq(built) /\ built # <<>> /\ IsSeq(said) /\ IsSeq(heap)
    /\ TypeOK
    /\ \A i \in DOMAIN built : SaidShape(built[i], said[i])
    /\ OutShape

\* The arrays after a call: none shrinks, and what was filled stays filled.
Grown(h, g) ==
    /\ IsSeq(g) /\ \A a \in DOMAIN g : ArrayShape(g[a])
    /\ \A a \in DOMAIN h : a \in DOMAIN g /\ Len(g[a]) = Len(h[a])
    /\ \A a \in DOMAIN h : \A k \in 1..Len(h[a]) : h[a][k] # Unset => g[a][k] # Unset

\* What was filled stays what it was.
Intact(h, g) == \A a \in DOMAIN h : \A k \in 1..Len(h[a]) : h[a][k] # Unset => g[a][k] = h[a][k]

\* The builders made before the step build what they built.
Unchanged == \A i \in DOMAIN built : View(built'[i], heap') = View(built[i], heap)

\* The names of the fields.
LEMMA Fieldnames ==
    /\ DOMAIN Select(<<>>) = {"kind", "ctes", "distinct", "distinctOn", "cols", "from", "joins", "where", "groupBy",
                              "having", "orderBy", "limit", "offset", "lockStrength", "lockOpts", "lockOf", "lockOfSet"}
    /\ DOMAIN InsertInto(Nil) = {"kind", "table", "colNames", "rows", "returning", "upsert", "ignoreConflict", "buildErr"}
    /\ DOMAIN Update(Nil) = {"kind", "table", "sets", "where", "returning", "limit", "buildErr"}
    /\ DOMAIN DeleteFrom(Nil) = {"kind", "table", "where", "returning", "limit"}
    /\ DOMAIN NewSetOp(Nil, "", Nil) = {"kind", "parts", "orderBy", "limit", "offset"}
    /\ DOMAIN NoUpsert = {"conflictCols", "conflictConstraint", "conflictTargetSet", "doNothing", "sets", "excluded"}
BY DEF Select, InsertInto, Update, DeleteFrom, NewSetOp, NoUpsert

\* A slice still lies in the filled part of its array.
LEMMA SliceStays ==
    ASSUME NEW h, NEW g, NEW s, Grown(h, g), IsSeq(h), SliceShape(h, s)
    PROVE  SliceShape(g, s)
<1>1. CASE s = NilSlice
  BY <1>1 DEF SliceShape
<1>2. CASE s # NilSlice
  <2>1. s.arr \in DOMAIN h /\ s.len \in 0..Len(h[s.arr]) /\ s.arr \in DOMAIN g /\ Len(g[s.arr]) = Len(h[s.arr])
    BY <1>2 DEF SliceShape, Grown
  <2>2. \A k \in 1..s.len : g[s.arr][k] # Unset
    <3> TAKE k \in 1..s.len
    <3>1. k \in 1..Len(h[s.arr])
      BY <2>1
    <3> QED BY <1>2, <2>1, <3>1 DEF SliceShape, Grown
  <2> QED BY <1>2, <2>1, <2>2 DEF SliceShape
<1> QED BY <1>1, <1>2

\* So does the slice of a builder.
LEMMA ShapeStays ==
    ASSUME NEW h, NEW g, NEW b, Grown(h, g), IsSeq(h), BuilderShape(b, h)
    PROVE  BuilderShape(b, g)
BY SliceStays DEF BuilderShape

\* The assignments of a slice are what they were.
LEMMA SliceSame ==
    ASSUME NEW h, NEW g, NEW s, Grown(h, g), Intact(h, g), IsSeq(h), SliceShape(h, s),
           \A a \in DOMAIN h : ArrayShape(h[a])
    PROVE  SliceOf(g, s) = SliceOf(h, s)
<1>1. CASE s.arr = 0
  BY <1>1 DEF SliceOf
<1>2. CASE s.arr # 0
  <2>1. s # NilSlice /\ s.arr \in DOMAIN h /\ s.len \in 0..Len(h[s.arr]) /\ \A k \in 1..s.len : h[s.arr][k] # Unset
    BY <1>2 DEF SliceShape, NilSlice
  <2> DEFINE x == h[s.arr]
             y == g[s.arr]
             n == s.len
  <2>2. IsSeq(x) /\ IsSeq(y) /\ Len(x) = Len(y)
    BY <2>1 DEF Grown, ArrayShape, IsSeq
  <2>3. \A k \in 1..n : x[k] = y[k]
    <3> TAKE k \in 1..n
    <3>1. k \in 1..Len(x)
      BY <2>1, <2>2, SeqDomain
    <3> QED BY <2>1, <3>1 DEF Intact
  <2>4. n \in 0..Len(x)
    BY <2>1
  <2> HIDE DEF x, y, n
  <2>5. SubSeq(x, 1, n) = SubSeq(y, 1, n)
    <3> DEFINE A == ToSet(x) \cup ToSet(y)
    <3>1. x \in Seq(A) /\ y \in Seq(A)
      BY <2>2, SeqElements
    <3> HIDE DEF A
    <3>2. SubSeq(x, 1, n) \in Seq(A) /\ SubSeq(y, 1, n) \in Seq(A) /\ Len(SubSeq(x, 1, n)) = n /\ Len(SubSeq(y, 1, n)) = n
      BY <2>2, <2>4, <3>1
    <3>3. \A k \in 1..n : SubSeq(x, 1, n)[k] = x[k] /\ SubSeq(y, 1, n)[k] = y[k]
      BY <2>2, <2>4, <3>1
    <3> QED BY <2>3, <3>2, <3>3
  <2> QED BY <1>2, <2>5 DEF SliceOf, x, y, n
<1> QED BY <1>1, <1>2

\* So is what a builder builds.
LEMMA ViewSame ==
    ASSUME NEW h, NEW g, NEW b, Grown(h, g), Intact(h, g), IsSeq(h), BuilderShape(b, h),
           \A a \in DOMAIN h : ArrayShape(h[a])
    PROVE  View(b, g) = View(b, h)
<1>1. CASE b.kind = "insert" /\ b.upsert # Nil
  <2>1. SliceOf(g, b.upsert.sets) = SliceOf(h, b.upsert.sets)
    BY <1>1, SliceSame DEF BuilderShape
  <2> QED BY <1>1, <2>1 DEF View
<1>2. CASE ~(b.kind = "insert" /\ b.upsert # Nil)
  BY <1>2 DEF View
<1> QED BY <1>1, <1>2

--------------------------------------------------------------------------------
(* One call                                                                  *)

\* A new builder of the right shape, with arrays that have grown.
LEMMA MakeKeeps ==
    ASSUME IInv, NEW b, NEW h, NEW s, Make(b, h, s), Grown(heap, h), BuilderShape(b, h), SaidShape(b, s),
           s.from \in DOMAIN built
    PROVE  IInv' /\ (Intact(heap, h) => Unchanged)
<1>1. IsSeq(built) /\ IsSeq(said) /\ IsSeq(heap) /\ TypeOK
  BY DEF IInv
<1>2. built' = Append(built, b) /\ said' = Append(said, s) /\ heap' = h /\ left' = left - 1 /\ left > 0 /\ out' = NotBuilt
  BY DEF Make
<1>3. IsSeq(built') /\ IsSeq(said') /\ IsSeq(heap')
  BY <1>1, <1>2, AppendElements DEF Grown
<1>4. /\ Len(built) \in Nat /\ Len(said) = Len(built) /\ DOMAIN built = 1..Len(built) /\ DOMAIN said = 1..Len(built)
  BY <1>1, SeqDomain DEF TypeOK
<1>5. /\ Len(built') = Len(built) + 1 /\ Len(said') = Len(built) + 1 /\ DOMAIN built' = 1..(Len(built) + 1)
      /\ \A i \in DOMAIN built : built'[i] = built[i] /\ said'[i] = said[i]
      /\ built'[Len(built) + 1] = b /\ said'[Len(built) + 1] = s
  BY <1>1, <1>2, <1>4 DEF IsSeq
<1>6. \A i \in DOMAIN built' : i \in DOMAIN built \/ i = Len(built) + 1
  BY <1>4, <1>5
<1>7. \A a \in DOMAIN heap : ArrayShape(heap[a])
  BY <1>1 DEF TypeOK
<1>8. \A i \in DOMAIN built' : BuilderShape(built'[i], heap')
  <2> TAKE i \in DOMAIN built'
  <2>1. CASE i \in DOMAIN built
    <3>1. BuilderShape(built[i], heap)
      BY <1>1, <2>1 DEF TypeOK
    <3> QED BY <1>1, <1>2, <1>5, <2>1, <3>1, ShapeStays
  <2>2. CASE i = Len(built) + 1
    BY <1>2, <1>5, <2>2
  <2> QED BY <1>6, <2>1, <2>2
<1>9. \A i \in DOMAIN built' : said'[i].from \in 0..(i - 1)
  <2> TAKE i \in DOMAIN built'
  <2>1. CASE i \in DOMAIN built
    BY <1>1, <1>5, <2>1 DEF TypeOK
  <2>2. CASE i = Len(built) + 1
    BY <1>4, <1>5, <2>2
  <2> QED BY <1>6, <2>1, <2>2
<1>10. TypeOK'
  <2>1. left' \in Nat
    BY <1>1, <1>2 DEF TypeOK
  <2>2. DOMAIN out' \in {{}, Dialects}
    BY <1>2 DEF NotBuilt
  <2> QED BY <1>2, <1>5, <1>8, <1>9, <2>1, <2>2 DEF TypeOK, Grown
<1>11. \A i \in DOMAIN built' : SaidShape(built'[i], said'[i])
  BY <1>5, <1>6 DEF IInv
<1>12. ASSUME Intact(heap, h) PROVE Unchanged
  <2> SUFFICES ASSUME NEW i \in DOMAIN built PROVE View(built'[i], heap') = View(built[i], heap)
    BY DEF Unchanged
  <2>1. BuilderShape(built[i], heap)
    BY <1>1 DEF TypeOK
  <2> QED BY <1>1, <1>2, <1>5, <1>7, <1>12, <2>1, ViewSame
<1>13. built' # <<>>
  BY <1>4, <1>5
<1> QED BY <1>2, <1>3, <1>10, <1>11, <1>12, <1>13 DEF IInv, OutShape

\* A builder that differs from another in fields of which its shape says nothing.
LooksLike(b, c) ==
    /\ DOMAIN b = DOMAIN c /\ b.kind = c.kind
    /\ c.kind = "select" => b.joins = c.joins
    /\ c.kind = "insert" => b.rows = c.rows /\ b.colNames = c.colNames /\ b.upsert = c.upsert
    /\ c.kind \in {"insert", "update"} => b.buildErr = c.buildErr

\* What was asked for, but for the conditions and the name of the call.
AsksLike(s, i) == DOMAIN s = DOMAIN said[i] /\ s.bad = said[i].bad /\ s.from = i

\* A call that leaves what the shape is about alone.
LEMMA ModestCall ==
    ASSUME IInv, NEW i \in DOMAIN built, NEW b, NEW s, Make(b, heap, s), LooksLike(b, built[i]), AsksLike(s, i)
    PROVE  IInv' /\ Unchanged
<1>1. BuilderShape(built[i], heap) /\ SaidShape(built[i], said[i]) /\ IsSeq(heap) /\ \A a \in DOMAIN heap : ArrayShape(heap[a])
  BY DEF IInv, TypeOK
<1>2. BuilderShape(b, heap)
  BY <1>1 DEF BuilderShape, LooksLike
<1>3. SaidShape(b, s) /\ s.from \in DOMAIN built
  BY <1>1 DEF SaidShape, LooksLike, AsksLike
<1>4. Grown(heap, heap) /\ Intact(heap, heap)
  BY <1>1 DEF Grown, Intact
<1> QED BY <1>2, <1>3, <1>4, MakeKeeps

\* What the calls of a program say of a builder that exists.
LEMMA OldBuilder ==
    ASSUME IInv, NEW kinds, NEW i \in Of(kinds)
    PROVE  /\ i \in DOMAIN built /\ built[i].kind \in kinds /\ BuilderShape(built[i], heap) /\ SaidShape(built[i], said[i])
           /\ \A name : /\ DOMAIN Called(i, name) = DOMAIN said[i] /\ Called(i, name).bad = said[i].bad
                        /\ Called(i, name).from = i /\ AsksLike(Called(i, name), i)
                        /\ \A cs : AsksLike([Called(i, name) EXCEPT !.conds = cs], i)
BY DEF Of, IInv, TypeOK, SaidShape, Called, AsksLike

\* The calls that set or extend a condition.
LEMMA ConditionCall ==
    ASSUME IInv, NEW kind \in {"select", "update", "delete"}, NEW name, WhereOn(kind, name) \/ AndOn(kind, name)
    PROVE  IInv' /\ Unchanged
<1>1. PICK i \in Of({kind}) : \E e, cs : Make(SetWhere(built[i], e), heap, [Called(i, name) EXCEPT !.conds = cs])
  BY DEF WhereOn, AndOn, AndWhere
<1>2. BuilderShape(built[i], heap) /\ built[i].kind = kind
  BY OldBuilder
<1>3. \A e : LooksLike(SetWhere(built[i], e), built[i])
  BY <1>2, Fieldnames DEF LooksLike, BuilderShape, SetWhere
<1> QED BY <1>1, <1>3, OldBuilder, ModestCall

\* The calls on a SELECT that set a clause or add to one.
LEMMA SelectCalls ==
    ASSUME IInv,
           Distinct \/ DistinctOn \/ For \/ LockShorthands \/ LockOf \/ With \/ WithRecursive \/ From
           \/ FromSelect \/ SelectOrderBy \/ GroupBy \/ Having \/ SelectLimit \/ SelectOffset
    PROVE  IInv' /\ Unchanged
<1>1. CASE Distinct
  <2>1. PICK i \in Of({"select"}) :
           Call(i, "Distinct", [built[i] EXCEPT !.distinct = TRUE])
    BY <1>1 DEF Distinct
  <2>2. BuilderShape(built[i], heap) /\ built[i].kind = "select"
    BY OldBuilder
  <2>3. LooksLike([built[i] EXCEPT !.distinct = TRUE], built[i])
    BY <2>2, Fieldnames DEF LooksLike, BuilderShape
  <2> QED BY <2>1, <2>3, OldBuilder, ModestCall DEF Call
<1>2. CASE DistinctOn
  <2>1. PICK i \in Of({"select"}), cols \in ColumnLists :
           Call(i, "DistinctOn", [built[i] EXCEPT !.distinct = TRUE, !.distinctOn = @ \o cols])
    BY <1>2 DEF DistinctOn
  <2>2. BuilderShape(built[i], heap) /\ built[i].kind = "select"
    BY OldBuilder
  <2>3. LooksLike([built[i] EXCEPT !.distinct = TRUE, !.distinctOn = @ \o cols], built[i])
    BY <2>2, Fieldnames DEF LooksLike, BuilderShape
  <2> QED BY <2>1, <2>3, OldBuilder, ModestCall DEF Call
<1>3. CASE For
  <2>1. PICK i \in Of({"select"}), l \in Locking :
           Call(i, "For", [built[i] EXCEPT !.lockStrength = l.strength, !.lockOpts = l.opts])
    BY <1>3 DEF For
  <2>2. BuilderShape(built[i], heap) /\ built[i].kind = "select"
    BY OldBuilder
  <2>3. LooksLike([built[i] EXCEPT !.lockStrength = l.strength, !.lockOpts = l.opts], built[i])
    BY <2>2, Fieldnames DEF LooksLike, BuilderShape
  <2> QED BY <2>1, <2>3, OldBuilder, ModestCall DEF Call
<1>4. CASE LockShorthands
  <2>1. PICK i \in Of({"select"}), s \in LockStrengths :
           Call(i, "For", [built[i] EXCEPT !.lockStrength = s, !.lockOpts = <<>>])
    BY <1>4 DEF LockShorthands
  <2>2. BuilderShape(built[i], heap) /\ built[i].kind = "select"
    BY OldBuilder
  <2>3. LooksLike([built[i] EXCEPT !.lockStrength = s, !.lockOpts = <<>>], built[i])
    BY <2>2, Fieldnames DEF LooksLike, BuilderShape
  <2> QED BY <2>1, <2>3, OldBuilder, ModestCall DEF Call
<1>5. CASE LockOf
  <2>1. PICK i \in Of({"select"}), ts \in LockTables :
           Call(i, "Of", [built[i] EXCEPT !.lockOf = @ \o ts, !.lockOfSet = TRUE])
    BY <1>5 DEF LockOf
  <2>2. BuilderShape(built[i], heap) /\ built[i].kind = "select"
    BY OldBuilder
  <2>3. LooksLike([built[i] EXCEPT !.lockOf = @ \o ts, !.lockOfSet = TRUE], built[i])
    BY <2>2, Fieldnames DEF LooksLike, BuilderShape
  <2> QED BY <2>1, <2>3, OldBuilder, ModestCall DEF Call
<1>6. CASE With
  <2>1. PICK i \in Of({"select"}), j \in Of({"select"}) :
           Call(i, "With", [built[i] EXCEPT !.ctes = Append(@, [name |-> "cte", sub |-> built[j], anchor |-> Nil, recursive |-> Nil])])
    BY <1>6 DEF With
  <2>2. BuilderShape(built[i], heap) /\ built[i].kind = "select"
    BY OldBuilder
  <2>3. LooksLike([built[i] EXCEPT !.ctes = Append(@, [name |-> "cte", sub |-> built[j], anchor |-> Nil, recursive |-> Nil])], built[i])
    BY <2>2, Fieldnames DEF LooksLike, BuilderShape
  <2> QED BY <2>1, <2>3, OldBuilder, ModestCall DEF Call
<1>7. CASE WithRecursive
  <2>4. PICK i \in Of({"select"}) : \E rec : Call(i, "WithRecursive", [built[i] EXCEPT !.ctes = rec])
    BY <1>7 DEF WithRecursive
  <2>1. PICK rec : Call(i, "WithRecursive", [built[i] EXCEPT !.ctes = rec])
    BY <2>4
  <2>2. BuilderShape(built[i], heap) /\ built[i].kind = "select"
    BY OldBuilder
  <2>3. LooksLike([built[i] EXCEPT !.ctes = rec], built[i])
    BY <2>2, Fieldnames DEF LooksLike, BuilderShape
  <2> QED BY <2>1, <2>3, OldBuilder, ModestCall DEF Call
<1>8. CASE From
  <2>1. PICK i \in Of({"select"}), t \in Sources :
           Call(i, "From", [built[i] EXCEPT !.from = t])
    BY <1>8 DEF From
  <2>2. BuilderShape(built[i], heap) /\ built[i].kind = "select"
    BY OldBuilder
  <2>3. LooksLike([built[i] EXCEPT !.from = t], built[i])
    BY <2>2, Fieldnames DEF LooksLike, BuilderShape
  <2> QED BY <2>1, <2>3, OldBuilder, ModestCall DEF Call
<1>9. CASE FromSelect
  <2>1. PICK i \in Of({"select"}), j \in Of({"select"}) :
           Call(i, "From", [built[i] EXCEPT !.from = FromSubquery(built[j], "sub")])
    BY <1>9 DEF FromSelect
  <2>2. BuilderShape(built[i], heap) /\ built[i].kind = "select"
    BY OldBuilder
  <2>3. LooksLike([built[i] EXCEPT !.from = FromSubquery(built[j], "sub")], built[i])
    BY <2>2, Fieldnames DEF LooksLike, BuilderShape
  <2> QED BY <2>1, <2>3, OldBuilder, ModestCall DEF Call
<1>10. CASE SelectOrderBy
  <2>1. PICK i \in Of({"select"}), es \in Orders :
           Call(i, "OrderBy", [built[i] EXCEPT !.orderBy = es])
    BY <1>10 DEF SelectOrderBy
  <2>2. BuilderShape(built[i], heap) /\ built[i].kind = "select"
    BY OldBuilder
  <2>3. LooksLike([built[i] EXCEPT !.orderBy = es], built[i])
    BY <2>2, Fieldnames DEF LooksLike, BuilderShape
  <2> QED BY <2>1, <2>3, OldBuilder, ModestCall DEF Call
<1>11. CASE GroupBy
  <2>1. PICK i \in Of({"select"}), cols \in ColumnLists :
           Call(i, "GroupBy", [built[i] EXCEPT !.groupBy = cols])
    BY <1>11 DEF GroupBy
  <2>2. BuilderShape(built[i], heap) /\ built[i].kind = "select"
    BY OldBuilder
  <2>3. LooksLike([built[i] EXCEPT !.groupBy = cols], built[i])
    BY <2>2, Fieldnames DEF LooksLike, BuilderShape
  <2> QED BY <2>1, <2>3, OldBuilder, ModestCall DEF Call
<1>12. CASE Having
  <2>1. PICK i \in Of({"select"}), e \in Conditions :
           Call(i, "Having", [built[i] EXCEPT !.having = e])
    BY <1>12 DEF Having
  <2>2. BuilderShape(built[i], heap) /\ built[i].kind = "select"
    BY OldBuilder
  <2>3. LooksLike([built[i] EXCEPT !.having = e], built[i])
    BY <2>2, Fieldnames DEF LooksLike, BuilderShape
  <2> QED BY <2>1, <2>3, OldBuilder, ModestCall DEF Call
<1>13. CASE SelectLimit
  <2>1. PICK i \in Of({"select"}), n \in Counts :
           Call(i, "Limit", [built[i] EXCEPT !.limit = n])
    BY <1>13 DEF SelectLimit
  <2>2. BuilderShape(built[i], heap) /\ built[i].kind = "select"
    BY OldBuilder
  <2>3. LooksLike([built[i] EXCEPT !.limit = n], built[i])
    BY <2>2, Fieldnames DEF LooksLike, BuilderShape
  <2> QED BY <2>1, <2>3, OldBuilder, ModestCall DEF Call
<1>14. CASE SelectOffset
  <2>1. PICK i \in Of({"select"}), n \in Counts :
           Call(i, "Offset", [built[i] EXCEPT !.offset = n])
    BY <1>14 DEF SelectOffset
  <2>2. BuilderShape(built[i], heap) /\ built[i].kind = "select"
    BY OldBuilder
  <2>3. LooksLike([built[i] EXCEPT !.offset = n], built[i])
    BY <2>2, Fieldnames DEF LooksLike, BuilderShape
  <2> QED BY <2>1, <2>3, OldBuilder, ModestCall DEF Call
<1> QED BY <1>1, <1>2, <1>3, <1>4, <1>5, <1>6, <1>7, <1>8, <1>9, <1>10, <1>11, <1>12, <1>13, <1>14

\* The calls on a set operation.
LEMMA SetOpCalls ==
    ASSUME IInv,
           AddPart \/ SetOpOrderBy \/ SetOpLimit \/ SetOpOffset
    PROVE  IInv' /\ Unchanged
<1>1. CASE AddPart
  <2>1. PICK i \in Of({"setop"}), j \in Of({"select"}), op \in SetOperators :
           Call(i, op, [built[i] EXCEPT !.parts = Append(@, SetPart(op, built[j]))])
    BY <1>1 DEF AddPart
  <2>2. BuilderShape(built[i], heap) /\ built[i].kind = "setop"
    BY OldBuilder
  <2>3. LooksLike([built[i] EXCEPT !.parts = Append(@, SetPart(op, built[j]))], built[i])
    BY <2>2, Fieldnames DEF LooksLike, BuilderShape
  <2> QED BY <2>1, <2>3, OldBuilder, ModestCall DEF Call
<1>2. CASE SetOpOrderBy
  <2>1. PICK i \in Of({"setop"}), es \in Orders :
           Call(i, "OrderBy", [built[i] EXCEPT !.orderBy = es])
    BY <1>2 DEF SetOpOrderBy
  <2>2. BuilderShape(built[i], heap) /\ built[i].kind = "setop"
    BY OldBuilder
  <2>3. LooksLike([built[i] EXCEPT !.orderBy = es], built[i])
    BY <2>2, Fieldnames DEF LooksLike, BuilderShape
  <2> QED BY <2>1, <2>3, OldBuilder, ModestCall DEF Call
<1>3. CASE SetOpLimit
  <2>1. PICK i \in Of({"setop"}), n \in Counts :
           Call(i, "Limit", [built[i] EXCEPT !.limit = n])
    BY <1>3 DEF SetOpLimit
  <2>2. BuilderShape(built[i], heap) /\ built[i].kind = "setop"
    BY OldBuilder
  <2>3. LooksLike([built[i] EXCEPT !.limit = n], built[i])
    BY <2>2, Fieldnames DEF LooksLike, BuilderShape
  <2> QED BY <2>1, <2>3, OldBuilder, ModestCall DEF Call
<1>4. CASE SetOpOffset
  <2>1. PICK i \in Of({"setop"}), n \in Counts :
           Call(i, "Offset", [built[i] EXCEPT !.offset = n])
    BY <1>4 DEF SetOpOffset
  <2>2. BuilderShape(built[i], heap) /\ built[i].kind = "setop"
    BY OldBuilder
  <2>3. LooksLike([built[i] EXCEPT !.offset = n], built[i])
    BY <2>2, Fieldnames DEF LooksLike, BuilderShape
  <2> QED BY <2>1, <2>3, OldBuilder, ModestCall DEF Call
<1> QED BY <1>1, <1>2, <1>3, <1>4

\* The calls on a mutation that set a clause or add to one.
LEMMA MutationCalls ==
    ASSUME IInv,
           UpdateSet \/ UpdateLimit \/ UpdateReturning \/ DeleteLimit \/ DeleteReturning
           \/ IgnoreConflicts \/ InsertReturning
    PROVE  IInv' /\ Unchanged
<1>1. CASE UpdateSet
  <2>1. PICK i \in Of({"update"}), a \in Assigned :
           Call(i, "Set", [built[i] EXCEPT !.sets = Append(@, a)])
    BY <1>1 DEF UpdateSet
  <2>2. BuilderShape(built[i], heap) /\ built[i].kind = "update"
    BY OldBuilder
  <2>3. LooksLike([built[i] EXCEPT !.sets = Append(@, a)], built[i])
    BY <2>2, Fieldnames DEF LooksLike, BuilderShape
  <2> QED BY <2>1, <2>3, OldBuilder, ModestCall DEF Call
<1>2. CASE UpdateLimit
  <2>1. PICK i \in Of({"update"}), n \in Counts :
           Call(i, "Limit", [built[i] EXCEPT !.limit = n])
    BY <1>2 DEF UpdateLimit
  <2>2. BuilderShape(built[i], heap) /\ built[i].kind = "update"
    BY OldBuilder
  <2>3. LooksLike([built[i] EXCEPT !.limit = n], built[i])
    BY <2>2, Fieldnames DEF LooksLike, BuilderShape
  <2> QED BY <2>1, <2>3, OldBuilder, ModestCall DEF Call
<1>3. CASE UpdateReturning
  <2>1. PICK i \in Of({"update"}), cols \in ColumnLists :
           Call(i, "Returning", [built[i] EXCEPT !.returning = cols])
    BY <1>3 DEF UpdateReturning
  <2>2. BuilderShape(built[i], heap) /\ built[i].kind = "update"
    BY OldBuilder
  <2>3. LooksLike([built[i] EXCEPT !.returning = cols], built[i])
    BY <2>2, Fieldnames DEF LooksLike, BuilderShape
  <2> QED BY <2>1, <2>3, OldBuilder, ModestCall DEF Call
<1>4. CASE DeleteLimit
  <2>1. PICK i \in Of({"delete"}), n \in Counts :
           Call(i, "Limit", [built[i] EXCEPT !.limit = n])
    BY <1>4 DEF DeleteLimit
  <2>2. BuilderShape(built[i], heap) /\ built[i].kind = "delete"
    BY OldBuilder
  <2>3. LooksLike([built[i] EXCEPT !.limit = n], built[i])
    BY <2>2, Fieldnames DEF LooksLike, BuilderShape
  <2> QED BY <2>1, <2>3, OldBuilder, ModestCall DEF Call
<1>5. CASE DeleteReturning
  <2>1. PICK i \in Of({"delete"}), cols \in ColumnLists :
           Call(i, "Returning", [built[i] EXCEPT !.returning = cols])
    BY <1>5 DEF DeleteReturning
  <2>2. BuilderShape(built[i], heap) /\ built[i].kind = "delete"
    BY OldBuilder
  <2>3. LooksLike([built[i] EXCEPT !.returning = cols], built[i])
    BY <2>2, Fieldnames DEF LooksLike, BuilderShape
  <2> QED BY <2>1, <2>3, OldBuilder, ModestCall DEF Call
<1>6. CASE IgnoreConflicts
  <2>1. PICK i \in Of({"insert"}) :
           Call(i, "IgnoreConflicts", [built[i] EXCEPT !.ignoreConflict = TRUE])
    BY <1>6 DEF IgnoreConflicts
  <2>2. BuilderShape(built[i], heap) /\ built[i].kind = "insert"
    BY OldBuilder
  <2>3. LooksLike([built[i] EXCEPT !.ignoreConflict = TRUE], built[i])
    BY <2>2, Fieldnames DEF LooksLike, BuilderShape
  <2> QED BY <2>1, <2>3, OldBuilder, ModestCall DEF Call
<1>7. CASE InsertReturning
  <2>1. PICK i \in Of({"insert"}), cols \in ColumnLists :
           Call(i, "Returning", [built[i] EXCEPT !.returning = cols])
    BY <1>7 DEF InsertReturning
  <2>2. BuilderShape(built[i], heap) /\ built[i].kind = "insert"
    BY OldBuilder
  <2>3. LooksLike([built[i] EXCEPT !.returning = cols], built[i])
    BY <2>2, Fieldnames DEF LooksLike, BuilderShape
  <2> QED BY <2>1, <2>3, OldBuilder, ModestCall DEF Call
<1> QED BY <1>1, <1>2, <1>3, <1>4, <1>5, <1>6, <1>7

--------------------------------------------------------------------------------
(* Structs                                                                   *)

\* The elements at some places of a sequence are elements of it.
LEMMA ChosenElements ==
    ASSUME NEW s, NEW P, IsSeq(s)
    PROVE  IsSeq(Chosen(s, P)) /\ ToSet(Chosen(s, P)) \subseteq ToSet(s)
<1> DEFINE ss == [i \in DOMAIN s |-> When(i \in P, <<s[i]>>)]
<1>1. \A i \in DOMAIN s : IsSeq(ss[i]) /\ ToSet(ss[i]) \subseteq ToSet(s)
  <2> TAKE i \in DOMAIN s
  <2>1. ss[i] = <<s[i]>> \/ ss[i] = <<>>
    BY DEF When
  <2> QED BY <2>1, SmallSeqs, SeqDomain
<1>2. ss = [i \in DOMAIN s |-> ss[i]] /\ Chosen(s, P) = FlattenSeq(ss)
  BY DEF Chosen
<1> HIDE DEF ss
<1> QED BY <1>1, <1>2, FlatElements

\* The fields with a column.
LEMMA TaggedFields ==
    ASSUME NEW row, RowShape(row), ~BadStruct(row)
    PROVE  IsSeq(Tagged(row)) /\ \A i \in DOMAIN Tagged(row) : Tagged(row)[i].col # ""
<1>1. IsSeq(row.fields)
  BY DEF RowShape, BadStruct, IsSeq
<1>2. IsSeq(Tagged(row))
  BY <1>1, ChosenElements DEF Tagged
<1> QED BY <1>2 DEF BadStruct

\* The columns and the values that are read from a struct are as many.
LEMMA StructColumns ==
    ASSUME NEW row, RowShape(row)
    PROVE  LET r == StructToColVals(row)
           IN  /\ r.err \in BOOLEAN /\ (r.err <=> BadStruct(row))
               /\ ~r.err => IsSeq(r.cols) /\ Len(r.vals) = Len(r.cols)
<1>1. CASE BadStruct(row)
  BY <1>1 DEF StructToColVals, Fields
<1>2. CASE ~BadStruct(row)
  <2>1. PICK P : LET fs == Chosen(Tagged(row), P)
                     r  == StructToColVals(row)
                 IN  /\ r.err = FALSE /\ r.cols = [i \in DOMAIN fs |-> fs[i].col]
                     /\ DOMAIN r.vals = DOMAIN fs /\ r.vals = [i \in DOMAIN fs |-> r.vals[i]]
    BY <1>2 DEF StructToColVals, Fields
  <2> DEFINE fs == Chosen(Tagged(row), P)
  <2>2. IsSeq(fs)
    BY <1>2, TaggedFields, ChosenElements
  <2> DEFINE r == StructToColVals(row)
             a == r.cols
             b == r.vals
  <2>3. r.err = FALSE /\ a = [i \in DOMAIN fs |-> a[i]] /\ b = [i \in DOMAIN fs |-> b[i]]
    BY <2>1
  <2> HIDE DEF fs, r, a, b
  <2>4. IsSeq(a) /\ IsSeq(b) /\ DOMAIN a = DOMAIN fs /\ DOMAIN b = DOMAIN fs
    BY <2>2, <2>3, MappedSeq
  <2>5. Len(a) = Len(b)
    BY <2>4, SeqDomain DEF IsSeq
  <2> QED BY <1>2, <2>3, <2>4, <2>5 DEF r, a, b
<1> QED BY <1>1, <1>2

\* The assignments that are read from a struct: none of them is empty.
LEMMA StructPairs ==
    ASSUME NEW row, RowShape(row)
    PROVE  LET r == StructSetsForUpdate(row)
           IN  /\ r.err \in BOOLEAN /\ (r.err <=> BadStruct(row))
               /\ ~r.err => IsSeq(Pairs(r)) /\ \A k \in DOMAIN Pairs(r) : Pairs(r)[k] # Unset
<1>1. CASE BadStruct(row)
  BY <1>1 DEF StructSetsForUpdate, Fields
<1>2. CASE ~BadStruct(row)
  <2>1. PICK P : LET fs == Chosen(Tagged(row), P)
                     r  == StructSetsForUpdate(row)
                 IN  r.err = FALSE /\ r.cols = [i \in DOMAIN fs |-> fs[i].col]
    BY <1>2 DEF StructSetsForUpdate, Fields
  <2> DEFINE fs == Chosen(Tagged(row), P)
  <2>2. IsSeq(fs) /\ ToSet(fs) \subseteq ToSet(Tagged(row))
    BY <1>2, TaggedFields, ChosenElements
  <2>3. \A i \in DOMAIN fs : fs[i].col # ""
    <3> TAKE i \in DOMAIN fs
    <3>1. fs[i] \in ToSet(Tagged(row))
      BY <2>2, SeqDomain
    <3>2. PICK j \in DOMAIN Tagged(row) : Tagged(row)[j] = fs[i]
      BY <1>2, <3>1, TaggedFields, SeqDomain
    <3> QED BY <1>2, <3>2, TaggedFields
  <2> DEFINE r == StructSetsForUpdate(row)
             p == Pairs(r)
  <2>4. r.err = FALSE /\ DOMAIN r.cols = DOMAIN fs /\ \A i \in DOMAIN fs : r.cols[i] = fs[i].col
    BY <2>1
  <2>5. p = [k \in DOMAIN r.cols |-> [col |-> r.cols[k], val |-> r.vals[k]]]
    BY DEF Pairs
  <2> HIDE DEF fs, r, p
  <2>6. IsSeq(p)
    BY <2>2, <2>4, <2>5, MappedSeq
  <2>7. \A k \in DOMAIN p : p[k] # Unset
    BY <2>3, <2>4, <2>5 DEF Unset
  <2> QED BY <1>2, <2>4, <2>6, <2>7 DEF r, p
<1> QED BY <1>1, <1>2

--------------------------------------------------------------------------------
(* Rows of an INSERT                                                         *)

\* An INSERT that is whole, with the error it has or not.
InsertShape(b, h) == b.kind = "insert" /\ BuilderShape(b, h) /\ b.buildErr \in BOOLEAN

\* One row more, or an error.
LEMMA OneRow ==
    ASSUME NEW b, NEW h, NEW row, InsertShape(b, h), RowShape(row)
    PROVE  LET c == ValuesOf(b, row)
           IN  /\ InsertShape(c, h) /\ (b.buildErr \/ BadStruct(row) => c.buildErr)
               /\ Len(b.rows) \in Nat /\ Len(c.rows) \in {Len(b.rows), Len(b.rows) + 1}
               /\ Len(c.rows) = Len(b.rows) => c.buildErr
<1> DEFINE r == StructToColVals(row)
           c == ValuesOf(b, row)
           e == [b EXCEPT !.buildErr = TRUE]
           g == [b EXCEPT !.colNames = IF @ = <<>> THEN r.cols ELSE @, !.rows = Append(@, r.vals)]
<1>1. /\ DOMAIN b = DOMAIN InsertInto(Nil) /\ IsSeq(b.rows) /\ b.kind = "insert"
      /\ \A k \in DOMAIN b.rows : Len(b.rows[k]) \in {0, Len(b.colNames)}
      /\ b.upsert # Nil => DOMAIN b.upsert = DOMAIN NoUpsert /\ SliceShape(h, b.upsert.sets)
  BY DEF InsertShape, BuilderShape, IsSeq
<1>2. Len(b.rows) \in Nat /\ DOMAIN b.rows = 1..Len(b.rows)
  BY <1>1, SeqDomain
<1>3. r.err \in BOOLEAN /\ (r.err <=> BadStruct(row)) /\ (~r.err => IsSeq(r.cols) /\ Len(r.vals) = Len(r.cols))
  BY StructColumns
<1>4. CASE c = e
  <2>1. /\ DOMAIN c = DOMAIN b /\ c.kind = b.kind /\ c.rows = b.rows /\ c.colNames = b.colNames /\ c.upsert = b.upsert
        /\ c.buildErr = TRUE
    BY <1>1, <1>4, Fieldnames
  <2> QED BY <1>1, <1>2, <2>1 DEF InsertShape, BuilderShape, IsSeq
<1>5. CASE c = g /\ ~r.err /\ (b.colNames = <<>> \/ b.colNames = r.cols)
  <2> DEFINE x == Append(b.rows, r.vals)
             names == IF b.colNames = <<>> THEN r.cols ELSE b.colNames
  <2>1. /\ DOMAIN c = DOMAIN b /\ c.kind = b.kind /\ c.rows = x /\ c.colNames = names /\ c.upsert = b.upsert
        /\ c.buildErr = b.buildErr
    BY <1>1, <1>5, Fieldnames
  <2>2. IsSeq(x) /\ Len(x) = Len(b.rows) + 1
    BY <1>1, <1>2, AppendElements DEF IsSeq
  <2>3. names = r.cols /\ Len(r.vals) = Len(names)
    BY <1>3, <1>5
  <2>4. ASSUME NEW k \in DOMAIN x PROVE Len(x[k]) \in {0, Len(names)}
    <3>1. CASE k = Len(b.rows) + 1
      <4>1. x[k] = r.vals
        BY <1>1, <1>2, <3>1 DEF IsSeq
      <4> QED BY <2>3, <4>1
    <3>2. CASE k # Len(b.rows) + 1
      <4>1. k \in DOMAIN b.rows /\ x[k] = b.rows[k]
        BY <1>1, <1>2, <2>2, <2>4, <3>2 DEF IsSeq
      <4>2. b.colNames = <<>> => Len(b.colNames) = 0
        OBVIOUS
      <4> QED BY <1>1, <4>1, <4>2
    <3> QED BY <3>1, <3>2
  <2>5. x \in Seq(ToSet(x))
    BY <2>2 DEF IsSeq
  <2> HIDE DEF x, names, c, g, e
  <2>6. BuilderShape(c, h)
    BY <1>1, <2>1, <2>4, <2>5 DEF BuilderShape
  <2> QED BY <1>1, <1>2, <1>3, <1>5, <2>1, <2>2, <2>6 DEF InsertShape, c
<1>6. c = e \/ (c = g /\ ~r.err /\ (b.colNames = <<>> \/ b.colNames = r.cols))
  BY DEF ValuesOf, EqualStrings
<1> QED BY <1>4, <1>5, <1>6

\* The recursive definition inside ValueSliceOf defines a function.
LEMMA ValueSliceDef ==
    ASSUME NEW b, NEW rows, Len(rows) \in Nat
    PROVE  \E f : /\ ValueSliceOf(b, rows) = f[Len(rows)] /\ f[0] = b
                  /\ \A n \in 1..Len(rows) :
                       f[n] = IF Len(f[n - 1].rows) < Len(b.rows) + n - 1 THEN f[n - 1]
                              ELSE ValuesOf(f[n - 1], rows[n])
<1> DEFINE Next1(x, n) == IF Len(x.rows) < Len(b.rows) + n - 1 THEN x ELSE ValuesOf(x, rows[n])
           Def(g, n) == g = [i \in 0..n |-> IF i = 0 THEN b ELSE Next1(g[i - 1], i)]
           S == {n \in Nat : \E g : Def(g, n)}
<1>1. 0 \in S
  <2>1. Def([i \in 0..0 |-> b], 0)
    OBVIOUS
  <2> QED BY <2>1
<1>2. ASSUME NEW n \in Nat, n \in S PROVE n + 1 \in S
  <2>1. PICK g : Def(g, n)
    BY <1>2
  <2> DEFINE Last1 == Next1(g[n], n + 1)
             h == [i \in 0..(n + 1) |-> IF i = n + 1 THEN Last1 ELSE g[i]]
  <2> HIDE DEF Next1
  <2>2. ASSUME NEW i \in 0..(n + 1)
        PROVE  h[i] = IF i = 0 THEN b ELSE Next1(h[i - 1], i)
    <3>1. CASE i = n + 1
      <4>1. n \in 0..(n + 1) /\ i - 1 = n /\ i # 0 /\ n # n + 1
        BY <3>1
      <4> QED BY <3>1, <4>1
    <3>2. CASE i = 0
      BY <2>1, <3>2
    <3>3. CASE i # n + 1 /\ i # 0
      <4>1. i \in 0..n /\ i - 1 \in 0..n /\ i - 1 # n + 1 /\ i - 1 \in 0..(n + 1)
        BY <3>3
      <4>2. g[i] = Next1(g[i - 1], i)
        BY <2>1, <3>3, <4>1
      <4> QED BY <3>3, <4>1, <4>2
    <3> QED BY <3>1, <3>2, <3>3
  <2>3. Def(h, n + 1)
    BY <2>2
  <2>4. \E k : Def(k, n + 1)
    <3> HIDE DEF h, Def
    <3> QED BY <2>3
  <2> HIDE DEF h, Def
  <2> QED BY <2>4
<1>3. Len(rows) \in S
  <2> HIDE DEF S
  <2> QED BY <1>1, <1>2, NatSetInduction
<1>4. \E g : Def(g, Len(rows))
  BY <1>3
<1> DEFINE f == CHOOSE g : Def(g, Len(rows))
<1>5. Def(f, Len(rows))
  BY <1>4
<1>6. ValueSliceOf(b, rows) = f[Len(rows)]
  BY DEF ValueSliceOf
<1> HIDE DEF f
<1>7. f[0] = b /\ \A n \in 1..Len(rows) : f[n] = Next1(f[n - 1], n)
  <2> HIDE DEF Next1
  <2> QED BY <1>5
<1> QED BY <1>6, <1>7

\* A row more than there are, as numbers.
LEMMA OneMore ==
    ASSUME NEW p \in Nat, NEW q \in Nat, NEW n \in Nat
    PROVE  /\ p < q + n => p < q + (n + 1) /\ p <= q + (n + 1) /\ p # q + (n + 1)
           /\ p = q + n => /\ p + 1 = q + (n + 1) /\ p <= q + (n + 1) /\ p + 1 <= q + (n + 1) /\ p + 1 \in Nat
                          /\ ~(p + 1 < q + (n + 1))
OBVIOUS

\* Rows up to the first bad one, which leaves an error.
LEMMA SomeRows ==
    ASSUME NEW b, NEW h, NEW rows, InsertShape(b, h), IsSeq(rows), \A k \in DOMAIN rows : RowShape(rows[k])
    PROVE  LET c == ValueSliceOf(b, rows)
           IN  InsertShape(c, h) /\ (b.buildErr \/ (\E k \in DOMAIN rows : BadStruct(rows[k])) => c.buildErr)
<1>1. Len(rows) \in Nat /\ DOMAIN rows = 1..Len(rows)
  BY SeqDomain
<1>2. PICK f : /\ ValueSliceOf(b, rows) = f[Len(rows)] /\ f[0] = b
               /\ \A n \in 1..Len(rows) :
                    f[n] = IF Len(f[n - 1].rows) < Len(b.rows) + n - 1 THEN f[n - 1]
                           ELSE ValuesOf(f[n - 1], rows[n])
  BY <1>1, ValueSliceDef
<1>3. Len(b.rows) \in Nat
  BY DEF InsertShape, BuilderShape
<1> DEFINE P(n) == /\ InsertShape(f[n], h) /\ (b.buildErr => f[n].buildErr)
                   /\ Len(f[n].rows) \in Nat /\ Len(f[n].rows) <= Len(b.rows) + n
                   /\ Len(f[n].rows) < Len(b.rows) + n => f[n].buildErr
                   /\ Len(f[n].rows) = Len(b.rows) + n => f[n].buildErr \/ \A k \in 1..n : ~BadStruct(rows[k])
           S == {n \in Nat : n <= Len(rows) => P(n)}
<1>4. 0 \in S
  BY <1>2, <1>3
<1>5. ASSUME NEW n \in Nat, n \in S PROVE n + 1 \in S
  <2>1. SUFFICES ASSUME n + 1 <= Len(rows) PROVE P(n + 1)
    <3> HIDE DEF P
    <3> QED OBVIOUS
  <2>2. P(n) /\ n + 1 \in 1..Len(rows) /\ (n + 1) - 1 = n
    BY <1>1, <1>5, <2>1
  <2> DEFINE x == f[n]
             y == f[n + 1]
  <2>3. y = IF Len(x.rows) < Len(b.rows) + (n + 1) - 1 THEN x ELSE ValuesOf(x, rows[n + 1])
    BY <1>2, <2>2
  <2>4. Len(b.rows) + (n + 1) - 1 = Len(b.rows) + n
    BY <1>3
  <2>5. RowShape(rows[n + 1])
    BY <1>1, <2>2
  <2>6. CASE Len(x.rows) < Len(b.rows) + n
    <3>1. y = x
      BY <2>3, <2>4, <2>6
    <3>2. InsertShape(x, h) /\ (b.buildErr => x.buildErr) /\ x.buildErr /\ Len(x.rows) \in Nat
      BY <2>2, <2>6
    <3> HIDE DEF x
    <3>3. Len(x.rows) \in Nat
      BY <3>2
    <3>4. Len(x.rows) < Len(b.rows) + (n + 1) /\ Len(x.rows) <= Len(b.rows) + (n + 1) /\ Len(x.rows) # Len(b.rows) + (n + 1)
      BY <1>3, <2>6, <3>3, OneMore
    <3> QED BY <3>1, <3>2, <3>3, <3>4
  <2>7. CASE ~(Len(x.rows) < Len(b.rows) + n)
    <3>1. y = ValuesOf(x, rows[n + 1])
      BY <2>3, <2>4, <2>7
    <3>2. /\ InsertShape(x, h) /\ (b.buildErr => x.buildErr) /\ Len(x.rows) = Len(b.rows) + n
          /\ x.buildErr \/ \A k \in 1..n : ~BadStruct(rows[k])
      BY <1>3, <2>2, <2>7
    <3> HIDE DEF x, y
    <3>3. /\ InsertShape(y, h) /\ (x.buildErr \/ BadStruct(rows[n + 1]) => y.buildErr)
          /\ Len(y.rows) \in {Len(x.rows), Len(x.rows) + 1} /\ (Len(y.rows) = Len(x.rows) => y.buildErr)
      BY <2>5, <3>1, <3>2, OneRow
    <3>4. y.buildErr \/ \A k \in 1..(n + 1) : ~BadStruct(rows[k])
      BY <3>2, <3>3, EarlierOrLast
    <3>5. Len(x.rows) = Len(b.rows) + n /\ Len(y.rows) \in {Len(x.rows), Len(x.rows) + 1}
      BY <3>2, <3>3
    <3>6. /\ Len(y.rows) \in Nat /\ Len(y.rows) <= Len(b.rows) + (n + 1)
          /\ Len(y.rows) < Len(b.rows) + (n + 1) => Len(y.rows) = Len(x.rows)
      <4>1. Len(x.rows) \in Nat
        BY <2>2 DEF x
      <4>2. PICK p \in Nat : p = Len(x.rows)
        BY <4>1
      <4>3. PICK q \in Nat : q = Len(b.rows)
        BY <1>3
      <4>4. PICK l : l = Len(y.rows)
        OBVIOUS
      <4>5. p = q + n /\ (l = p \/ l = p + 1)
        BY <3>5, <4>2, <4>3, <4>4
      <4>6. l \in Nat /\ l <= q + (n + 1) /\ (l < q + (n + 1) => l = p)
        BY <4>5
      <4> QED BY <4>2, <4>3, <4>4, <4>6
    <3> QED BY <3>2, <3>3, <3>4, <3>6 DEF y
  <2> QED BY <2>6, <2>7
<1>6. P(Len(rows))
  <2>1. Len(rows) \in S
    <3> HIDE DEF S
    <3> QED BY <1>1, <1>4, <1>5, NatSetInduction
  <2> QED BY <1>1, <2>1
<1> DEFINE c == ValueSliceOf(b, rows)
<1>7. /\ InsertShape(c, h) /\ (b.buildErr => c.buildErr)
      /\ c.buildErr \/ \A k \in 1..Len(rows) : ~BadStruct(rows[k])
  <2> DEFINE z == f[Len(rows)]
  <2>1. /\ InsertShape(z, h) /\ (b.buildErr => z.buildErr) /\ Len(z.rows) \in Nat /\ Len(z.rows) <= Len(b.rows) + Len(rows)
        /\ Len(z.rows) < Len(b.rows) + Len(rows) => z.buildErr
        /\ Len(z.rows) = Len(b.rows) + Len(rows) => z.buildErr \/ \A k \in 1..Len(rows) : ~BadStruct(rows[k])
    BY <1>6
  <2>2. c = z
    BY <1>2
  <2> HIDE DEF z, c
  <2> QED BY <1>1, <1>3, <2>1, <2>2
<1> QED BY <1>1, <1>7

--------------------------------------------------------------------------------
(* Appending to a slice                                                      *)

\* The arrays of a program.
HeapShape(h) == IsSeq(h) /\ \A a \in DOMAIN h : ArrayShape(h[a])

\* The cell behind a slice, if there is one, is empty.
Free(h, s) == ~(Room(h, s) /\ h[s.arr][s.len + 1] # Unset)

\* The length of a slice is a number, and its array is one of those there are.
LEMMA SliceFacts ==
    ASSUME NEW h, NEW s, HeapShape(h), SliceShape(h, s)
    PROVE  /\ DOMAIN s = {"arr", "len"} /\ s.len \in Nat
           /\ s.arr = 0 => s = NilSlice /\ s.len = 0
           /\ s.arr # 0 => /\ s.arr \in DOMAIN h /\ s.len \in 0..Len(h[s.arr]) /\ IsSeq(h[s.arr])
                           /\ \A k \in 1..s.len : h[s.arr][k] # Unset
<1>1. DOMAIN h = 1..Len(h) /\ Len(h) \in Nat
  BY SeqDomain DEF HeapShape
<1>2. CASE s = NilSlice
  BY <1>2 DEF NilSlice
<1>3. CASE s # NilSlice
  <2>1. /\ DOMAIN s = {"arr", "len"} /\ s.arr \in DOMAIN h /\ s.len \in 0..Len(h[s.arr])
        /\ \A k \in 1..s.len : h[s.arr][k] # Unset
    BY <1>3 DEF SliceShape
  <2>2. ArrayShape(h[s.arr])
    BY <2>1 DEF HeapShape
  <2>3. IsSeq(h[s.arr])
    BY <2>2 DEF ArrayShape, IsSeq
  <2>4. Len(h[s.arr]) \in Nat
    BY <2>3, SeqDomain
  <2>5. s.len \in Nat /\ s.arr # 0
    BY <1>1, <2>1, <2>4
  <2> QED BY <2>1, <2>3, <2>5
<1> QED BY <1>2, <1>3

\* To grow and grow again.
LEMMA GrownTwice ==
    ASSUME NEW h, NEW g, NEW f, HeapShape(h), Grown(h, g), Grown(g, f)
    PROVE  HeapShape(g) /\ Grown(h, f) /\ (Intact(h, g) /\ Intact(g, f) => Intact(h, f))
<1>1. ASSUME NEW a \in DOMAIN h
      PROVE  /\ a \in DOMAIN g /\ a \in DOMAIN f /\ Len(f[a]) = Len(h[a]) /\ Len(g[a]) = Len(h[a])
             /\ \A k \in 1..Len(h[a]) : h[a][k] # Unset => g[a][k] # Unset /\ f[a][k] # Unset
  BY DEF Grown
<1>2. ASSUME Intact(h, g), Intact(g, f), NEW a \in DOMAIN h, NEW k \in 1..Len(h[a]), h[a][k] # Unset
      PROVE  f[a][k] = h[a][k]
  <2>1. a \in DOMAIN g /\ k \in 1..Len(g[a]) /\ g[a][k] = h[a][k]
    BY <1>1, <1>2 DEF Intact
  <2> QED BY <1>2, <2>1 DEF Intact
<1> QED BY <1>1, <1>2 DEF Grown, Intact, HeapShape

\* The array of a copy: what the slice had, the new element and empty cells.
LEMMA CopyArray ==
    ASSUME NEW a, NEW x, x # Unset, NEW n \in Nat, IsSeq(a), Len(a) = n, \A k \in 1..n : a[k] # Unset
    PROVE  LET new == Append(a, x) \o Spare(n)
           IN  /\ ArrayShape(new) /\ n + 1 \in 0..Len(new)
               /\ \A k \in 1..(n + 1) : new[k] # Unset
               /\ \A k \in DOMAIN new : k > n + 1 => new[k] = Unset
<1> DEFINE b == Append(a, x)
           e == Spare(n)
           A == ToSet(a) \cup {x, Unset}
           new == b \o e
<1>1. a \in Seq(A)
  BY SeqElements
<1>2. e \in Seq(A) /\ \A k \in DOMAIN e : e[k] = Unset
  <2>1. CASE n > 1
    <3>1. n - 1 \in Nat /\ Unset \in A
      BY <2>1
    <3>2. e = [i \in 1..(n - 1) |-> Unset]
      BY <2>1 DEF When, Spare
    <3> HIDE DEF e, A
    <3> QED BY <3>1, <3>2
  <2>2. CASE ~(n > 1)
    BY <2>2 DEF When, Spare
  <2> QED BY <2>1, <2>2
<1>3. b \in Seq(A) /\ Len(b) = n + 1 /\ b[n + 1] = x /\ \A k \in 1..n : b[k] = a[k]
  <2>1. x \in A
    OBVIOUS
  <2> HIDE DEF A
  <2> QED BY <1>1, <2>1
<1> HIDE DEF A, b, e
<1>4. new \in Seq(A) /\ Len(new) = Len(b) + Len(e) /\ Len(e) \in Nat
  BY <1>2, <1>3
<1>5. \A k \in 1..(n + 1) : new[k] = b[k] /\ b[k] # Unset
  <2> TAKE k \in 1..(n + 1)
  <2>1. new[k] = b[k]
    BY <1>2, <1>3
  <2>2. k \in 1..n \/ k = n + 1
    OBVIOUS
  <2> QED BY <1>3, <2>1, <2>2
<1>6. \A k \in 1..Len(new) : k > n + 1 => new[k] = Unset
  <2> SUFFICES ASSUME NEW k \in 1..Len(new), k > n + 1 PROVE new[k] = Unset
    OBVIOUS
  <2>1. k - (n + 1) \in 1..Len(e) /\ new[k] = e[k - (n + 1)]
    BY <1>2, <1>3, <1>4
  <2> QED BY <1>2, <2>1
<1> HIDE DEF new
<1>7. DOMAIN new = 1..Len(new) /\ IsSeq(new)
  BY <1>4, SeqElements
<1>8. n + 1 \in 0..Len(new)
  BY <1>3, <1>4
<1>9. ASSUME NEW k \in DOMAIN new, NEW l \in DOMAIN new, new[k] = Unset, k < l PROVE new[l] = Unset
  <2>1. k \in Nat /\ l \in Nat /\ k \in 1..Len(new) /\ l \in 1..Len(new)
    BY <1>4, <1>7
  <2>2. k \notin 1..(n + 1)
    BY <1>5, <1>9
  <2>3. l > n + 1
    BY <1>9, <2>1, <2>2
  <2> QED BY <1>6, <2>1, <2>3
<1>10. ArrayShape(new)
  BY <1>7, <1>9 DEF ArrayShape, IsSeq
<1> QED BY <1>5, <1>6, <1>7, <1>8, <1>10 DEF new, b, e

\* What may happen to arrays and slice when an element is appended.
Extended(h, s, g, t) ==
    /\ HeapShape(g) /\ Grown(h, g) /\ SliceShape(g, t)
    /\ Free(h, s) => Intact(h, g) /\ Free(g, t)

\* To append to a copy changes no array there is.
LEMMA CopyExtends ==
    ASSUME NEW h, NEW s, NEW x, x # Unset, HeapShape(h), SliceShape(h, s)
    PROVE  LET r == AppendToCopy(h, s, x)
           IN  Extended(h, s, r.heap, r.slice) /\ Intact(h, r.heap)
<1> DEFINE n   == s.len
           a   == SliceOf(h, s)
           new == Append(a, x) \o Spare(n)
           g   == Append(h, new)
           t   == [arr |-> Len(h) + 1, len |-> n + 1]
<1>1. AppendToCopy(h, s, x).heap = g /\ AppendToCopy(h, s, x).slice = t
  BY DEF AppendToCopy
<1>2. n \in Nat /\ IsSeq(a) /\ Len(a) = n /\ \A k \in 1..n : a[k] # Unset
  <2>1. CASE s.arr = 0
    BY <2>1, SliceFacts, SmallSeqs DEF SliceOf
  <2>2. CASE s.arr # 0
    <3> DEFINE y == h[s.arr]
    <3>1. IsSeq(y) /\ n \in Nat /\ n \in 0..Len(y) /\ \A k \in 1..n : y[k] # Unset
      BY <2>2, SliceFacts
    <3>2. a = SubSeq(y, 1, n)
      BY <2>2 DEF SliceOf
    <3> HIDE DEF y, n, a
    <3>3. Len(SubSeq(y, 1, n)) = n /\ SubSeq(y, 1, n) \in Seq(ToSet(y)) /\ \A k \in 1..n : SubSeq(y, 1, n)[k] = y[k]
      BY <3>1 DEF IsSeq
    <3> QED BY <3>1, <3>2, <3>3, SeqElements
  <2> QED BY <2>1, <2>2
<1>10. PICK m : m = n
  OBVIOUS
<1>11. PICK y : y = a
  OBVIOUS
<1> HIDE DEF n, a
<1>3. /\ ArrayShape(new) /\ n + 1 \in 0..Len(new) /\ \A k \in 1..(n + 1) : new[k] # Unset
      /\ \A k \in DOMAIN new : k > n + 1 => new[k] = Unset
  <2>1. m \in Nat /\ IsSeq(y) /\ Len(y) = m /\ (\A k \in 1..m : y[k] # Unset) /\ new = Append(y, x) \o Spare(m)
    BY <1>2, <1>10, <1>11
  <2> HIDE DEF new
  <2>2. /\ ArrayShape(new) /\ m + 1 \in 0..Len(new) /\ \A k \in 1..(m + 1) : new[k] # Unset
        /\ \A k \in DOMAIN new : k > m + 1 => new[k] = Unset
    BY <2>1, CopyArray
  <2> QED BY <1>10, <2>2
<1> HIDE DEF new
<1>4. IsSeq(h) /\ DOMAIN h = 1..Len(h) /\ Len(h) \in Nat
  BY SeqDomain DEF HeapShape
<1>5. /\ IsSeq(g) /\ DOMAIN g = 1..(Len(h) + 1) /\ g[Len(h) + 1] = new
      /\ \A b \in DOMAIN h : b \in DOMAIN g /\ g[b] = h[b]
  BY <1>4, AppendElements DEF IsSeq
<1>6. HeapShape(g)
  <2> SUFFICES ASSUME NEW b \in DOMAIN g PROVE ArrayShape(g[b])
    BY <1>5 DEF HeapShape
  <2>1. b \in DOMAIN h \/ b = Len(h) + 1
    BY <1>4, <1>5
  <2> QED BY <1>3, <1>5, <2>1 DEF HeapShape
<1>7. Grown(h, g) /\ Intact(h, g)
  BY <1>5, <1>6 DEF Grown, Intact, HeapShape
<1>8. SliceShape(g, t)
  <2>1. Len(h) + 1 \in DOMAIN g
    BY <1>4, <1>5
  <2>2. t.arr = Len(h) + 1 /\ t.len = n + 1 /\ DOMAIN t = {"arr", "len"}
    OBVIOUS
  <2> HIDE DEF t, g
  <2> QED BY <1>3, <1>5, <2>1, <2>2 DEF SliceShape
<1>9. Free(g, t)
  <2>1. SUFFICES ASSUME n + 1 < Len(new) PROVE new[(n + 1) + 1] = Unset
    BY <1>5 DEF Free, Room
  <2>2. IsSeq(new)
    BY <1>3 DEF ArrayShape, IsSeq
  <2>3. (n + 1) + 1 \in DOMAIN new /\ (n + 1) + 1 > n + 1
    <3>1. Len(new) \in Nat /\ DOMAIN new = 1..Len(new)
      BY <2>2, SeqDomain
    <3> QED BY <1>2, <2>1, <3>1
  <2> QED BY <1>3, <2>3
<1> QED BY <1>1, <1>6, <1>7, <1>8, <1>9 DEF Extended

\* To fill the cell behind a slice of an array.
LEMMA CellFilled ==
    ASSUME NEW a, NEW x, x # Unset, ArrayShape(a), NEW n \in Nat, n < Len(a), \A k \in 1..n : a[k] # Unset
    PROVE  LET b == [a EXCEPT ![n + 1] = x]
           IN  /\ ArrayShape(b) /\ Len(b) = Len(a)
               /\ \A k \in 1..Len(a) : a[k] # Unset => b[k] # Unset
               /\ \A k \in 1..(n + 1) : b[k] # Unset
               /\ a[n + 1] = Unset => /\ \A k \in 1..Len(a) : a[k] # Unset => b[k] = a[k]
                                      /\ n + 1 < Len(b) => b[(n + 1) + 1] = Unset
<1> DEFINE b == [a EXCEPT ![n + 1] = x]
           A == ToSet(a) \cup {x}
<1>0. IsSeq(a) /\ \A k, l \in DOMAIN a : a[k] = Unset /\ k < l => a[l] = Unset
  BY DEF ArrayShape, IsSeq
<1>1. Len(a) \in Nat /\ DOMAIN a = 1..Len(a) /\ n + 1 \in DOMAIN a
  <2>1. Len(a) \in Nat /\ DOMAIN a = 1..Len(a)
    BY <1>0, SeqDomain
  <2> QED BY <2>1
<1>2. DOMAIN b = DOMAIN a /\ b[n + 1] = x /\ \A k \in DOMAIN a : k # n + 1 => b[k] = a[k]
  BY <1>1
<1>3. IsSeq(b) /\ Len(b) = Len(a)
  <2>1. a \in Seq(A) /\ x \in A
    BY <1>0, SeqElements
  <2> HIDE DEF A
  <2>2. b \in Seq(A) /\ Len(b) = Len(a)
    BY <1>1, <2>1
  <2> HIDE DEF b
  <2> QED BY <2>2, SeqElements
<1> HIDE DEF b
<1>4. ASSUME NEW k \in DOMAIN b, NEW l \in DOMAIN b, b[k] = Unset, k < l PROVE b[l] = Unset
  <2>1. k # n + 1 /\ k \in DOMAIN a /\ l \in DOMAIN a /\ a[k] = Unset
    BY <1>2, <1>4
  <2>2. k \in Nat /\ l \in Nat /\ k \notin 1..n /\ k \in 1..Len(a)
    BY <1>1, <2>1
  <2>3. l # n + 1
    BY <1>4, <2>1, <2>2
  <2>4. b[l] = a[l]
    BY <1>2, <2>1, <2>3
  <2> QED BY <1>0, <1>4, <2>1, <2>4
<1>5. ArrayShape(b)
  BY <1>3, <1>4 DEF ArrayShape, IsSeq
<1>6. \A k \in 1..(n + 1) : b[k] # Unset
  <2> TAKE k \in 1..(n + 1)
  <2>1. k = n + 1 \/ (k \in 1..n /\ k \in DOMAIN a /\ k # n + 1)
    BY <1>1
  <2> QED BY <1>2, <2>1
<1>7. ASSUME a[n + 1] = Unset, n + 1 < Len(b) PROVE b[(n + 1) + 1] = Unset
  <2>1. (n + 1) + 1 \in DOMAIN a /\ n + 1 < (n + 1) + 1 /\ (n + 1) + 1 # n + 1
    BY <1>1, <1>3, <1>7
  <2> QED BY <1>0, <1>1, <1>2, <1>7, <2>1
<1>8. \A k \in 1..Len(a) : a[k] # Unset => b[k] # Unset /\ (a[n + 1] = Unset => b[k] = a[k])
  BY <1>1, <1>2
<1> QED BY <1>3, <1>5, <1>6, <1>7, <1>8 DEF b

\* To append to a slice where it lies.
LEMMA AppendExtends ==
    ASSUME NEW h, NEW s, NEW x, x # Unset, HeapShape(h), SliceShape(h, s)
    PROVE  LET r == AppendInPlace(h, s, x) IN Extended(h, s, r.heap, r.slice)
<1>1. CASE ~Room(h, s)
  BY <1>1, CopyExtends DEF AppendInPlace
<1>2. CASE Room(h, s)
  <2> DEFINE a == h[s.arr]
             n == s.len
             b == [a EXCEPT ![n + 1] = x]
             g == [h EXCEPT ![s.arr] = b]
             t == [s EXCEPT !.len = n + 1]
  <2>1. AppendInPlace(h, s, x).heap = g /\ AppendInPlace(h, s, x).slice = t
    BY <1>2 DEF AppendInPlace
  <2>2. /\ s.arr # 0 /\ n < Len(a) /\ s.arr \in DOMAIN h /\ n \in Nat /\ DOMAIN s = {"arr", "len"}
        /\ \A k \in 1..n : a[k] # Unset
    BY <1>2, SliceFacts DEF Room
  <2>3. ArrayShape(a) /\ IsSeq(h) /\ \A c \in DOMAIN h : ArrayShape(h[c])
    BY <2>2 DEF HeapShape
  <2>4. /\ ArrayShape(b) /\ Len(b) = Len(a)
        /\ \A k \in 1..Len(a) : a[k] # Unset => b[k] # Unset
        /\ \A k \in 1..(n + 1) : b[k] # Unset
        /\ a[n + 1] = Unset => /\ \A k \in 1..Len(a) : a[k] # Unset => b[k] = a[k]
                               /\ n + 1 < Len(b) => b[(n + 1) + 1] = Unset
    <3> HIDE DEF a, n
    <3> QED BY <2>2, <2>3, CellFilled
  <2> HIDE DEF b
  <2>5. DOMAIN g = DOMAIN h /\ g[s.arr] = b /\ \A c \in DOMAIN h : c # s.arr => g[c] = h[c]
    BY <2>2
  <2>6. IsSeq(g)
    <3> DEFINE A == ToSet(h) \cup {b}
    <3>1. h \in Seq(A) /\ b \in A
      BY <2>3, SeqElements
    <3> HIDE DEF A
    <3>2. g \in Seq(A)
      BY <2>2, <3>1
    <3> HIDE DEF g
    <3> QED BY <3>2, SeqElements
  <2>7. t.arr = s.arr /\ t.len = n + 1 /\ DOMAIN t = {"arr", "len"}
    BY <2>2
  <2> HIDE DEF g, t
  <2>8. HeapShape(g)
    BY <2>3, <2>4, <2>5, <2>6 DEF HeapShape
  <2>9. Grown(h, g)
    <3>1. ASSUME NEW c \in DOMAIN h PROVE Len(g[c]) = Len(h[c]) /\ \A k \in 1..Len(h[c]) : h[c][k] # Unset => g[c][k] # Unset
      <4>1. CASE c = s.arr
        BY <2>4, <2>5, <4>1
      <4>2. CASE c # s.arr
        BY <2>5, <4>2
      <4> QED BY <4>1, <4>2
    <3> QED BY <2>5, <2>8, <3>1 DEF Grown, HeapShape
  <2>10. SliceShape(g, t)
    <3>1. n + 1 \in 0..Len(b)
      <4>1. Len(a) \in Nat
        BY <2>3, SeqDomain DEF ArrayShape, IsSeq
      <4> HIDE DEF a, n
      <4> QED BY <2>2, <2>4, <4>1
    <3> HIDE DEF n
    <3> QED BY <2>2, <2>4, <2>5, <2>7, <3>1 DEF SliceShape
  <2>11. ASSUME Free(h, s) PROVE Intact(h, g) /\ Free(g, t)
    <3>1. a[n + 1] = Unset
      BY <1>2, <2>11 DEF Free
    <3>2. Intact(h, g)
      <4>1. ASSUME NEW c \in DOMAIN h, NEW k \in 1..Len(h[c]), h[c][k] # Unset PROVE g[c][k] = h[c][k]
        <5>1. CASE c = s.arr
          BY <2>4, <2>5, <3>1, <4>1, <5>1
        <5>2. CASE c # s.arr
          BY <2>5, <5>2
        <5> QED BY <5>1, <5>2
      <4> QED BY <4>1 DEF Intact
    <3>3. Free(g, t)
      BY <2>4, <2>5, <2>7, <3>1 DEF Free, Room
    <3> QED BY <3>2, <3>3
  <2> QED BY <2>1, <2>8, <2>9, <2>10, <2>11 DEF Extended
<1> QED BY <1>1, <1>2

--------------------------------------------------------------------------------
(* Upserts                                                                   *)

\* The copy of an upsert clause is one.
LEMMA CopiedClause ==
    ASSUME NEW b, NEW h, InsertShape(b, h)
    PROVE  DOMAIN UpsertCopy(b) = DOMAIN NoUpsert /\ SliceShape(h, UpsertCopy(b).sets)
<1>1. CASE b.upsert = Nil
  BY <1>1, Fieldnames DEF UpsertCopy, SliceShape
<1>2. CASE b.upsert # Nil
  BY <1>2 DEF UpsertCopy, InsertShape, BuilderShape
<1> QED BY <1>1, <1>2

\* An INSERT with another upsert clause.
LEMMA WithClause ==
    ASSUME NEW b, NEW h, NEW g, NEW u, InsertShape(b, h), IsSeq(h), Grown(h, g),
           DOMAIN u = DOMAIN NoUpsert, SliceShape(g, u.sets)
    PROVE  LET c == [b EXCEPT !.upsert = u] IN InsertShape(c, g) /\ c.buildErr = b.buildErr
<1> DEFINE c == [b EXCEPT !.upsert = u]
<1>1. DOMAIN b = DOMAIN InsertInto(Nil) /\ b.kind = "insert" /\ b.buildErr \in BOOLEAN
  BY DEF InsertShape, BuilderShape
<1>2. /\ DOMAIN c = DOMAIN b /\ c.kind = "insert" /\ c.rows = b.rows /\ c.colNames = b.colNames /\ c.upsert = u
      /\ c.buildErr = b.buildErr
  BY <1>1, Fieldnames
<1> HIDE DEF c
<1>3. BuilderShape(c, g)
  BY <1>1, <1>2 DEF InsertShape, BuilderShape
<1> QED BY <1>1, <1>2, <1>3 DEF InsertShape, c

\* An explicit assignment is appended to a copy.
LEMMA OneAssignment ==
    ASSUME NEW b, NEW h, NEW a, HeapShape(h), InsertShape(b, h), a # Unset
    PROVE  LET r == DoUpdateSetOf(h, b, a)
           IN  Grown(h, r.heap) /\ Intact(h, r.heap) /\ InsertShape(r.builder, r.heap) /\ r.builder.buildErr = b.buildErr
<1> DEFINE x == AppendToCopy(h, UpsertCopy(b).sets, a)
           g == x.heap
           t == x.slice
           u == [UpsertCopy(b) EXCEPT !.doNothing = FALSE, !.sets = t]
<1>1. Grown(h, g) /\ Intact(h, g) /\ SliceShape(g, t)
  BY CopiedClause, CopyExtends DEF Extended
<1>2. DoUpdateSetOf(h, b, a).heap = g /\ DoUpdateSetOf(h, b, a).builder = [b EXCEPT !.upsert = u]
  BY DEF DoUpdateSetOf, Upserting
<1> HIDE DEF x
<1>3. DOMAIN u = DOMAIN NoUpsert /\ u.sets = t
  BY CopiedClause, Fieldnames
<1> HIDE DEF u
<1>4. IsSeq(h)
  BY DEF HeapShape
<1> QED BY <1>1, <1>2, <1>3, <1>4, WithClause

\* The arrays and the slice after every assignment of a struct.
AppendedBy(h, b, row, pairs, f) ==
    /\ f[0].heap = h /\ f[0].slice = UpsertCopy(b).sets
    /\ \A n \in 1..Len(pairs) : f[n] = AppendInPlace(f[n - 1].heap, f[n - 1].slice, pairs[n])
    /\ DoUpdateSetStructOf(h, b, row).heap = f[Len(pairs)].heap
    /\ DoUpdateSetStructOf(h, b, row).builder = Upserting(b, f[Len(pairs)].slice)

\* The recursive definition inside DoUpdateSetStructOf defines a function.
LEMMA AppendedDef ==
    ASSUME NEW h, NEW b, NEW row, StructSetsForUpdate(row).err = FALSE,
           NEW pairs, pairs = Pairs(StructSetsForUpdate(row)), Len(pairs) \in Nat
    PROVE  \E f : AppendedBy(h, b, row, pairs, f)
<1> DEFINE First == [heap |-> h, slice |-> UpsertCopy(b).sets]
           Next1(x, n) == AppendInPlace(x.heap, x.slice, pairs[n])
           Def(g, n) == g = [i \in 0..n |-> IF i = 0 THEN First ELSE Next1(g[i - 1], i)]
           S == {n \in Nat : \E g : Def(g, n)}
<1>1. 0 \in S
  <2>1. Def([i \in 0..0 |-> First], 0)
    OBVIOUS
  <2> QED BY <2>1
<1>2. ASSUME NEW n \in Nat, n \in S PROVE n + 1 \in S
  <2>1. PICK g : Def(g, n)
    BY <1>2
  <2> DEFINE Last1 == Next1(g[n], n + 1)
             k == [i \in 0..(n + 1) |-> IF i = n + 1 THEN Last1 ELSE g[i]]
  <2> HIDE DEF Next1, First
  <2>2. ASSUME NEW i \in 0..(n + 1)
        PROVE  k[i] = IF i = 0 THEN First ELSE Next1(k[i - 1], i)
    <3>1. CASE i = n + 1
      <4>1. n \in 0..(n + 1) /\ i - 1 = n /\ i # 0 /\ n # n + 1
        BY <3>1
      <4> QED BY <3>1, <4>1
    <3>2. CASE i = 0
      BY <2>1, <3>2
    <3>3. CASE i # n + 1 /\ i # 0
      <4>1. i \in 0..n /\ i - 1 \in 0..n /\ i - 1 # n + 1 /\ i - 1 \in 0..(n + 1)
        BY <3>3
      <4>2. g[i] = Next1(g[i - 1], i)
        BY <2>1, <3>3, <4>1
      <4> QED BY <3>3, <4>1, <4>2
    <3> QED BY <3>1, <3>2, <3>3
  <2>3. Def(k, n + 1)
    BY <2>2
  <2>4. \E j : Def(j, n + 1)
    <3> HIDE DEF k, Def
    <3> QED BY <2>3
  <2> HIDE DEF k, Def
  <2> QED BY <2>4
<1>3. Len(pairs) \in S
  <2> HIDE DEF S
  <2> QED BY <1>1, <1>2, NatSetInduction
<1>4. \E g : Def(g, Len(pairs))
  BY <1>3
<1> DEFINE f == CHOOSE g : Def(g, Len(pairs))
<1>5. Def(f, Len(pairs))
  BY <1>4
<1>6. /\ DoUpdateSetStructOf(h, b, row).heap = f[Len(pairs)].heap
      /\ DoUpdateSetStructOf(h, b, row).builder = Upserting(b, f[Len(pairs)].slice)
  BY DEF DoUpdateSetStructOf
<1> HIDE DEF f
<1>7. f[0] = First /\ \A n \in 1..Len(pairs) : f[n] = Next1(f[n - 1], n)
  <2> HIDE DEF Next1, First
  <2> QED BY <1>5
<1> QED BY <1>6, <1>7 DEF AppendedBy

\* The assignments of a struct are appended where the clause lies.
LEMMA StructAssignments ==
    ASSUME NEW b, NEW h, NEW row, HeapShape(h), InsertShape(b, h), RowShape(row)
    PROVE  LET r == DoUpdateSetStructOf(h, b, row)
           IN  /\ Grown(h, r.heap) /\ InsertShape(r.builder, r.heap)
               /\ b.buildErr \/ BadStruct(row) => r.builder.buildErr
               /\ Free(h, UpsertCopy(b).sets) => Intact(h, r.heap)
<1> DEFINE r == DoUpdateSetStructOf(h, b, row)
           q == StructSetsForUpdate(row)
<1>0. Grown(h, h) /\ Intact(h, h) /\ IsSeq(h)
  BY DEF Grown, Intact, HeapShape
<1>1. CASE BadStruct(row)
  <2>1. q.err
    BY <1>1, StructPairs
  <2>2. r.heap = h /\ r.builder = [b EXCEPT !.buildErr = TRUE]
    BY <2>1 DEF DoUpdateSetStructOf
  <2>3. DOMAIN b = DOMAIN InsertInto(Nil) /\ b.kind = "insert"
    BY DEF InsertShape, BuilderShape
  <2> DEFINE c == [b EXCEPT !.buildErr = TRUE]
  <2>4. /\ DOMAIN c = DOMAIN b /\ c.kind = "insert" /\ c.rows = b.rows /\ c.colNames = b.colNames /\ c.upsert = b.upsert
        /\ c.buildErr = TRUE
    BY <2>3, Fieldnames
  <2> HIDE DEF c
  <2>5. InsertShape(c, h)
    BY <2>3, <2>4 DEF InsertShape, BuilderShape
  <2> QED BY <1>0, <2>2, <2>4, <2>5 DEF c
<1>2. CASE ~BadStruct(row)
  <2> DEFINE pairs == Pairs(q)
             s == UpsertCopy(b).sets
  <2>1. q.err = FALSE /\ IsSeq(pairs) /\ \A k \in DOMAIN pairs : pairs[k] # Unset
    BY <1>2, StructPairs
  <2>2. Len(pairs) \in Nat /\ DOMAIN pairs = 1..Len(pairs)
    BY <2>1, SeqDomain
  <2>10. \E f : AppendedBy(h, b, row, pairs, f)
    <3>1. PICK p : p = pairs
      OBVIOUS
    <3>2. StructSetsForUpdate(row).err = FALSE /\ p = Pairs(StructSetsForUpdate(row)) /\ Len(p) \in Nat
      BY <2>1, <2>2, <3>1
    <3> HIDE DEF pairs
    <3> QED BY <3>1, <3>2, AppendedDef
  <2>3. PICK f : /\ f[0].heap = h /\ f[0].slice = s
                 /\ \A n \in 1..Len(pairs) : f[n] = AppendInPlace(f[n - 1].heap, f[n - 1].slice, pairs[n])
                 /\ r.heap = f[Len(pairs)].heap /\ r.builder = Upserting(b, f[Len(pairs)].slice)
    BY <2>10 DEF AppendedBy
  <2> HIDE DEF pairs, r, s
  <2> DEFINE P(n) == Extended(h, s, f[n].heap, f[n].slice)
             S == {n \in Nat : n <= Len(pairs) => P(n)}
  <2>4. 0 \in S
    <3>1. SliceShape(h, s)
      BY CopiedClause DEF s
    <3> QED BY <1>0, <2>3, <3>1 DEF Extended
  <2>5. ASSUME NEW n \in Nat, n \in S PROVE n + 1 \in S
    <3>1. SUFFICES ASSUME n + 1 <= Len(pairs) PROVE P(n + 1)
      <4> HIDE DEF P
      <4> QED OBVIOUS
    <3>2. P(n) /\ n + 1 \in 1..Len(pairs) /\ (n + 1) - 1 = n
      BY <2>2, <2>5, <3>1
    <3> DEFINE g == f[n].heap
               t == f[n].slice
               x == pairs[n + 1]
    <3>3. f[n + 1] = AppendInPlace(g, t, x) /\ x # Unset
      BY <2>1, <2>2, <2>3, <3>2
    <3>4. Extended(h, s, g, t)
      BY <3>2
    <3> HIDE DEF g, t, x
    <3>5. Extended(g, t, f[n + 1].heap, f[n + 1].slice)
      BY <3>3, <3>4, AppendExtends DEF Extended
    <3> QED BY <3>4, <3>5, GrownTwice DEF Extended
  <2>6. P(Len(pairs))
    <3>1. Len(pairs) \in S
      <4> HIDE DEF S
      <4> QED BY <2>2, <2>4, <2>5, NatSetInduction
    <3> QED BY <2>2, <3>1
  <2> DEFINE g == f[Len(pairs)].heap
             t == f[Len(pairs)].slice
             u == [UpsertCopy(b) EXCEPT !.doNothing = FALSE, !.sets = t]
  <2>7. Extended(h, s, g, t) /\ r.heap = g /\ r.builder = [b EXCEPT !.upsert = u]
    BY <2>3, <2>6 DEF Upserting
  <2>8. DOMAIN u = DOMAIN NoUpsert /\ u.sets = t
    BY CopiedClause, Fieldnames
  <2> HIDE DEF u, g, t
  <2>9. InsertShape(r.builder, g) /\ r.builder.buildErr = b.buildErr
    BY <1>0, <2>7, <2>8, WithClause DEF Extended
  <2> QED BY <1>2, <2>7, <2>9 DEF Extended, r, s
<1> QED BY <1>1, <1>2

--------------------------------------------------------------------------------
(* The calls that are left                                                   *)

\* The conditions that hold another query, or the keys of a preload.
LEMMA SubqueryCalls ==
    ASSUME IInv, AndExists \/ AndIn \/ Preload
    PROVE  IInv' /\ Unchanged
<1>1. PICK i \in Of({"select", "update", "delete"}) : \E e, name, cs :
         Make(SetWhere(built[i], e), heap, [Called(i, name) EXCEPT !.conds = cs])
  <2>1. CASE AndExists
    BY <2>1 DEF AndExists, AndWhere
  <2>2. CASE AndIn
    BY <2>2 DEF AndIn, AndWhere
  <2>3. CASE Preload
    BY <2>3 DEF Preload, Of
  <2> QED BY <2>1, <2>2, <2>3
<1>2. BuilderShape(built[i], heap) /\ built[i].kind \in {"select", "update", "delete"}
  BY OldBuilder
<1>3. \A e : LooksLike(SetWhere(built[i], e), built[i])
  BY <1>2, Fieldnames DEF LooksLike, BuilderShape, SetWhere
<1> QED BY <1>1, <1>3, OldBuilder, ModestCall

\* A further join is of a known kind.
LEMMA JoinCall ==
    ASSUME IInv, Join
    PROVE  IInv' /\ Unchanged
<1>1. PICK i \in Of({"select"}), j \in Joined : Call(i, "Join", [built[i] EXCEPT !.joins = Append(@, j)])
  BY DEF Join
<1>2. BuilderShape(built[i], heap) /\ built[i].kind = "select" /\ SaidShape(built[i], said[i])
  BY OldBuilder
<1> DEFINE b == built[i]
           x == Append(b.joins, j)
           c == [b EXCEPT !.joins = Append(@, j)]
           s == Called(i, "Join")
<1>3. IsSeq(b.joins) /\ (\A k \in DOMAIN b.joins : b.joins[k].kind \in JoinKinds) /\ DOMAIN b = DOMAIN Select(<<>>)
  BY <1>2 DEF BuilderShape, IsSeq
<1>4. IsSeq(x) /\ \A k \in DOMAIN x : x[k].kind \in JoinKinds
  <2>1. j.kind \in JoinKinds
    BY BuildersAssumption
  <2>2. Len(b.joins) \in Nat /\ DOMAIN b.joins = 1..Len(b.joins)
    BY <1>3, SeqDomain
  <2>3. IsSeq(x) /\ DOMAIN x = 1..(Len(b.joins) + 1) /\ x[Len(b.joins) + 1] = j /\ \A k \in DOMAIN b.joins : x[k] = b.joins[k]
    BY <1>3, <2>2, AppendElements DEF IsSeq
  <2> HIDE DEF x
  <2>4. ASSUME NEW k \in DOMAIN x PROVE x[k].kind \in JoinKinds
    <3>1. k \in DOMAIN b.joins \/ k = Len(b.joins) + 1
      BY <2>2, <2>3
    <3> QED BY <1>3, <2>1, <2>3, <3>1
  <2> QED BY <2>3, <2>4
<1>5. DOMAIN c = DOMAIN b /\ c.kind = "select" /\ c.joins = x
  BY <1>2, <1>3, Fieldnames
<1>6. Make(c, heap, s)
  BY <1>1 DEF Call
<1> HIDE DEF x, c
<1>7. BuilderShape(c, heap)
  BY <1>3, <1>4, <1>5 DEF BuilderShape, IsSeq
<1>8. AsksLike(s, i) /\ i \in DOMAIN built
  BY OldBuilder
<1>9. SaidShape(c, s) /\ s.from \in DOMAIN built
  <2> HIDE DEF s
  <2> QED BY <1>2, <1>5, <1>8 DEF SaidShape, AsksLike
<1>10. Grown(heap, heap) /\ Intact(heap, heap)
  BY DEF Grown, Intact, IInv, TypeOK
<1> HIDE DEF s
<1> QED BY <1>6, <1>7, <1>9, <1>10, MakeKeeps

\* A set operation is a builder of another kind, made of two queries.
LEMMA SetOperationCall ==
    ASSUME IInv, SetOperation
    PROVE  IInv' /\ Unchanged
<1>1. PICK i \in Of({"select"}), j \in Of({"select"}), op \in SetOperators :
         Make(NewSetOp(built[i], op, built[j]), heap, [Called(i, op) EXCEPT !.conds = <<>>])
  BY DEF SetOperation
<1> DEFINE c == NewSetOp(built[i], op, built[j])
           s == [Called(i, op) EXCEPT !.conds = <<>>]
<1>2. AsksLike(s, i) /\ i \in DOMAIN built /\ built[i].kind = "select" /\ SaidShape(built[i], said[i])
  BY OldBuilder
<1>3. c.kind = "setop" /\ DOMAIN c = DOMAIN NewSetOp(Nil, "", Nil)
  BY DEF NewSetOp
<1>4. Make(c, heap, s)
  BY <1>1
<1> HIDE DEF c, s
<1>5. BuilderShape(c, heap)
  BY <1>3 DEF BuilderShape
<1>6. SaidShape(c, s) /\ s.from \in DOMAIN built
  BY <1>2, <1>3 DEF SaidShape, AsksLike
<1>7. Grown(heap, heap) /\ Intact(heap, heap)
  BY DEF Grown, Intact, IInv, TypeOK
<1> QED BY <1>4, <1>5, <1>6, <1>7, MakeKeeps

\* A struct that cannot be read leaves its error on the UPDATE.
LEMMA UpdateSetStructCall ==
    ASSUME IInv, UpdateSetStruct
    PROVE  IInv' /\ Unchanged
<1>1. PICK i \in Of({"update"}), row \in Rows :
         Make(SetStructOf(built[i], row), heap, [Called(i, "SetStruct") EXCEPT !.bad = @ \/ BadStruct(row)])
  BY DEF UpdateSetStruct
<1> DEFINE b == built[i]
           c == SetStructOf(b, row)
           s == [Called(i, "SetStruct") EXCEPT !.bad = @ \/ BadStruct(row)]
           r == StructSetsForUpdate(row)
<1>2. /\ i \in DOMAIN built /\ b.kind = "update" /\ SaidShape(b, said[i]) /\ BuilderShape(b, heap)
      /\ DOMAIN Called(i, "SetStruct") = DOMAIN said[i] /\ Called(i, "SetStruct").bad = said[i].bad
      /\ Called(i, "SetStruct").from = i
  BY OldBuilder
<1>3. RowShape(row)
  BY BuildersAssumption
<1>4. r.err \in BOOLEAN /\ (r.err <=> BadStruct(row))
  BY <1>3, StructPairs
<1>5. DOMAIN b = DOMAIN Update(Nil) /\ DOMAIN s = DOMAIN said[i] /\ s.from = i /\ s.bad = (said[i].bad \/ BadStruct(row))
  BY <1>2 DEF BuilderShape, SaidShape
<1>6. /\ DOMAIN c = DOMAIN b /\ c.kind = "update" /\ c.buildErr \in BOOLEAN
      /\ b.buildErr \/ BadStruct(row) => c.buildErr
  <2>1. CASE r.err
    <3>1. c = [b EXCEPT !.buildErr = TRUE]
      BY <2>1 DEF SetStructOf
    <3> QED BY <1>2, <1>5, <3>1, Fieldnames
  <2>2. CASE ~r.err
    <3>1. c = [b EXCEPT !.sets = b.sets \o Pairs(r)]
      BY <2>2, <1>5, Fieldnames DEF SetStructOf
    <3>2. DOMAIN c = DOMAIN b /\ c.kind = "update" /\ c.buildErr = b.buildErr
      BY <1>2, <1>5, <3>1, Fieldnames
    <3> HIDE DEF r, c
    <3> QED BY <1>2, <1>4, <2>2, <3>2 DEF SaidShape
  <2> QED BY <2>1, <2>2
<1>7. Make(c, heap, s)
  BY <1>1
<1> HIDE DEF c, s, r
<1>8. BuilderShape(c, heap)
  BY <1>5, <1>6 DEF BuilderShape
<1>9. SaidShape(c, s) /\ s.from \in DOMAIN built
  BY <1>2, <1>5, <1>6 DEF SaidShape
<1>10. Grown(heap, heap) /\ Intact(heap, heap)
  BY DEF Grown, Intact, IInv, TypeOK
<1> QED BY <1>7, <1>8, <1>9, <1>10, MakeKeeps

\* What a call on an INSERT may do.
Follows(i, s, bad) == DOMAIN s = DOMAIN said[i] /\ s.from = i /\ s.bad = (said[i].bad \/ bad)

\* A call on an INSERT that keeps its error, and leaves one for a bad row.
LEMMA InsertCall ==
    ASSUME IInv, NEW i \in Of({"insert"}), NEW c, NEW h, NEW s, NEW bad \in BOOLEAN,
           Make(c, h, s), Follows(i, s, bad), Grown(heap, h), InsertShape(c, h),
           built[i].buildErr \/ bad => c.buildErr
    PROVE  IInv' /\ (Intact(heap, h) => Unchanged)
<1>1. i \in DOMAIN built /\ built[i].kind = "insert" /\ SaidShape(built[i], said[i])
  BY OldBuilder
<1>2. BuilderShape(c, h) /\ c.kind = "insert" /\ c.buildErr \in BOOLEAN
  BY DEF InsertShape
<1>3. SaidShape(c, s) /\ s.from \in DOMAIN built
  BY <1>1, <1>2 DEF SaidShape, Follows
<1> QED BY <1>2, <1>3, MakeKeeps

\* What is known of an INSERT that exists.
LEMMA OldInsert ==
    ASSUME IInv, NEW i \in Of({"insert"})
    PROVE  /\ i \in DOMAIN built /\ InsertShape(built[i], heap) /\ HeapShape(heap) /\ IsSeq(heap)
           /\ Grown(heap, heap) /\ Intact(heap, heap)
           /\ \A name : /\ Follows(i, Called(i, name), FALSE)
                        /\ \A bad \in BOOLEAN : Follows(i, [Called(i, name) EXCEPT !.bad = @ \/ bad], bad)
<1>1. i \in DOMAIN built /\ built[i].kind = "insert" /\ SaidShape(built[i], said[i]) /\ BuilderShape(built[i], heap)
  BY OldBuilder
<1>2. IsSeq(heap) /\ \A a \in DOMAIN heap : ArrayShape(heap[a])
  BY DEF IInv, TypeOK
<1>3. InsertShape(built[i], heap)
  BY <1>1 DEF SaidShape, InsertShape
<1>4. ASSUME NEW name
      PROVE  /\ Follows(i, Called(i, name), FALSE)
             /\ \A bad \in BOOLEAN : Follows(i, [Called(i, name) EXCEPT !.bad = @ \/ bad], bad)
  <2> DEFINE s == Called(i, name)
  <2>1. DOMAIN s = DOMAIN said[i] /\ s.from = i /\ s.bad = said[i].bad
    BY OldBuilder
  <2>2. DOMAIN said[i] = {"from", "call", "rows", "bad", "conds"} /\ said[i].bad \in BOOLEAN
    BY <1>1 DEF SaidShape
  <2> HIDE DEF s
  <2>3. ASSUME NEW bad \in BOOLEAN PROVE Follows(i, [s EXCEPT !.bad = @ \/ bad], bad)
    <3> DEFINE z == [s EXCEPT !.bad = @ \/ bad]
    <3>1. DOMAIN z = DOMAIN s /\ z.from = s.from
      BY <2>1, <2>2
    <3>2. z.bad = (s.bad \/ bad)
      BY <2>1, <2>2
    <3> HIDE DEF z
    <3>3. z.bad = (said[i].bad \/ bad)
      BY <2>1, <3>2
    <3>4. Follows(i, z, bad)
      BY <2>1, <3>1, <3>3 DEF Follows
    <3> QED BY <3>4 DEF z
  <2>4. Follows(i, s, FALSE)
    BY <2>1, <2>2 DEF Follows
  <2> QED BY <2>3, <2>4 DEF s
<1> QED BY <1>1, <1>2, <1>3, <1>4 DEF HeapShape, Grown, Intact

\* An INSERT with an error is one.
LEMMA WithError ==
    ASSUME NEW b, NEW h, InsertShape(b, h)
    PROVE  LET c == [b EXCEPT !.buildErr = TRUE] IN InsertShape(c, h) /\ c.buildErr = TRUE
<1> DEFINE c == [b EXCEPT !.buildErr = TRUE]
<1>1. DOMAIN b = DOMAIN InsertInto(Nil) /\ b.kind = "insert"
  BY DEF InsertShape, BuilderShape
<1>2. /\ DOMAIN c = DOMAIN b /\ c.kind = "insert" /\ c.rows = b.rows /\ c.colNames = b.colNames /\ c.upsert = b.upsert
      /\ c.buildErr = TRUE
  BY <1>1, Fieldnames
<1> HIDE DEF c
<1>3. InsertShape(c, h)
  BY <1>1, <1>2 DEF InsertShape, BuilderShape
<1> QED BY <1>2, <1>3 DEF c

\* A call that takes rows is bad with one of them.
LEMMA TookFollows ==
    ASSUME IInv, NEW i \in Of({"insert"}), NEW name, NEW rows
    PROVE  /\ Follows(i, Took(i, name, rows), \E k \in DOMAIN rows : BadStruct(rows[k]))
           /\ \A row : rows = <<row>> => Follows(i, Took(i, name, rows), BadStruct(row))
<1> DEFINE s == Called(i, name)
           bad == \E k \in DOMAIN rows : BadStruct(rows[k])
<1>1. DOMAIN s = DOMAIN said[i] /\ s.from = i /\ s.bad = said[i].bad
  BY OldBuilder
<1>2. DOMAIN said[i] = {"from", "call", "rows", "bad", "conds"} /\ said[i].bad \in BOOLEAN
  <2>1. SaidShape(built[i], said[i])
    BY OldBuilder
  <2> QED BY <2>1 DEF SaidShape
<1>3. Took(i, name, rows) = [s EXCEPT !.rows = @ \o rows, !.bad = @ \/ bad]
  BY DEF Took
<1>4. \A row : rows = <<row>> => (bad <=> BadStruct(row))
  OBVIOUS
<1> DEFINE z == Took(i, name, rows)
<1> HIDE DEF s, bad
<1>5. DOMAIN z = DOMAIN s /\ z.from = s.from
  BY <1>1, <1>2, <1>3
<1>6. z.bad = (s.bad \/ bad)
  BY <1>1, <1>2, <1>3
<1> HIDE DEF z
<1>7. z.bad = (said[i].bad \/ bad)
  BY <1>1, <1>6
<1>8. Follows(i, z, bad)
  BY <1>1, <1>5, <1>7 DEF Follows
<1>9. \A row : rows = <<row>> => Follows(i, z, BadStruct(row))
  BY <1>4, <1>8 DEF Follows
<1> QED BY <1>8, <1>9 DEF z, bad

\* One row, or the rows of a slice.
LEMMA RowCalls ==
    ASSUME IInv, Values \/ ValueSlice \/ ValueSliceOfNothing
    PROVE  IInv' /\ Unchanged
<1>1. CASE Values
  <2>1. PICK i \in Of({"insert"}), row \in Rows : Make(ValuesOf(built[i], row), heap, Took(i, "Values", <<row>>))
    BY <1>1 DEF Values
  <2> DEFINE c == ValuesOf(built[i], row)
             s == Took(i, "Values", <<row>>)
             bad == BadStruct(row)
  <2>2. RowShape(row) /\ bad \in BOOLEAN
    BY BuildersAssumption DEF BadStruct
  <2>3. InsertShape(c, heap) /\ (built[i].buildErr \/ bad => c.buildErr)
    BY <2>2, OldInsert, OneRow
  <2>4. Follows(i, s, bad)
    BY <2>2, OldBuilder, TookFollows
  <2>5. Make(c, heap, s)
    BY <2>1
  <2> HIDE DEF c, s, bad
  <2> QED BY <2>2, <2>3, <2>4, <2>5, OldInsert, InsertCall
<1>2. CASE ValueSlice
  <2>1. PICK i \in Of({"insert"}), rows \in Slices :
           Make(ValueSliceOf(built[i], rows), heap, Took(i, "ValueSlice", rows))
    BY <1>2 DEF ValueSlice
  <2> DEFINE c == ValueSliceOf(built[i], rows)
             s == Took(i, "ValueSlice", rows)
             bad == \E k \in DOMAIN rows : BadStruct(rows[k])
  <2>2. IsSeq(rows) /\ (\A k \in DOMAIN rows : RowShape(rows[k])) /\ bad \in BOOLEAN
    BY BuildersAssumption DEF IsSeq
  <2>3. InsertShape(c, heap) /\ (built[i].buildErr \/ bad => c.buildErr)
    BY <2>2, OldInsert, SomeRows
  <2>4. Follows(i, s, bad)
    BY <2>2, OldBuilder, TookFollows
  <2>5. Make(c, heap, s)
    BY <2>1
  <2> HIDE DEF c, s, bad
  <2> QED BY <2>2, <2>3, <2>4, <2>5, OldInsert, InsertCall
<1>3. CASE ValueSliceOfNothing
  <2>1. PICK i \in Of({"insert"}) :
           Make([built[i] EXCEPT !.buildErr = TRUE], heap, [Called(i, "ValueSlice") EXCEPT !.bad = TRUE])
    BY <1>3 DEF ValueSliceOfNothing
  <2> DEFINE c == [built[i] EXCEPT !.buildErr = TRUE]
             s == [Called(i, "ValueSlice") EXCEPT !.bad = TRUE]
  <2>2. InsertShape(c, heap) /\ c.buildErr = TRUE
    BY OldInsert, WithError
  <2>3. Follows(i, s, TRUE)
    <3> DEFINE z == Called(i, "ValueSlice")
    <3>1. DOMAIN z = DOMAIN said[i] /\ z.from = i
      BY OldBuilder
    <3>2. DOMAIN said[i] = {"from", "call", "rows", "bad", "conds"}
      <4>1. SaidShape(built[i], said[i])
        BY OldBuilder
      <4> QED BY <4>1 DEF SaidShape
    <3> HIDE DEF z
    <3>3. DOMAIN s = DOMAIN z /\ s.from = z.from /\ s.bad = TRUE
      BY <3>1, <3>2 DEF z
    <3> HIDE DEF s
    <3>4. s.bad = (said[i].bad \/ TRUE)
      BY <3>3
    <3> QED BY <3>1, <3>3, <3>4 DEF Follows
  <2>4. Make(c, heap, s)
    BY <2>1
  <2> HIDE DEF c, s
  <2> QED BY <2>2, <2>3, <2>4, OldInsert, InsertCall
<1> QED BY <1>1, <1>2, <1>3

\* Another clause for the INSERT, with the assignments it had or with none.
LEMMA ClauseCall ==
    ASSUME IInv, NEW i \in Of({"insert"}), NEW name, NEW u, Call(i, name, [built[i] EXCEPT !.upsert = u]),
           DOMAIN u = DOMAIN NoUpsert, u.sets \in {UpsertCopy(built[i]).sets, NilSlice}
    PROVE  IInv' /\ Unchanged
<1> DEFINE c == [built[i] EXCEPT !.upsert = u]
           s == Called(i, name)
<1>1. /\ InsertShape(built[i], heap) /\ IsSeq(heap) /\ Grown(heap, heap) /\ Intact(heap, heap)
      /\ Follows(i, s, FALSE)
  BY OldInsert
<1>2. SliceShape(heap, u.sets)
  BY <1>1, CopiedClause DEF SliceShape
<1>3. InsertShape(c, heap) /\ c.buildErr = built[i].buildErr
  BY <1>1, <1>2, WithClause
<1>4. Make(c, heap, s)
  BY DEF Call
<1> HIDE DEF c, s
<1> QED BY <1>1, <1>3, <1>4, InsertCall

\* The calls on an upsert clause that append no assignment.
LEMMA ClauseCalls ==
    ASSUME IInv, OnConflict \/ OnConflictConstraint \/ DoNothing \/ DoUpdateSetExcluded
    PROVE  IInv' /\ Unchanged
<1>1. CASE OnConflict
  <2>1. PICK i \in Of({"insert"}), cols \in Targets :
           Call(i, "OnConflict", [built[i] EXCEPT !.upsert = [UpsertCopy(built[i]) EXCEPT
               !.conflictCols = cols, !.conflictConstraint = "", !.conflictTargetSet = TRUE]])
    BY <1>1 DEF OnConflict
  <2> DEFINE v == UpsertCopy(built[i])
             u == [v EXCEPT !.conflictCols = cols, !.conflictConstraint = "", !.conflictTargetSet = TRUE]
  <2>2. DOMAIN v = DOMAIN NoUpsert
    BY OldInsert, CopiedClause
  <2>3. DOMAIN u = DOMAIN NoUpsert /\ u.sets = v.sets
    <3> HIDE DEF v
    <3> QED BY <2>2, Fieldnames
  <2>4. Call(i, "OnConflict", [built[i] EXCEPT !.upsert = u])
    BY <2>1
  <2> HIDE DEF u
  <2> QED BY <2>3, <2>4, ClauseCall
<1>2. CASE OnConflictConstraint
  <2>1. PICK i \in Of({"insert"}) :
           Call(i, "OnConflictConstraint", [built[i] EXCEPT !.upsert = [UpsertCopy(built[i]) EXCEPT
               !.conflictCols = <<>>, !.conflictConstraint = "uq", !.conflictTargetSet = TRUE]])
    BY <1>2 DEF OnConflictConstraint
  <2> DEFINE v == UpsertCopy(built[i])
             u == [v EXCEPT !.conflictCols = <<>>, !.conflictConstraint = "uq", !.conflictTargetSet = TRUE]
  <2>2. DOMAIN v = DOMAIN NoUpsert
    BY OldInsert, CopiedClause
  <2>3. DOMAIN u = DOMAIN NoUpsert /\ u.sets = v.sets
    <3> HIDE DEF v
    <3> QED BY <2>2, Fieldnames
  <2>4. Call(i, "OnConflictConstraint", [built[i] EXCEPT !.upsert = u])
    BY <2>1
  <2> HIDE DEF u
  <2> QED BY <2>3, <2>4, ClauseCall
<1>3. CASE DoNothing
  <2>1. PICK i \in Of({"insert"}) :
           Call(i, "DoNothing", [built[i] EXCEPT !.upsert = [UpsertCopy(built[i]) EXCEPT
               !.doNothing = TRUE, !.sets = NilSlice, !.excluded = <<>>]])
    BY <1>3 DEF DoNothing
  <2> DEFINE v == UpsertCopy(built[i])
             u == [v EXCEPT !.doNothing = TRUE, !.sets = NilSlice, !.excluded = <<>>]
  <2>2. DOMAIN v = DOMAIN NoUpsert
    BY OldInsert, CopiedClause
  <2>3. DOMAIN u = DOMAIN NoUpsert /\ u.sets = NilSlice
    <3> HIDE DEF v
    <3> QED BY <2>2, Fieldnames
  <2>4. Call(i, "DoNothing", [built[i] EXCEPT !.upsert = u])
    BY <2>1
  <2> HIDE DEF u
  <2> QED BY <2>3, <2>4, ClauseCall
<1>4. CASE DoUpdateSetExcluded
  <2>1. PICK i \in Of({"insert"}), cols \in Targets :
           Call(i, "DoUpdateSetExcluded", [built[i] EXCEPT !.upsert = [UpsertCopy(built[i]) EXCEPT
               !.doNothing = FALSE, !.excluded = @ \o cols]])
    BY <1>4 DEF DoUpdateSetExcluded
  <2> DEFINE v == UpsertCopy(built[i])
             u == [v EXCEPT !.doNothing = FALSE, !.excluded = @ \o cols]
  <2>2. DOMAIN v = DOMAIN NoUpsert
    BY OldInsert, CopiedClause
  <2>3. DOMAIN u = DOMAIN NoUpsert /\ u.sets = v.sets
    <3> HIDE DEF v
    <3> QED BY <2>2, Fieldnames
  <2>4. Call(i, "DoUpdateSetExcluded", [built[i] EXCEPT !.upsert = u])
    BY <2>1
  <2> HIDE DEF u
  <2> QED BY <2>3, <2>4, ClauseCall
<1> QED BY <1>1, <1>2, <1>3, <1>4

\* One explicit assignment: no builder made earlier is touched.
LEMMA DoUpdateSetCall ==
    ASSUME IInv, DoUpdateSet
    PROVE  IInv' /\ Unchanged
<1>1. PICK i \in Of({"insert"}), a \in Assigned :
         LET r == DoUpdateSetOf(heap, built[i], a) IN Make(r.builder, r.heap, Called(i, "DoUpdateSet"))
  BY DEF DoUpdateSet
<1> DEFINE c == DoUpdateSetOf(heap, built[i], a).builder
           h == DoUpdateSetOf(heap, built[i], a).heap
           s == Called(i, "DoUpdateSet")
<1>2. a # Unset
  BY BuildersAssumption
<1>3. Grown(heap, h) /\ Intact(heap, h) /\ InsertShape(c, h) /\ c.buildErr = built[i].buildErr
  BY <1>2, OldInsert, OneAssignment
<1>4. Make(c, h, s) /\ Follows(i, s, FALSE)
  BY <1>1, OldInsert
<1> HIDE DEF c, h, s
<1> QED BY <1>3, <1>4, InsertCall

\* The assignments of a struct: builders made earlier are what they were unless the cell
\* behind the slice is taken.
LEMMA DoUpdateSetStructCall ==
    ASSUME IInv, DoUpdateSetStruct
    PROVE  IInv' /\ (~Aliasing => Unchanged)
<1>1. PICK i \in Of({"insert"}), row \in Rows :
         LET r == DoUpdateSetStructOf(heap, built[i], row)
         IN  /\ Aliasing \/ ~Overwrites(built[i])
             /\ Make(r.builder, r.heap, [Called(i, "DoUpdateSetStruct") EXCEPT !.bad = @ \/ BadStruct(row)])
  BY DEF DoUpdateSetStruct
<1> DEFINE c == DoUpdateSetStructOf(heap, built[i], row).builder
           h == DoUpdateSetStructOf(heap, built[i], row).heap
           bad == BadStruct(row)
           s == [Called(i, "DoUpdateSetStruct") EXCEPT !.bad = @ \/ bad]
<1>2. RowShape(row) /\ bad \in BOOLEAN
  BY BuildersAssumption DEF BadStruct
<1>3. /\ Grown(heap, h) /\ InsertShape(c, h) /\ (built[i].buildErr \/ bad => c.buildErr)
      /\ Free(heap, UpsertCopy(built[i]).sets) => Intact(heap, h)
  BY <1>2, OldInsert, StructAssignments
<1>4. Make(c, h, s) /\ (Aliasing \/ ~Overwrites(built[i]))
  BY <1>1
<1>5. Follows(i, s, bad)
  <2> HIDE DEF bad
  <2> QED BY <1>2, OldInsert
<1>6. ~Aliasing => Free(heap, UpsertCopy(built[i]).sets)
  BY <1>4 DEF Overwrites, Free
<1> HIDE DEF c, h, s, bad
<1> QED BY <1>2, <1>3, <1>4, <1>5, <1>6, InsertCall

--------------------------------------------------------------------------------
(* Programs                                                                  *)

\* To build leaves the builders as they are.
LEMMA BuildNewestKeeps ==
    ASSUME IInv, BuildNewest
    PROVE  IInv' /\ Unchanged
<1>1. /\ built' = built /\ heap' = heap /\ said' = said /\ left' = left
      /\ out' = [d \in Dialects |-> Build(View(Newest, heap), d)]
  BY DEF BuildNewest, Newest
<1>2. OutShape'
  BY <1>1 DEF OutShape, Newest
<1>3. TypeOK'
  <2>1. TypeOK
    BY DEF IInv
  <2>2. DOMAIN out' \in {{}, Dialects}
    BY <1>1
  <2> QED BY <1>1, <2>1, <2>2 DEF TypeOK
<1>4. \A i \in DOMAIN built' : SaidShape(built'[i], said'[i])
  BY <1>1 DEF IInv
<1> QED BY <1>1, <1>2, <1>3, <1>4 DEF IInv, Unchanged

\* Every step.
LEMMA StepKeeps ==
    ASSUME IInv, [Next]_vars
    PROVE  IInv' /\ (~Aliasing => Unchanged)
<1>1. CASE UNCHANGED vars
  BY <1>1 DEF vars, IInv, TypeOK, OutShape, Newest, Unchanged
<1>2. CASE \/ Distinct \/ DistinctOn \/ For \/ LockShorthands \/ LockOf \/ With \/ WithRecursive \/ From
           \/ FromSelect \/ SelectOrderBy \/ GroupBy \/ Having \/ SelectLimit \/ SelectOffset
  BY <1>2, SelectCalls
<1>3. CASE Join
  BY <1>3, JoinCall
<1>4. CASE SelectWhere \/ SelectAnd \/ UpdateWhere \/ UpdateAnd \/ DeleteWhere \/ DeleteAnd
  BY <1>4, ConditionCall DEF SelectWhere, SelectAnd, UpdateWhere, UpdateAnd, DeleteWhere, DeleteAnd
<1>5. CASE AndExists \/ AndIn \/ Preload
  BY <1>5, SubqueryCalls
<1>6. CASE SetOperation
  BY <1>6, SetOperationCall
<1>7. CASE AddPart \/ SetOpOrderBy \/ SetOpLimit \/ SetOpOffset
  BY <1>7, SetOpCalls
<1>8. CASE UpdateSetStruct
  BY <1>8, UpdateSetStructCall
<1>9. CASE UpdateSet \/ UpdateLimit \/ UpdateReturning \/ DeleteLimit \/ DeleteReturning \/ IgnoreConflicts \/ InsertReturning
  BY <1>9, MutationCalls
<1>10. CASE Values \/ ValueSlice \/ ValueSliceOfNothing
  BY <1>10, RowCalls
<1>11. CASE OnConflict \/ OnConflictConstraint \/ DoNothing \/ DoUpdateSetExcluded
  BY <1>11, ClauseCalls
<1>12. CASE DoUpdateSet
  BY <1>12, DoUpdateSetCall
<1>13. CASE DoUpdateSetStruct
  BY <1>13, DoUpdateSetStructCall
<1>14. CASE BuildNewest
  BY <1>14, BuildNewestKeeps
<1> QED BY <1>1, <1>2, <1>3, <1>4, <1>5, <1>6, <1>7, <1>8, <1>9, <1>10, <1>11, <1>12, <1>13, <1>14 DEF Next

\* The builders that a program starts with.
LEMMA StartKeeps ==
    ASSUME Init
    PROVE  IInv
<1>1. PICK s \in Starts :
        /\ built = s.built /\ heap = s.heap /\ out = NotBuilt /\ left = s.calls
        /\ said = [i \in DOMAIN s.built |-> SaidAtStart(s.built[i], s.rows)]
  BY DEF Init
<1>2. /\ left \in Nat /\ IsSeq(built) /\ built # <<>> /\ IsSeq(heap) /\ (\A a \in DOMAIN heap : ArrayShape(heap[a]))
      /\ \A i \in DOMAIN built : BuilderShape(built[i], heap)
  BY <1>1, BuildersAssumption DEF IsSeq
<1>3. said = [i \in DOMAIN built |-> SaidAtStart(built[i], s.rows)]
  BY <1>1
<1>4. IsSeq(said) /\ Len(said) = Len(built)
  <2>1. said = [i \in DOMAIN built |-> said[i]]
    BY <1>3
  <2>2. IsSeq(said) /\ DOMAIN said = DOMAIN built
    BY <1>2, <2>1, MappedSeq
  <2> QED BY <1>2, <2>2, SeqDomain DEF IsSeq
<1>5. ASSUME NEW i \in DOMAIN built PROVE SaidShape(built[i], said[i]) /\ said[i].from \in 0..(i - 1)
  <2>1. said[i] = SaidAtStart(built[i], s.rows)
    BY <1>3
  <2>2. i \in Nat /\ i # 0
    BY <1>2, <1>5, SeqDomain
  <2>3. said[i].from = 0 /\ said[i].bad = FALSE /\ DOMAIN said[i] = {"from", "call", "rows", "bad", "conds"}
    <3> DEFINE z == SaidAtStart(built[i], s.rows)
    <3>1. DOMAIN z = {"from", "call", "rows", "bad", "conds"}
      BY DEF SaidAtStart
    <3>2. z.from = 0 /\ z.bad = FALSE
      BY DEF SaidAtStart
    <3> HIDE DEF z
    <3> QED BY <2>1, <3>1, <3>2 DEF z
  <2>5. built[i].kind \in {"insert", "update"} => built[i].buildErr \in BOOLEAN
    BY <1>1, BuildersAssumption
  <2>6. SaidShape(built[i], said[i])
    BY <2>3, <2>5 DEF SaidShape
  <2>7. 0 \in 0..(i - 1)
    BY <2>2
  <2> QED BY <2>3, <2>6, <2>7
<1>6. TypeOK
  <2>1. DOMAIN out = {}
    BY <1>1 DEF NotBuilt
  <2> QED BY <1>2, <1>4, <1>5, <2>1 DEF TypeOK
<1> QED BY <1>1, <1>2, <1>4, <1>5, <1>6 DEF IInv, OutShape

\* The invariant holds in every program.
THEOREM Invariance == Spec => []IInv
<1>1. Init => IInv
  BY StartKeeps
<1>2. IInv /\ [Next]_vars => IInv'
  BY StepKeeps
<1> QED BY <1>1, <1>2, PTL DEF Spec

\* Type correctness: whatever is called, the rows of a builder are as wide as its column
\* list or empty, and every slice of assignments lies in the filled part of its array.
THEOREM TypeCorrect == Spec => []TypeOK
<1>1. IInv => TypeOK
  BY DEF IInv
<1> QED BY <1>1, Invariance, PTL

\* "Each method returns a new copy" (select.go:36-38): unless DoUpdateSetStruct meets an
\* array that another builder has filled behind its own assignments, no call changes what
\* a builder made earlier would build.
THEOREM NoBuilderChanges ==
    ASSUME ~Aliasing
    PROVE  Spec => BuildersNeverChange
<1>1. IInv /\ [Next]_vars => [\A i \in DOMAIN built : View(built'[i], heap') = View(built[i], heap)]_vars
  BY StepKeeps DEF Unchanged
<1> QED BY <1>1, Invariance, PTL DEF Spec, BuildersNeverChange

\* An invalid row is never forgotten: Build fails for every dialect, whatever was called
\* on the builder since.
THEOREM ErrorsAreKept == Spec => []ErrorsStick
<1>1. ASSUME IInv PROVE ErrorsStick
  <2> SUFFICES ASSUME Asked.bad, NEW d \in Dialects, Builds(d) PROVE FALSE
    BY DEF ErrorsStick
  <2> DEFINE b == View(Newest, heap)
  <2>1. out[d] = Build(b, d) /\ out[d].err = ""
    BY <1>1 DEF IInv, OutShape, Builds
  <2>2. KeptError(b)
    <3>1. Len(built) \in DOMAIN built
      <4>1. IsSeq(built) /\ IsSeq(said) /\ Len(said) = Len(built) /\ Len(built) \in Nat
        BY <1>1, SeqDomain DEF IInv, TypeOK
      <4>2. built # <<>>
        BY <1>1 DEF IInv
      <4> QED BY <4>1, <4>2 DEF IsSeq
    <3>2. SaidShape(Newest, Asked)
      BY <1>1, <3>1 DEF IInv, TypeOK, Newest, Asked
    <3>3. Newest.kind \in {"insert", "update"} /\ Newest.buildErr
      BY <3>2 DEF SaidShape
    <3> QED BY <3>3 DEF KeptError, View
  <2>3. Build(b, d) = Rendered(<<Invalid>>, d)
    BY <2>2 DEF Build, BuilderPieces
  <2> QED BY <2>1, <2>3, BuildersAssumption
<1>2. IInv => ErrorsStick
  BY <1>1
<1> QED BY <1>2, Invariance, PTL

================================================================================
