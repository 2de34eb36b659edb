------------------------------- MODULE SchemaDiff -------------------------------
(***************************************************************************)
(* kit.Diff: the ordered list of changes that leads from one schema        *)
(* snapshot to another, with the renames its annotations announce.         *)
(*                                                                         *)
(* A snapshot is a record of three maps from names:                        *)
(*   tables  to [cols, cons, prev], columns and constraints in declaration *)
(*           order and the name a table had before (Blank for none);       *)
(*   views   to [on, uses, semi], the table and columns the query reads    *)
(*           and whether its text ends with a semicolon;                   *)
(*   enums   to the sequence of their labels.                              *)
(* Column     : [name, type, notNull, default, ref, prev]                  *)
(* Constraint : [kind, name, cols, table, refCols, expr, act]              *)
(***************************************************************************)
EXTENDS Naturals, Sequences, SequencesExt

CONSTANT Alphabet   \* every name and label there is, in the order of sort.Strings

Blank == ""         \* no name, no label, no text

FlatMap(F(_), s) == FlattenSeq([i \in DOMAIN s |-> F(s[i])])
When(cond, s)    == IF cond THEN s ELSE <<>>
Only(s, S)       == FlattenSeq([i \in DOMAIN s |-> When(s[i] \in S, <<s[i]>>)])
Sorted(S)        == Only(Alphabet, S)

ColNames(t)  == {t.cols[i].name : i \in DOMAIN t.cols}
ColOf(t, n)  == t.cols[CHOOSE i \in DOMAIN t.cols : t.cols[i].name = n]

EmptySnapshot == [tables |-> <<>>, views |-> <<>>, enums |-> <<>>]

\* SaveJSON and LoadJSON: everything but the rename annotations survives.
Saved(snap) ==
    [snap EXCEPT !.tables =
        [n \in DOMAIN snap.tables |->
            [snap.tables[n] EXCEPT !.prev = Blank,
                                   !.cols = [i \in DOMAIN @ |-> [@[i] EXCEPT !.prev = Blank]]]]]

--------------------------------------------------------------------------------
(* Enum labels                                                               *)

\* Mutant: the labels come without an anchor.
EnumAddedAtEnd(old, new) ==
    LET added == SelectSeq(new, LAMBDA v : v \notin ToSet(old))
    IN  [i \in DOMAIN added |-> [value |-> added[i], after |-> Blank, before |-> Blank]]

\* Labels only the new enum has.  Each is anchored to the label before it, which
\* exists by the time it is added; the first one to the next label that exists.
EnumAddition(old, new, i) ==
    LET common == {j \in DOMAIN new : new[j] \in ToSet(old)}
    IN  [value  |-> new[i],
         after  |-> IF i > 1 THEN new[i - 1] ELSE Blank,
         before |-> IF i = 1 /\ common # {} THEN new[Min(common)] ELSE Blank]

EnumAddedValues(old, new) ==
    FlattenSeq([i \in DOMAIN new |-> When(new[i] \notin ToSet(old), <<EnumAddition(old, new, i)>>)])

\* Labels were removed or reordered: PostgreSQL can do neither.
EnumDrift(old, new) ==
    \/ ~(ToSet(old) \subseteq ToSet(new))
    \/ Only(old, ToSet(new)) # Only(new, ToSet(old))

--------------------------------------------------------------------------------
(* One table                                                                 *)

DiffColumn(t, old, new) ==
    LET Alter(kind) == <<[kind |-> kind, object |-> t, col |-> new]>>
    IN  When(old.type # new.type, Alter("alter_column_type"))
        \o When(old.notNull # new.notNull, Alter("alter_column_nullable"))
        \o When(old.default # new.default, Alter("alter_column_default"))

\* Mutant: the annotations of columns are not read.
ColRenamesIgnored(old, new) == <<>>

\* Old column name -> new column name.  A removed column goes to the first
\* column, in declaration order, that names it as its previous name.
ColRenames(old, new) ==
    LET dropped   == ColNames(old) \ ColNames(new)
        Claims(o) == {i \in DOMAIN new.cols : /\ new.cols[i].prev = o
                                              /\ new.cols[i].name \notin ColNames(old)}
    IN  [o \in {d \in dropped : Claims(d) # {}} |-> new.cols[Min(Claims(o))].name]

\* constraintKey: kind, name and column list, in any order.
ConstraintKey(c) == <<c.kind, c.name, ToSet(c.cols)>>

ApplyRenames(cols, renames) ==
    [i \in DOMAIN cols |-> IF cols[i] \in DOMAIN renames THEN renames[cols[i]] ELSE cols[i]]

\* What an old constraint has become once the renames have run: the database
\* carries its references along.  The referenced columns are this table's own
\* only when the constraint refers to its own table.
NormalizeConstraintRefs(c, t, colRenames, tableRenames) ==
    LET target == IF c.table \in DOMAIN tableRenames THEN tableRenames[c.table] ELSE c.table
    IN  [c EXCEPT !.cols = ApplyRenames(@, colRenames),
                  !.refCols = IF c.table = t \/ target = t THEN ApplyRenames(@, colRenames) ELSE @,
                  !.table = target]

NormFKAction(a) == IF a = Blank THEN "NO ACTION" ELSE a

\* Mutant: the referential actions are not compared.
ConstraintsEqualButAction(a, b) ==
    /\ a.kind = b.kind /\ a.name = b.name /\ a.expr = b.expr /\ a.cols = b.cols
    /\ a.kind = "foreign_key" => a.table = b.table /\ a.refCols = b.refCols

ConstraintsEqual(a, b) ==
    /\ a.kind = b.kind /\ a.name = b.name /\ a.expr = b.expr /\ a.cols = b.cols
    /\ a.kind = "foreign_key" =>
        /\ a.table = b.table /\ a.refCols = b.refCols
        /\ NormFKAction(a.act) = NormFKAction(b.act)

\* A single-column foreign key that the column itself declares (References).
InlineRef(t, c) ==
    /\ c.kind = "foreign_key" /\ Len(c.cols) = 1 /\ Len(c.refCols) = 1
    /\ \E i \in DOMAIN t.cols :
        t.cols[i].name = c.cols[1] /\ t.cols[i].ref = <<c.table, c.refCols[1]>>

\* What becomes of column c of the new table: kept, renamed or added.
ColumnChanges(t, old, new, c) ==
    LET colRenames == ColRenames(old, new)
        source     == CHOOSE o \in DOMAIN colRenames : colRenames[o] = c.name
    IN  IF c.name \in ColNames(old) THEN DiffColumn(t, ColOf(old, c.name), c)
        ELSE IF c.name \in {colRenames[o] : o \in DOMAIN colRenames}
        THEN <<[kind |-> "rename_column", object |-> t, old |-> source, col |-> c]>>
             \o DiffColumn(t, ColOf(old, source), c)
        ELSE <<[kind |-> "add_column", object |-> t, col |-> c]>>
DropColumn(t, old, new, c) ==
    When(c.name \notin ColNames(new) \cup DOMAIN ColRenames(old, new),
         <<[kind |-> "drop_column", object |-> t, col |-> c]>>)

ConAdded(t, c)   == <<[kind |-> "add_constraint", object |-> t, con |-> c]>>
ConDropped(t, c) == <<[kind |-> "drop_constraint", object |-> t, con |-> c]>>
SameKey(cons, c) == {i \in DOMAIN cons : ConstraintKey(cons[i]) = ConstraintKey(c)}
\* What becomes of a constraint c of the old table.
ConstraintChanges(t, new, c) ==
    IF SameKey(new.cons, c) = {} THEN When(~InlineRef(new, c), ConDropped(t, c))
    ELSE LET n == new.cons[Max(SameKey(new.cons, c))]
         IN  When(~ConstraintsEqual(c, n), ConDropped(t, c) \o ConAdded(t, n))

DiffTable(t, old, new, tableRenames) ==
    LET oldCons == [i \in DOMAIN old.cons |->
                     NormalizeConstraintRefs(old.cons[i], t, ColRenames(old, new), tableRenames)]
    IN  FlatMap(LAMBDA c : ColumnChanges(t, old, new, c), new.cols)
        \o FlatMap(LAMBDA c : DropColumn(t, old, new, c), old.cols)
        \o FlatMap(LAMBDA c : When(SameKey(oldCons, c) = {}, ConAdded(t, c)), new.cons)
        \o FlatMap(LAMBDA c : ConstraintChanges(t, new, c), oldCons)

--------------------------------------------------------------------------------
(* The whole schema                                                          *)

\* Old table name -> new table name.  The first new table in name order wins.
TableRenames(old, new) ==
    LET dropped   == DOMAIN old.tables \ DOMAIN new.tables
        Claims(o) == {n \in DOMAIN new.tables \ DOMAIN old.tables : new.tables[n].prev = o}
    IN  [o \in {d \in dropped : Claims(d) # {}} |-> Head(Sorted(Claims(o)))]

References(t) ==
    {t.cols[i].ref[1] : i \in {j \in DOMAIN t.cols : t.cols[j].ref # <<>>}}
    \cup {t.cons[i].table : i \in {j \in DOMAIN t.cons : t.cons[j].kind = "foreign_key"}}

\* Mutant: created in name order, as they are dropped.
OrderByName(names, tables) == Sorted(names)

\* Kahn's algorithm.  Its queue is kept sorted, so the table taken next is the
\* least one whose references are all taken; what a cycle keeps back comes last.
OrderNewTables(names, tables) ==
    LET Deps(n) == (References(tables[n]) \cap names) \ {n}
        Take(result) ==
            LET ready == {m \in names \ ToSet(result) : Deps(m) \subseteq ToSet(result)}
            IN  IF ready = {} THEN result ELSE Append(result, Head(Sorted(ready)))
        taken[n \in 0..Len(Alphabet)] == IF n = 0 THEN <<>> ELSE Take(taken[n - 1])
        ordered == taken[Len(Alphabet)]
    IN  ordered \o Sorted(names \ ToSet(ordered))

\* actualDroppedTables: their names are not free before phase 8.
Dropped(old, new) == (DOMAIN old.tables \ DOMAIN new.tables) \ DOMAIN TableRenames(old, new)

CreateEnums(new, names) ==
    FlatMap(LAMBDA e : <<[kind |-> "create_enum", object |-> e, new |-> new.enums[e]]>>, Sorted(names))
AlterEnums(old, new) ==
    FlatMap(LAMBDA e : When(\/ EnumAddedValues(old.enums[e], new.enums[e]) # <<>>
                            \/ EnumDrift(old.enums[e], new.enums[e]),
                            <<[kind |-> "alter_enum", object |-> e,
                               old |-> old.enums[e], new |-> new.enums[e]]>>),
            Sorted(DOMAIN new.enums \cap DOMAIN old.enums))
DropEnums(old, new) ==
    FlatMap(LAMBDA e : <<[kind |-> "drop_enum", object |-> e]>>, Sorted(DOMAIN old.enums \ DOMAIN new.enums))

\* renamedTo.
RenamedTo(old, new, n) == CHOOSE o \in DOMAIN TableRenames(old, new) : TableRenames(old, new)[o] = n
RenameTargets(old, new) == {TableRenames(old, new)[o] : o \in DOMAIN TableRenames(old, new)}

RenameTables(old, new) ==
    FlatMap(LAMBDA n : <<[kind |-> "rename_table", object |-> RenamedTo(old, new, n), target |-> n]>>,
            Sorted(RenameTargets(old, new)))
CreateTables(old, new) ==
    FlatMap(LAMBDA n : <<[kind |-> "create_table", object |-> n]>>,
            OrderNewTables((DOMAIN new.tables \ DOMAIN old.tables) \ RenameTargets(old, new), new.tables))
AlterTables(old, new) ==
    LET targets == RenameTargets(old, new)
    IN  FlatMap(LAMBDA n : DiffTable(n, old.tables[IF n \in targets THEN RenamedTo(old, new, n) ELSE n],
                                     new.tables[n], TableRenames(old, new)),
                Sorted((DOMAIN new.tables \cap DOMAIN old.tables) \cup targets))
DropTables(old, new) ==
    FlatMap(LAMBDA n : <<[kind |-> "drop_table", object |-> n]>>, Sorted(Dropped(old, new)))

NewViews(old, new) == DOMAIN new.views \ DOMAIN old.views
ChangedViews(old, new) ==
    {v \in DOMAIN new.views \cap DOMAIN old.views :
       [new.views[v] EXCEPT !.semi = FALSE] # [old.views[v] EXCEPT !.semi = FALSE]}
\* kind: "create_view" or "replace_view".
PutViews(kind, new, names) ==
    FlatMap(LAMBDA v : <<[kind |-> kind, object |-> v, view |-> new.views[v]]>>, Sorted(names))
DropViews(old, new) ==
    FlatMap(LAMBDA v : <<[kind |-> "drop_view", object |-> v]>>, Sorted(DOMAIN old.views \ DOMAIN new.views))

Diff(old, new) ==
    LET gone     == Dropped(old, new)
        renamed  == DOMAIN TableRenames(old, new)
        newEnums == DOMAIN new.enums \ DOMAIN old.enums
    IN  \* 1, 2: enums that do not wait for a table's name
           CreateEnums(new, newEnums \ (gone \cup renamed))
        \o AlterEnums(old, new)
        \* 3, 3b: tables, and the enums that waited for a rename
        \o RenameTables(old, new)
        \o CreateEnums(new, newEnums \cap renamed)
        \o CreateTables(old, new)
        \* 4: what changed inside a table
        \o AlterTables(old, new)
        \* 5, 6, 7: views
        \o PutViews("create_view", new, NewViews(old, new) \ gone)
        \o PutViews("replace_view", new, ChangedViews(old, new) \ gone)
        \o DropViews(old, new)
        \* 8, 8b: dropped tables, and what waited for their names
        \o DropTables(old, new)
        \o CreateEnums(new, newEnums \cap gone)
        \o PutViews("create_view", new, NewViews(old, new) \cap gone)
        \o PutViews("replace_view", new, ChangedViews(old, new) \cap gone)
        \* 9
        \o DropEnums(old, new)

================================================================================
