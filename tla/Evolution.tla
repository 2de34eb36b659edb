-------------------------------- MODULE Evolution --------------------------------
(***************************************************************************)
(* What a schema o may become, as n, in one migration: which of its tables  *)
(* and columns live on, and the conditions under which Diff orders its      *)
(* changes so that a database can follow.  Diff's comments announce the     *)
(* first; the others are what its phases and its comparison of columns do   *)
(* not provide for.                                                         *)
(***************************************************************************)
EXTENDS SchemaSQL

Successor(o, n, t) == IF t \in DOMAIN n.tables THEN t ELSE TableRenames(o, n)[t]
Kept(o, n)     == DOMAIN o.tables \ Dropped(o, n)
Added(o, n)    == DOMAIN n.tables \ {Successor(o, n, t) : t \in Kept(o, n)}
\* The column that takes over a column of a kept table, if any.
Heir(ot, nt, c) ==
    IF c \in ColNames(nt) THEN {c}
    ELSE IF c \in DOMAIN ColRenames(ot, nt) THEN {ColRenames(ot, nt)[c]} ELSE {}

\* A new label is not used in the transaction that adds it.
LabelsSettled(o, n) ==
    \A e \in DOMAIN o.enums \cap DOMAIN n.enums : \A t \in DOMAIN n.tables :
        \A i \in DOMAIN n.tables[t].cols :
            LET c == n.tables[t].cols[i]
            IN  c.type = e => c.default \in ToSet(o.enums[e]) \cup {Blank}

\* No old view reads a column that phase 4 drops or retypes, nor a table that goes
\* before the view is replaced.
ViewsReadKeptColumns(o, n) ==
    \A v \in DOMAIN o.views :
        LET t == o.views[v].on
        IN  t \in Kept(o, n) =>
              \A c \in o.views[v].uses :
                LET nt   == n.tables[Successor(o, n, t)]
                    heir == Heir(o.tables[t], nt, c)
                IN  heir # {} /\ \A h \in heir : ColOf(nt, h).type = ColOf(o.tables[t], c).type

\* A name a table or an enum takes is not that of a view that goes in phase 7 or of
\* an enum that goes in phase 9.
NamesFreeInTime(o, n) ==
    /\ (DOMAIN n.tables \cup DOMAIN n.enums) \cap DOMAIN o.views = {}
    /\ (DOMAIN n.tables \cup DOMAIN n.views) \cap DOMAIN o.enums = {}

\* Phase 8 drops tables in name order, whatever refers to what.
DropsInNameOrder(o, n) ==
    \A t, u \in Dropped(o, n) : t \in References(o.tables[u]) /\ t # u =>
        u \in ToSet(SubSeq(Sorted(Dropped(o, n)), 1, SelectInSeq(Sorted(Dropped(o, n)), LAMBDA x : x = t)))

\* A column that references a table declares so for its whole life.
ColumnRefsKept(o, n) ==
    \A t \in Kept(o, n) : \A c \in ColNames(o.tables[t]) :
        LET nt   == n.tables[Successor(o, n, t)]
            was  == ColOf(o.tables[t], c).ref
        IN  \A h \in Heir(o.tables[t], nt, c) :
              LET is == ColOf(nt, h).ref
              IN  IF was = <<>> THEN is = <<>>
                  ELSE /\ is # <<>> /\ was[1] \in Kept(o, n) /\ is[1] = Successor(o, n, was[1])
                       /\ is[2] \in Heir(o.tables[was[1]], n.tables[is[1]], was[2])

\* An index or constraint changes its columns under a new name only: the one that
\* goes is dropped after the one that comes is added.
NamesKeepColumns(o, n) ==
    \A t \in Kept(o, n) :
        LET nt  == n.tables[Successor(o, n, t)]
            ren == ColRenames(o.tables[t], nt)
        IN  \A i \in DOMAIN o.tables[t].cons, j \in DOMAIN nt.cons :
              LET a == o.tables[t].cons[i]
                  b == nt.cons[j]
              IN  a.name = b.name => /\ a.kind = b.kind
                                     /\ ToSet(ApplyRenames(a.cols, ren)) = ToSet(b.cols)

\* The name of an index passes to another table after its own has let go of it.
IndexNamesStay(o, n) ==
    \A t \in DOMAIN o.tables, u \in DOMAIN n.tables :
        LET Names(d) == {d.cons[i].name : i \in {j \in DOMAIN d.cons : d.cons[j].kind \in IndexKinds \cup {"unique"}}}
        IN  Names(o.tables[t]) \cap Names(n.tables[u]) # {} => t \in Kept(o, n) /\ u = Successor(o, n, t)

\* No statement adds or drops a primary key on its own, and a unique constraint
\* comes back from introspection as a unique index.
KeysKept(f, o, n) ==
    LET Of(t, kind) == {t.cons[i] : i \in {j \in DOMAIN t.cons : t.cons[j].kind = kind}}
    IN  \A t \in Kept(o, n) :
          /\ Of(o.tables[t], "primary_key") = Of(n.tables[Successor(o, n, t)], "primary_key")
          /\ f = "live" => Of(o.tables[t], "unique") = {}

\* A foreign key of a new table refers to columns that exist before phase 4.
KeysReferToOldColumns(o, n) ==
    \A t \in DOMAIN n.tables : \A i \in DOMAIN n.tables[t].cons :
        LET c == n.tables[t].cons[i]
        IN  c.kind = "foreign_key" /\ c.table \in {Successor(o, n, u) : u \in Kept(o, n)} =>
              \E u \in Kept(o, n) : Successor(o, n, u) = c.table /\ ToSet(c.refCols) \subseteq ColNames(o.tables[u])

================================================================================
