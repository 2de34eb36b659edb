------------------------------ MODULE MigrateProofs ------------------------------
(***************************************************************************)
(* Proofs about Migrate for every number of processes, every set of tables, *)
(* every starting schema and every mix of calls: its types and table locks,  *)
(* that it implements MigrationLedger, and that the history explains the     *)
(* schema.                                                                    *)
(*                                                                           *)
(* First the facts about the operators Migrate is built from: the schemas a  *)
(* batch goes through, the statements Diff plans, and what replaying the     *)
(* rows of the history gives.  They are proved by induction over the length  *)
(* of a batch or the ids of the rows.                                        *)
(***************************************************************************)
EXTENDS Migrate, SequenceLemmas

--------------------------------------------------------------------------------
(* The schemas a batch goes through                                           *)

\* The recursive definition of States defines a function.
LEMMA StatesDef ==
    ASSUME NEW d, NEW stmts, Len(stmts) \in Nat
    PROVE  Ledger!States(d, stmts) =
             [n \in 0..Len(stmts) |->
                IF n = 0 THEN d ELSE Ledger!Run(Ledger!States(d, stmts)[n - 1], stmts[n])]
<1> DEFINE Def(g, n) == g = [i \in 0..n |-> IF i = 0 THEN d ELSE Ledger!Run(g[i - 1], stmts[i])]
           S == {n \in Nat : \E g : Def(g, n)}
<1>1. 0 \in S
  <2>1. Def([i \in 0..0 |-> d], 0)
    OBVIOUS
  <2> QED BY <2>1
<1>2. ASSUME NEW n \in Nat, n \in S PROVE n + 1 \in S
  <2>1. PICK g : Def(g, n)
    BY <1>2
  <2> DEFINE h == [i \in 0..(n + 1) |-> IF i = n + 1 THEN Ledger!Run(g[n], stmts[n + 1]) ELSE g[i]]
  <2>2. ASSUME NEW i \in 0..(n + 1)
        PROVE  h[i] = IF i = 0 THEN d ELSE Ledger!Run(h[i - 1], stmts[i])
    <3>1. CASE i = n + 1
      BY <3>1
    <3>2. CASE i # n + 1
      <4>1. i \in 0..n /\ (i # 0 => i - 1 \in 0..n /\ i - 1 # n + 1 /\ i - 1 \in 0..(n + 1))
        BY <3>2
      <4>2. g[i] = IF i = 0 THEN d ELSE Ledger!Run(g[i - 1], stmts[i])
        BY <2>1, <4>1
      <4> QED BY <4>1, <4>2, <3>2
    <3> QED BY <3>1, <3>2
  <2>3. Def(h, n + 1)
    BY <2>2
  <2>4. \E k : Def(k, n + 1)
    <3> HIDE DEF h, Def
    <3> QED BY <2>3
  <2> QED BY <2>4
<1>3. Len(stmts) \in S
  <2> HIDE DEF S
  <2> QED BY <1>1, <1>2, NatSetInduction
<1>4. \E g : Def(g, Len(stmts))
  BY <1>3
<1> QED BY <1>4 DEF Ledger!States

\* What a statement that Diff plans looks like.
Singles    == {{"col"}, {"idx"}}
Statements ==
    [op : {"create"}, on : Tables, what : Ledger!Contents \ {{}}]
        \cup [op : {"add", "drop"}, on : Tables, what : Singles]
        \cup [op : {"drop_table"}, on : Tables, what : {{}}]

\* Tables of any content: between two statements nothing says that the content is one
\* a database can have.
Loose == [Tables -> SUBSET Ledger!Objects]

\* The four forms of a statement.
LEMMA StatementForms ==
    ASSUME NEW s \in Statements
    PROVE  /\ s.on \in Tables /\ s.what \in SUBSET Ledger!Objects
           /\ \/ s.op = "create" /\ s.what \in Ledger!Contents /\ s.what # {}
              \/ s.op = "add" /\ s.what \in Singles
              \/ s.op = "drop" /\ s.what \in Singles
              \/ s.op = "drop_table" /\ s.what = {}
BY DEF Statements, Singles, Ledger!Contents, Ledger!Objects

\* A statement is on objects a table consists of.
LEMMA AfterLoose ==
    ASSUME NEW s \in Statements, NEW c \in SUBSET Ledger!Objects
    PROVE  Ledger!After(s, c) \in SUBSET Ledger!Objects
BY StatementForms DEF Ledger!After

\* What an accepted statement leaves is a content a table can have.
LEMMA AfterAccepted ==
    ASSUME NEW s \in Statements, NEW c \in Ledger!Contents, Accepts(s, c)
    PROVE  Ledger!After(s, c) \in Ledger!Contents
BY StatementForms DEF Ledger!After, Accepts, Singles, Ledger!Contents, Ledger!Objects

\* A schema is one of these.
LEMMA SchemasLoose == Schemas \subseteq Loose
BY DEF Schemas, Tables, Ledger!Schemas, Loose, Ledger!Contents

\* A batch goes through schemas of the same tables.
LEMMA StatesType ==
    ASSUME NEW d \in Loose, NEW stmts \in Seq(Statements)
    PROVE  \A n \in 0..Len(stmts) : Ledger!States(d, stmts)[n] \in Loose
<1> DEFINE S == {n \in Nat : n <= Len(stmts) => Ledger!States(d, stmts)[n] \in Loose}
<1>0. Len(stmts) \in Nat
  OBVIOUS
<1>1. 0 \in S
  BY <1>0, StatesDef
<1>2. ASSUME NEW n \in Nat, n \in S PROVE n + 1 \in S
  <2>1. SUFFICES ASSUME n + 1 <= Len(stmts)
                 PROVE  Ledger!States(d, stmts)[n + 1] \in Loose
    OBVIOUS
  <2>2. Ledger!States(d, stmts)[n] \in Loose
    BY <1>0, <1>2, <2>1
  <2>3. Ledger!States(d, stmts)[n + 1] = Ledger!Run(Ledger!States(d, stmts)[n], stmts[n + 1])
    <3>1. n + 1 \in 0..Len(stmts) /\ n + 1 # 0 /\ (n + 1) - 1 = n
      BY <1>0, <2>1
    <3> QED BY <1>0, <3>1, StatesDef
  <2>4. stmts[n + 1] \in Statements
    BY <1>0, <2>1
  <2>5. Ledger!States(d, stmts)[n][stmts[n + 1].on] \in SUBSET Ledger!Objects
    BY <2>2, <2>4, StatementForms DEF Loose
  <2>6. Ledger!After(stmts[n + 1], Ledger!States(d, stmts)[n][stmts[n + 1].on])
            \in SUBSET Ledger!Objects
    BY <2>4, <2>5, AfterLoose
  <2> QED BY <2>2, <2>3, <2>6 DEF Ledger!Run, Loose
<1>3. \A n \in Nat : n \in S
  <2> HIDE DEF S
  <2> QED BY <1>1, <1>2, NatSetInduction
<1> QED BY <1>0, <1>3

\* The first schema, and what the n-th statement does to one table.
LEMMA StatesStep ==
    ASSUME NEW d \in Loose, NEW stmts \in Seq(Statements)
    PROVE  /\ Ledger!States(d, stmts)[0] = d
           /\ \A n \in 1..Len(stmts), t \in Tables :
                Ledger!States(d, stmts)[n][t] =
                  IF stmts[n].on = t THEN Ledger!After(stmts[n], Ledger!States(d, stmts)[n - 1][t])
                  ELSE Ledger!States(d, stmts)[n - 1][t]
<1>0. Len(stmts) \in Nat
  OBVIOUS
<1>1. Ledger!States(d, stmts)[0] = d
  BY <1>0, StatesDef
<1>2. ASSUME NEW n \in 1..Len(stmts), NEW t \in Tables
      PROVE  Ledger!States(d, stmts)[n][t] =
               IF stmts[n].on = t THEN Ledger!After(stmts[n], Ledger!States(d, stmts)[n - 1][t])
               ELSE Ledger!States(d, stmts)[n - 1][t]
  <2>1. Ledger!States(d, stmts)[n] = Ledger!Run(Ledger!States(d, stmts)[n - 1], stmts[n])
    <3>1. n \in 0..Len(stmts) /\ n # 0
      BY <1>0
    <3> QED BY <1>0, <3>1, StatesDef
  <2>2. n - 1 \in 0..Len(stmts)
    BY <1>0
  <2>3. Ledger!States(d, stmts)[n - 1] \in Loose
    BY <2>2, StatesType
  <2> QED BY <2>1, <2>3 DEF Ledger!Run, Loose
<1> QED BY <1>1, <1>2

\* What becomes of a table depends on nothing but that table.
LEMMA StatesLocal ==
    ASSUME NEW d \in Loose, NEW e \in Loose, NEW stmts \in Seq(Statements),
           NEW t \in Tables, d[t] = e[t]
    PROVE  \A n \in 0..Len(stmts) : Ledger!States(d, stmts)[n][t] = Ledger!States(e, stmts)[n][t]
<1> DEFINE S == {n \in Nat : n <= Len(stmts) =>
                     Ledger!States(d, stmts)[n][t] = Ledger!States(e, stmts)[n][t]}
<1>0. Len(stmts) \in Nat
  OBVIOUS
<1>1. 0 \in S
  BY StatesStep
<1>2. ASSUME NEW n \in Nat, n \in S PROVE n + 1 \in S
  <2>1. SUFFICES ASSUME n + 1 <= Len(stmts)
                 PROVE  Ledger!States(d, stmts)[n + 1][t] = Ledger!States(e, stmts)[n + 1][t]
    OBVIOUS
  <2>2. n + 1 \in 1..Len(stmts) /\ (n + 1) - 1 = n /\ n <= Len(stmts)
    BY <1>0, <2>1
  <2> QED BY <1>2, <2>2, StatesStep
<1>3. \A n \in Nat : n \in S
  <2> HIDE DEF S
  <2> QED BY <1>1, <1>2, NatSetInduction
<1> QED BY <1>0, <1>3

\* A table none of the first k statements is on stays as it is.
LEMMA StatesUntouched ==
    ASSUME NEW d \in Loose, NEW stmts \in Seq(Statements), NEW t \in Tables,
           NEW k \in 0..Len(stmts), \A i \in 1..k : stmts[i].on # t
    PROVE  Ledger!States(d, stmts)[k][t] = d[t]
<1> DEFINE S == {n \in Nat : n <= k => Ledger!States(d, stmts)[n][t] = d[t]}
<1>0. Len(stmts) \in Nat /\ k \in Nat /\ k <= Len(stmts)
  OBVIOUS
<1>1. 0 \in S
  BY StatesStep
<1>2. ASSUME NEW n \in Nat, n \in S PROVE n + 1 \in S
  <2>1. SUFFICES ASSUME n + 1 <= k PROVE Ledger!States(d, stmts)[n + 1][t] = d[t]
    OBVIOUS
  <2>2. n + 1 \in 1..Len(stmts) /\ (n + 1) - 1 = n /\ n <= k /\ n + 1 \in 1..k
    BY <1>0, <2>1
  <2> QED BY <1>2, <2>2, StatesStep
<1>3. \A n \in Nat : n \in S
  <2> HIDE DEF S
  <2> QED BY <1>1, <1>2, NatSetInduction
<1> QED BY <1>0, <1>3

--------------------------------------------------------------------------------
(* The statements Diff plans                                                  *)

\* The ledger flattens sequences as the rest does.
LEMMA LedgerFlattens == ASSUME NEW ss PROVE Ledger!FlattenSeq(ss) = FlattenSeq(ss)
BY DEF Ledger!FlattenSeq, FlattenSeq

\* Flattening gives a sequence of the elements, all of them.
LEMMA PlanElements ==
    ASSUME NEW A, NEW ss \in Seq(Seq(A))
    PROVE  /\ Ledger!FlattenSeq(ss) \in Seq(A)
           /\ \A i \in 1..Len(ss) : ToSet(ss[i]) \subseteq ToSet(Ledger!FlattenSeq(ss))
<1>1. IsSeq(ss) /\ DOMAIN ss = 1..Len(ss)
  BY SeqElements
<1>2. \A i \in DOMAIN ss : IsSeq(ss[i]) /\ ToSet(ss[i]) \subseteq A
  <2> SUFFICES ASSUME NEW i \in DOMAIN ss PROVE ss[i] \in Seq(A)
    BY SeqElements
  <2> QED BY <1>1
<1>3. /\ IsSeq(FlattenSeq(ss))
      /\ ToSet(FlattenSeq(ss)) = UNION {ToSet(ss[i]) : i \in DOMAIN ss}
  BY <1>1, <1>2, FlattenElements
<1>4. FlattenSeq(ss) \in Seq(A)
  BY <1>2, <1>3, SeqElements
<1> QED BY <1>1, <1>3, <1>4, LedgerFlattens

\* The statements that turn the tables of read into those of want.
Changes(read, want) ==
    {s \in Statements :
       \/ /\ s.op = "create" /\ s.what = want[s.on] \ {"idx"}
          /\ read[s.on] = {} /\ want[s.on] # {}
       \/ /\ s.op = "add" /\ s.what = {"idx"}
          /\ read[s.on] = {} /\ "idx" \in want[s.on]
       \/ /\ s.op = "add" /\ s.what \subseteq want[s.on] \ read[s.on]
          /\ read[s.on] # {} /\ want[s.on] # {}
       \/ /\ s.op = "drop" /\ s.what \subseteq read[s.on] \ want[s.on]
          /\ read[s.on] # {} /\ want[s.on] # {}
       \/ /\ s.op = "drop_table"
          /\ read[s.on] # {} /\ want[s.on] = {}}

\* The parts of a concatenation of sequences over A.
LEMMA PartsElements ==
    ASSUME NEW A, NEW a \in Seq(A), NEW b \in Seq(A)
    PROVE  a \o b \in Seq(A) /\ ToSet(a \o b) = ToSet(a) \cup ToSet(b)
BY SeqElements, ConcatElements

\* FlatMap of a piece per table: nothing but elements of the pieces, and all of them.
LEMMA PiecesElements ==
    ASSUME NEW A, NEW ss, Len(TableOrder) \in Nat, ss = [i \in DOMAIN TableOrder |-> ss[i]],
           \A i \in DOMAIN TableOrder : ss[i] \in Seq(A)
    PROVE  /\ Ledger!FlattenSeq(ss) \in Seq(A)
           /\ \A i \in DOMAIN TableOrder : ToSet(ss[i]) \subseteq ToSet(Ledger!FlattenSeq(ss))
<1>1. TableOrder \in Seq(Tables)
  BY MigrateAssumption
<1>2. ss \in Seq(Seq(A)) /\ DOMAIN TableOrder = 1..Len(ss)
  BY <1>1
<1> QED BY <1>2, PlanElements

\* What Create, Alter and Drop of one table give.
LEMMA TableChanges ==
    ASSUME NEW read \in Schemas, NEW want \in Schemas, NEW t \in Tables
    PROVE  LET c == Ledger!CreateTable(read, want, t)
               a == Ledger!AlterTable(read, want, t)
               d == Ledger!DropTable(read, want, t)
           IN  /\ c \in Seq(Changes(read, want)) /\ a \in Seq(Changes(read, want))
               /\ d \in Seq(Changes(read, want))
               /\ \A s \in Changes(read, want) :
                    s.on = t => s \in ToSet(c) \cup ToSet(a) \cup ToSet(d)
<1> DEFINE A == Changes(read, want)
           Make == Ledger!Statement("create", t, want[t] \ {"idx"})
           Add(o) == Ledger!Statement("add", t, {o})
           Cut(o) == Ledger!Statement("drop", t, {o})
           Gone == Ledger!Statement("drop_table", t, {})
<1>1. read[t] \in Ledger!Contents /\ want[t] \in Ledger!Contents
  BY DEF Schemas, Tables, Ledger!Schemas
<1>2. ASSUME NEW s \in A, s.on = t
      PROVE  \/ s = Make /\ read[t] = {} /\ want[t] # {}
             \/ s = Add("idx") /\ read[t] = {} /\ "idx" \in want[t]
             \/ /\ read[t] # {} /\ want[t] # {}
                /\ \E o \in {"col", "idx"} : \/ s = Add(o) /\ o \in want[t] \ read[t]
                                             \/ s = Cut(o) /\ o \in read[t] \ want[t]
             \/ s = Gone /\ read[t] # {} /\ want[t] = {}
  <2>1. s \in Statements /\ s = Ledger!Statement(s.op, t, s.what)
    BY <1>2 DEF Changes, Statements, Ledger!Statement
  <2> QED BY <1>2, <2>1, StatementForms DEF Changes, Singles
<1>3. /\ read[t] = {} /\ want[t] # {} => Make \in A
      /\ read[t] = {} /\ "idx" \in want[t] => Add("idx") \in A
      /\ read[t] # {} /\ want[t] = {} => Gone \in A
  BY <1>1 DEF Changes, Statements, Singles, Ledger!Statement, Ledger!Contents, Ledger!Objects
<1>4. ASSUME NEW o \in {"col", "idx"}, read[t] # {}, want[t] # {}
      PROVE  (o \in want[t] \ read[t] => Add(o) \in A) /\ (o \in read[t] \ want[t] => Cut(o) \in A)
  BY <1>1, <1>4 DEF Changes, Statements, Singles, Ledger!Statement, Ledger!Contents, Ledger!Objects
<1>5. ASSUME NEW x \in A PROVE <<x>> \in Seq(A) /\ ToSet(<<x>>) = {x}
  BY DEF ToSet
<1>6. <<>> \in Seq(A) /\ ToSet(<<>>) = {}
  BY DEF ToSet
<1>7. ASSUME NEW o \in {"col", "idx"}, read[t] # {}, want[t] # {}
      PROVE  /\ Ledger!AlterObject(read, want, t, o) \in Seq(A)
             /\ o \in want[t] \ read[t] => Add(o) \in ToSet(Ledger!AlterObject(read, want, t, o))
             /\ o \in read[t] \ want[t] => Cut(o) \in ToSet(Ledger!AlterObject(read, want, t, o))
  <2> DEFINE first  == IF o \in want[t] \ read[t] THEN <<Add(o)>> ELSE <<>>
             second == IF o \in read[t] \ want[t] THEN <<Cut(o)>> ELSE <<>>
  <2>1. first \in Seq(A) /\ (o \in want[t] \ read[t] => Add(o) \in ToSet(first))
    <3> HIDE DEF A, Add
    <3> QED BY <1>4, <1>5, <1>6, <1>7
  <2>2. second \in Seq(A) /\ (o \in read[t] \ want[t] => Cut(o) \in ToSet(second))
    <3> HIDE DEF A, Cut
    <3> QED BY <1>4, <1>5, <1>6, <1>7
  <2>3. Ledger!AlterObject(read, want, t, o) = first \o second
    BY DEF Ledger!AlterObject, Ledger!When
  <2> HIDE DEF A, first, second
  <2> QED BY <2>1, <2>2, <2>3, PartsElements
<1>8. CASE read[t] = {} /\ want[t] # {}
  <2> DEFINE second == IF "idx" \in want[t] THEN <<Add("idx")>> ELSE <<>>
  <2>1. /\ Ledger!CreateTable(read, want, t) = <<Make>> \o second
        /\ Ledger!AlterTable(read, want, t) = <<>> /\ Ledger!DropTable(read, want, t) = <<>>
    BY <1>8 DEF Ledger!CreateTable, Ledger!AlterTable, Ledger!DropTable, Ledger!When
  <2>2. <<Make>> \in Seq(A) /\ second \in Seq(A)
        /\ Make \in ToSet(<<Make>>) /\ ("idx" \in want[t] => Add("idx") \in ToSet(second))
    <3> HIDE DEF A, Make, Add
    <3> QED BY <1>3, <1>5, <1>6, <1>8
  <2>3. /\ <<Make>> \o second \in Seq(A)
        /\ ToSet(<<Make>> \o second) = ToSet(<<Make>>) \cup ToSet(second)
    <3> HIDE DEF A, Make, second
    <3> QED BY <2>2, PartsElements, ZenonT(60)
  <2> HIDE DEF A, Make, Add, Cut, Gone, second
  <2> QED BY <1>2, <1>6, <1>8, <2>1, <2>2, <2>3 DEF A
<1>9. CASE read[t] # {} /\ want[t] # {}
  <2> DEFINE a(o) == Ledger!AlterObject(read, want, t, o)
  <2>1. /\ Ledger!CreateTable(read, want, t) = <<>> /\ Ledger!DropTable(read, want, t) = <<>>
        /\ Ledger!AlterTable(read, want, t) = a("col") \o a("idx")
    BY <1>9 DEF Ledger!CreateTable, Ledger!AlterTable, Ledger!DropTable, Ledger!When
  <2>2. a("col") \in Seq(A) /\ a("idx") \in Seq(A)
    <3> HIDE DEF A
    <3> QED BY <1>7, <1>9
  <2>3. /\ a("col") \o a("idx") \in Seq(A)
        /\ ToSet(a("col") \o a("idx")) = ToSet(a("col")) \cup ToSet(a("idx"))
    <3> HIDE DEF A, a
    <3> QED BY <2>2, PartsElements
  <2>4. ASSUME NEW s \in A, s.on = t
        PROVE  s \in ToSet(a("col")) \cup ToSet(a("idx"))
    <3>1. PICK o \in {"col", "idx"} : \/ s = Add(o) /\ o \in want[t] \ read[t]
                                      \/ s = Cut(o) /\ o \in read[t] \ want[t]
      <4> HIDE DEF A, Make, Add, Cut, Gone
      <4> QED BY <1>2, <1>9, <2>4
    <3>2. s \in ToSet(a(o))
      <4> HIDE DEF A, Add, Cut
      <4> QED BY <1>7, <1>9, <3>1
    <3> QED BY <3>1, <3>2
  <2> HIDE DEF a
  <2> QED BY <1>6, <2>1, <2>2, <2>3, <2>4
<1>10. CASE want[t] = {}
  <2>1. /\ Ledger!CreateTable(read, want, t) = <<>> /\ Ledger!AlterTable(read, want, t) = <<>>
        /\ Ledger!DropTable(read, want, t) = IF read[t] # {} THEN <<Gone>> ELSE <<>>
    BY <1>10 DEF Ledger!CreateTable, Ledger!AlterTable, Ledger!DropTable, Ledger!When
  <2>2. read[t] # {} => <<Gone>> \in Seq(A) /\ Gone \in ToSet(<<Gone>>)
    <3> HIDE DEF A, Gone
    <3> QED BY <1>3, <1>5, <1>10
  <2>3. ASSUME NEW s \in A, s.on = t PROVE s = Gone /\ read[t] # {}
    <3> HIDE DEF A, Make, Add, Cut, Gone
    <3> QED BY <1>2, <1>10, <2>3
  <2> HIDE DEF Gone
  <2> QED BY <1>6, <2>1, <2>2, <2>3
<1> QED BY <1>8, <1>9, <1>10

\* Diff plans the changes, and all of them.
LEMMA DiffChanges ==
    ASSUME NEW read \in Schemas, NEW want \in Schemas
    PROVE  /\ Ledger!Diff(read, want) \in Seq(Changes(read, want))
           /\ Changes(read, want) \subseteq ToSet(Ledger!Diff(read, want))
<1> DEFINE A  == Changes(read, want)
           cs == [i \in DOMAIN TableOrder |-> Ledger!CreateTable(read, want, TableOrder[i])]
           as == [i \in DOMAIN TableOrder |-> Ledger!AlterTable(read, want, TableOrder[i])]
           ds == [i \in DOMAIN TableOrder |-> Ledger!DropTable(read, want, TableOrder[i])]
           F(ss) == Ledger!FlattenSeq(ss)
<1>1. Len(TableOrder) \in Nat /\ \A i \in DOMAIN TableOrder : TableOrder[i] \in Tables
  BY MigrateAssumption
<1>2. Ledger!Diff(read, want) = F(cs) \o F(as) \o F(ds)
  BY DEF Ledger!Diff, Ledger!FlatMap
<1>3. \A i \in DOMAIN TableOrder : cs[i] \in Seq(A) /\ as[i] \in Seq(A) /\ ds[i] \in Seq(A)
  <2> HIDE DEF A
  <2> QED BY <1>1, TableChanges DEF A
<1>4. /\ F(cs) \in Seq(A) /\ F(as) \in Seq(A) /\ F(ds) \in Seq(A)
      /\ \A i \in DOMAIN TableOrder : /\ ToSet(cs[i]) \subseteq ToSet(F(cs))
                                      /\ ToSet(as[i]) \subseteq ToSet(F(as))
                                      /\ ToSet(ds[i]) \subseteq ToSet(F(ds))
  <2>1. /\ cs = [i \in DOMAIN TableOrder |-> cs[i]] /\ as = [i \in DOMAIN TableOrder |-> as[i]]
        /\ ds = [i \in DOMAIN TableOrder |-> ds[i]]
    OBVIOUS
  <2> HIDE DEF A, cs, as, ds
  <2> QED BY <1>1, <1>3, <2>1, PiecesElements
<1>5. /\ F(cs) \o F(as) \in Seq(A)
      /\ ToSet(F(cs) \o F(as)) = ToSet(F(cs)) \cup ToSet(F(as))
  <2> HIDE DEF A, F
  <2> QED BY <1>4, PartsElements
<1>6. /\ (F(cs) \o F(as)) \o F(ds) \in Seq(A)
      /\ ToSet((F(cs) \o F(as)) \o F(ds)) = ToSet(F(cs) \o F(as)) \cup ToSet(F(ds))
  <2> DEFINE front == F(cs) \o F(as)
             back  == F(ds)
  <2>1. front \in Seq(A) /\ back \in Seq(A)
    BY <1>4, <1>5
  <2> HIDE DEF A, front, back
  <2>2. front \o back \in Seq(A) /\ ToSet(front \o back) = ToSet(front) \cup ToSet(back)
    BY <2>1, PartsElements
  <2> QED BY <2>2 DEF front, back
<1>7. ASSUME NEW s \in A PROVE s \in ToSet(F(cs)) \cup ToSet(F(as)) \cup ToSet(F(ds))
  <2>1. s.on \in Tables
    BY StatementForms DEF Changes
  <2>2. PICK i \in DOMAIN TableOrder : TableOrder[i] = s.on
    BY <2>1 DEF Tables, Ledger!Tables, Ledger!ToSet
  <2>3. s \in ToSet(cs[i]) \cup ToSet(as[i]) \cup ToSet(ds[i])
    <3> HIDE DEF A
    <3> QED BY <2>1, <2>2, TableChanges DEF A
  <2> HIDE DEF F, cs, as, ds
  <2> QED BY <1>4, <2>2, <2>3
<1> HIDE DEF F, cs, as, ds, A
<1> QED BY <1>2, <1>5, <1>6, <1>7 DEF A

\* A batch is a sequence of statements, whatever the names of the tables.
LEMMA PlanType ==
    ASSUME NEW read \in Schemas, NEW want \in Schemas
    PROVE  Plan(read, want) \in Seq(Statements)
<1>1. ASSUME NEW a \in Schemas, NEW b \in Schemas PROVE Ledger!Diff(a, b) \in Seq(Statements)
  <2>1. Changes(a, b) \subseteq Statements
    BY DEF Changes
  <2>2. Seq(Changes(a, b)) \subseteq Seq(Statements)
    <3> DEFINE C == Changes(a, b)
    <3>1. C \subseteq Statements
      BY <2>1
    <3> HIDE DEF C
    <3>2. Seq(C) \subseteq Seq(Statements)
      BY <3>1
    <3> QED BY <3>2 DEF C
  <2> QED BY <2>2, DiffChanges
<1>2. Nothing \in Schemas
  BY DEF Nothing, Schemas, Tables, Ledger!Schemas, Ledger!Contents
<1>3. Ledger!Diff(read, want) \in Seq(Statements) /\ Ledger!Diff(Nothing, want) \in Seq(Statements)
      /\ Ledger!Diff(read, Nothing) \in Seq(Statements)
  BY <1>1, <1>2
<1> DEFINE a == Ledger!Diff(Nothing, want)
           b == Ledger!Diff(read, Nothing)
<1>4. a \o b \in Seq(Statements)
  <2>1. a \in Seq(Statements) /\ b \in Seq(Statements)
    BY <1>3
  <2> HIDE DEF a, b
  <2> QED BY <2>1, PartsElements
<1> QED BY <1>3, <1>4 DEF Plan

--------------------------------------------------------------------------------
(* Replaying the history                                                      *)

Rows == [id : 1..MaxRows, stmts : Seq(Statements)]
OneRowPerId(rows) == \A a, b \in rows : a.id = b.id => a = b

\* There is room for some number of rows.
LEMMA MaxRowsNat == MaxRows \in Nat
BY MigrateAssumption, FS_CardinalityType DEF MaxRows

\* What a batch does to a schema: the type, that it is a matter of the table alone,
\* and that other tables stay.
LEMMA RunAllFacts ==
    ASSUME NEW stmts \in Seq(Statements)
    PROVE  /\ \A d \in Loose : Ledger!RunAll(d, stmts) \in Loose
           /\ \A d, e \in Loose, t \in Tables :
                d[t] = e[t] => Ledger!RunAll(d, stmts)[t] = Ledger!RunAll(e, stmts)[t]
           /\ \A d \in Loose, t \in Tables :
                (\A i \in 1..Len(stmts) : stmts[i].on # t) => Ledger!RunAll(d, stmts)[t] = d[t]
<1>1. Len(stmts) \in 0..Len(stmts)
  OBVIOUS
<1>2. \A d \in Loose : Ledger!RunAll(d, stmts) \in Loose
  BY <1>1, StatesType DEF Ledger!RunAll
<1>3. ASSUME NEW d \in Loose, NEW e \in Loose, NEW t \in Tables, d[t] = e[t]
      PROVE  Ledger!RunAll(d, stmts)[t] = Ledger!RunAll(e, stmts)[t]
  BY <1>1, <1>3, StatesLocal DEF Ledger!RunAll
<1>4. ASSUME NEW d \in Loose, NEW t \in Tables, \A i \in 1..Len(stmts) : stmts[i].on # t
      PROVE  Ledger!RunAll(d, stmts)[t] = d[t]
  BY <1>1, <1>4, StatesUntouched DEF Ledger!RunAll
<1> QED BY <1>2, <1>3, <1>4

\* The recursive definition of ReplayStates defines a function.
LEMMA ReplayDef ==
    ASSUME NEW rows
    PROVE  ReplayStates(rows) =
             [n \in 0..MaxRows |->
                IF n = 0 THEN base
                ELSE IF Numbered(rows, n) = {} THEN ReplayStates(rows)[n - 1]
                ELSE Ledger!RunAll(ReplayStates(rows)[n - 1],
                                   (CHOOSE r \in Numbered(rows, n) : TRUE).stmts)]
<1> DEFINE Then(s, n) == IF Numbered(rows, n) = {} THEN s
                         ELSE Ledger!RunAll(s, (CHOOSE r \in Numbered(rows, n) : TRUE).stmts)
           Def(g, n) == g = [i \in 0..n |-> IF i = 0 THEN base ELSE Then(g[i - 1], i)]
           S == {n \in Nat : \E g : Def(g, n)}
<1>0. ReplayStates(rows) = CHOOSE g : Def(g, MaxRows)
  BY DEF ReplayStates
<1> HIDE DEF Then
<1>1. 0 \in S
  <2>1. Def([i \in 0..0 |-> base], 0)
    OBVIOUS
  <2> QED BY <2>1
<1>2. ASSUME NEW n \in Nat, n \in S PROVE n + 1 \in S
  <2>1. PICK g : Def(g, n)
    BY <1>2
  <2> DEFINE h == [i \in 0..(n + 1) |-> IF i = n + 1 THEN Then(g[n], n + 1) ELSE g[i]]
  <2>2. ASSUME NEW i \in 0..(n + 1)
        PROVE  h[i] = IF i = 0 THEN base ELSE Then(h[i - 1], i)
    <3>1. CASE i = n + 1
      BY <3>1
    <3>2. CASE i # n + 1
      <4>1. i \in 0..n /\ (i # 0 => i - 1 \in 0..n /\ i - 1 # n + 1 /\ i - 1 \in 0..(n + 1))
        BY <3>2
      <4>2. g[i] = IF i = 0 THEN base ELSE Then(g[i - 1], i)
        BY <2>1, <4>1
      <4> QED BY <4>1, <4>2, <3>2
    <3> QED BY <3>1, <3>2
  <2>3. Def(h, n + 1)
    BY <2>2
  <2>4. \E k : Def(k, n + 1)
    <3> HIDE DEF h, Def
    <3> QED BY <2>3
  <2> HIDE DEF h, Def
  <2> QED BY <2>4
<1>3. MaxRows \in S
  <2> HIDE DEF S
  <2> QED BY <1>1, <1>2, NatSetInduction, MaxRowsNat
<1>4. \E g : Def(g, MaxRows)
  BY <1>3
<1>5. Def(ReplayStates(rows), MaxRows)
  <2> HIDE DEF Def
  <2> QED BY <1>0, <1>4
<1> QED BY <1>5 DEF Then

\* The schema replayed to the n-th id: that to the id before, and the statements of
\* the row that has it.
LEMMA ReplayStep ==
    ASSUME base \in Loose, NEW rows \in SUBSET Rows
    PROVE  /\ ReplayStates(rows)[0] = base
           /\ \A n \in 0..MaxRows : ReplayStates(rows)[n] \in Loose
           /\ \A n \in 1..MaxRows :
                (\A r \in rows : r.id # n) => ReplayStates(rows)[n] = ReplayStates(rows)[n - 1]
           /\ OneRowPerId(rows) => \A r \in rows :
                ReplayStates(rows)[r.id] = Ledger!RunAll(ReplayStates(rows)[r.id - 1], r.stmts)
<1> DEFINE R(n) == ReplayStates(rows)[n]
<1>0. MaxRows \in Nat
  BY MaxRowsNat
<1>1. R(0) = base
  BY <1>0, ReplayDef
<1>2. ASSUME NEW n \in 1..MaxRows
      PROVE  R(n) = IF Numbered(rows, n) = {} THEN R(n - 1)
                    ELSE Ledger!RunAll(R(n - 1), (CHOOSE r \in Numbered(rows, n) : TRUE).stmts)
  <2>1. n \in 0..MaxRows /\ n # 0
    BY <1>0
  <2> QED BY <2>1, ReplayDef
<1>3. \A n \in 0..MaxRows : R(n) \in Loose
  <2> DEFINE S == {n \in Nat : n <= MaxRows => R(n) \in Loose}
  <2>1. 0 \in S
    BY <1>1
  <2>2. ASSUME NEW n \in Nat, n \in S PROVE n + 1 \in S
    <3>1. SUFFICES ASSUME n + 1 <= MaxRows PROVE R(n + 1) \in Loose
      OBVIOUS
    <3>2. n + 1 \in 1..MaxRows /\ (n + 1) - 1 = n /\ R(n) \in Loose
      BY <1>0, <2>2, <3>1
    <3>3. CASE Numbered(rows, n + 1) = {}
      <4> HIDE DEF R
      <4> QED BY <1>2, <3>2, <3>3
    <3>4. CASE Numbered(rows, n + 1) # {}
      <4> DEFINE r == CHOOSE x \in Numbered(rows, n + 1) : TRUE
      <4>1. r \in rows
        BY <3>4 DEF Numbered
      <4>2. r.stmts \in Seq(Statements)
        <5> HIDE DEF r
        <5> QED BY <4>1 DEF Rows
      <4>3. R(n + 1) = Ledger!RunAll(R(n), r.stmts)
        <5> HIDE DEF R
        <5> QED BY <1>2, <3>2, <3>4
      <4> HIDE DEF r, R
      <4> QED BY <3>2, <4>2, <4>3, RunAllFacts
    <3> QED BY <3>3, <3>4
  <2>3. \A n \in Nat : n \in S
    <3> HIDE DEF S
    <3> QED BY <2>1, <2>2, NatSetInduction
  <2> QED BY <1>0, <2>3
<1>4. ASSUME NEW n \in 1..MaxRows, \A r \in rows : r.id # n
      PROVE  R(n) = R(n - 1)
  <2>1. Numbered(rows, n) = {}
    BY <1>4 DEF Numbered
  <2> HIDE DEF R
  <2> QED BY <1>2, <2>1
<1>5. ASSUME OneRowPerId(rows), NEW r \in rows
      PROVE  R(r.id) = Ledger!RunAll(R(r.id - 1), r.stmts)
  <2>1. Numbered(rows, r.id) = {r}
    BY <1>5 DEF Numbered, OneRowPerId
  <2>2. (CHOOSE x \in Numbered(rows, r.id) : TRUE) = r
    BY <2>1
  <2>3. r.id \in 1..MaxRows
    BY DEF Rows
  <2> HIDE DEF R
  <2> QED BY <1>2, <2>1, <2>2, <2>3
<1> QED BY <1>1, <1>3, <1>4, <1>5

\* A row is inserted among the rows of the history: none of those with a higher id is
\* on a table of W, its own statements are on tables of W only.  Then the replay gives
\* the tables of W as its statements leave them, and the others as before.
LEMMA ReplayInsert ==
    ASSUME base \in Loose, NEW rows \in SUBSET Rows, NEW new \in Rows, NEW W \in SUBSET Tables,
           OneRowPerId(rows), \A r \in rows : r.id # new.id,
           \A r \in rows : r.id > new.id => \A i \in 1..Len(r.stmts) : r.stmts[i].on \notin W,
           \A i \in 1..Len(new.stmts) : new.stmts[i].on \in W
    PROVE  Replay(rows \cup {new}) = Ledger!RunAll(Replay(rows), new.stmts)
<1> DEFINE H(n) == ReplayStates(rows)[n]
           K(n) == ReplayStates(rows \cup {new})[n]
           After(n) == Ledger!RunAll(H(n), new.stmts)
           Holds(n) == \A t \in Tables : K(n)[t] = IF n >= new.id THEN After(n)[t] ELSE H(n)[t]
           S == {n \in Nat : n <= MaxRows => Holds(n)}
<1>0. MaxRows \in Nat /\ new.id \in 1..MaxRows /\ new.stmts \in Seq(Statements)
  BY MaxRowsNat DEF Rows
<1>1. rows \cup {new} \in SUBSET Rows /\ OneRowPerId(rows \cup {new})
  BY DEF OneRowPerId
<1>2. /\ \A n \in 0..MaxRows : H(n) \in Loose /\ K(n) \in Loose
      /\ H(0) = base /\ K(0) = base
      /\ \A n \in 1..MaxRows : (\A r \in rows : r.id # n) => H(n) = H(n - 1)
      /\ \A n \in 1..MaxRows : (\A r \in rows \cup {new} : r.id # n) => K(n) = K(n - 1)
      /\ \A r \in rows : H(r.id) = Ledger!RunAll(H(r.id - 1), r.stmts)
      /\ \A r \in rows \cup {new} : K(r.id) = Ledger!RunAll(K(r.id - 1), r.stmts)
  <2>1. /\ H(0) = base /\ \A n \in 0..MaxRows : H(n) \in Loose
        /\ \A n \in 1..MaxRows : (\A r \in rows : r.id # n) => H(n) = H(n - 1)
        /\ \A r \in rows : H(r.id) = Ledger!RunAll(H(r.id - 1), r.stmts)
    BY ReplayStep
  <2>2. /\ K(0) = base /\ \A n \in 0..MaxRows : K(n) \in Loose
        /\ \A n \in 1..MaxRows : (\A r \in rows \cup {new} : r.id # n) => K(n) = K(n - 1)
        /\ \A r \in rows \cup {new} : K(r.id) = Ledger!RunAll(K(r.id - 1), r.stmts)
    BY <1>1, ReplayStep
  <2> HIDE DEF H, K
  <2> QED BY <2>1, <2>2
<1> HIDE DEF H, K
<1>3. 0 \in S
  BY <1>0, <1>2
<1>4. ASSUME NEW n \in Nat, n \in S PROVE n + 1 \in S
  <2>1. SUFFICES ASSUME n + 1 <= MaxRows PROVE Holds(n + 1)
    OBVIOUS
  <2>2. n + 1 \in 1..MaxRows /\ (n + 1) - 1 = n /\ n \in 0..MaxRows /\ n + 1 \in 0..MaxRows /\ Holds(n)
    BY <1>0, <1>4, <2>1
  <2>3. H(n) \in Loose /\ K(n) \in Loose /\ H(n + 1) \in Loose /\ K(n + 1) \in Loose
    BY <1>2, <2>2
  <2> SUFFICES ASSUME NEW t \in Tables
               PROVE  K(n + 1)[t] = IF n + 1 >= new.id THEN After(n + 1)[t] ELSE H(n + 1)[t]
    OBVIOUS
  <2>4. CASE n + 1 = new.id
    <3>1. H(n + 1) = H(n)
      BY <1>2, <2>2, <2>4
    <3>2. K(n + 1) = Ledger!RunAll(K(n), new.stmts)
      BY <1>2, <2>2, <2>4
    <3>3. K(n)[t] = H(n)[t]
      BY <1>0, <2>2, <2>4
    <3>4. Ledger!RunAll(K(n), new.stmts)[t] = Ledger!RunAll(H(n), new.stmts)[t]
      BY <1>0, <2>3, <3>3, RunAllFacts
    <3> QED BY <2>4, <3>1, <3>2, <3>4
  <2>5. CASE n + 1 # new.id /\ \A r \in rows : r.id # n + 1
    <3>1. H(n + 1) = H(n) /\ K(n + 1) = K(n)
      BY <1>2, <2>2, <2>5
    <3>2. n + 1 >= new.id <=> n >= new.id
      BY <1>0, <2>2, <2>5
    <3> QED BY <2>2, <3>1, <3>2
  <2>6. CASE n + 1 # new.id /\ \E r \in rows : r.id = n + 1
    <3>1. PICK r \in rows : r.id = n + 1
      BY <2>6
    <3>2. r.stmts \in Seq(Statements)
      BY DEF Rows
    <3>3. H(n + 1) = Ledger!RunAll(H(n), r.stmts) /\ K(n + 1) = Ledger!RunAll(K(n), r.stmts)
      BY <1>2, <2>2, <3>1
    <3>4. CASE n + 1 < new.id
      <4>1. K(n)[t] = H(n)[t] /\ ~(n + 1 >= new.id)
        BY <1>0, <2>2, <3>4
      <4>2. Ledger!RunAll(K(n), r.stmts)[t] = Ledger!RunAll(H(n), r.stmts)[t]
        BY <2>3, <3>2, <4>1, RunAllFacts
      <4> QED BY <3>3, <4>1, <4>2
    <3>5. CASE n + 1 > new.id /\ t \in W
      <4>1. n >= new.id /\ n + 1 >= new.id
        BY <1>0, <2>2, <3>5
      <4>2. \A i \in 1..Len(r.stmts) : r.stmts[i].on # t
        BY <3>1, <3>5
      <4>3. K(n + 1)[t] = K(n)[t] /\ H(n + 1)[t] = H(n)[t]
        BY <2>3, <3>2, <3>3, <4>2, RunAllFacts
      <4>4. Ledger!RunAll(H(n + 1), new.stmts)[t] = Ledger!RunAll(H(n), new.stmts)[t]
        BY <1>0, <2>3, <4>3, RunAllFacts
      <4> QED BY <2>2, <4>1, <4>3, <4>4
    <3>6. CASE n + 1 > new.id /\ t \notin W
      <4>1. n >= new.id /\ n + 1 >= new.id
        BY <1>0, <2>2, <3>6
      <4>2. \A i \in 1..Len(new.stmts) : new.stmts[i].on # t
        BY <3>6
      <4>3. After(n)[t] = H(n)[t] /\ After(n + 1)[t] = H(n + 1)[t]
        BY <1>0, <2>3, <4>2, RunAllFacts
      <4>4. K(n)[t] = H(n)[t]
        BY <2>2, <4>1, <4>3
      <4>5. Ledger!RunAll(K(n), r.stmts)[t] = Ledger!RunAll(H(n), r.stmts)[t]
        BY <2>3, <3>2, <4>4, RunAllFacts
      <4> QED BY <3>3, <4>1, <4>3, <4>5
    <3> QED BY <1>0, <2>2, <2>6, <3>4, <3>5, <3>6
  <2> QED BY <2>4, <2>5, <2>6
<1>5. \A n \in Nat : n \in S
  <2> HIDE DEF S
  <2> QED BY <1>3, <1>4, NatSetInduction
<1>6. Holds(MaxRows) /\ MaxRows >= new.id
  BY <1>0, <1>5
<1>7. K(MaxRows) \in Loose /\ After(MaxRows) \in Loose
  BY <1>0, <1>2, RunAllFacts
<1>8. K(MaxRows) = After(MaxRows)
  BY <1>6, <1>7 DEF Loose
<1> QED BY <1>8 DEF Replay, H, K


--------------------------------------------------------------------------------
(* Locks, seen rows and the rest of the invariant                            *)

Labels   == {"start", "history", "list", "read", "apply", "commit", "done", "failed"}
Outcomes == {"none", "current", "applied", "reported", "failed"}
Holdings == UNION {[T -> Ledger!Contents] : T \in SUBSET Tables}
Open     == {"apply", "commit"}

\* The values of the variables.
Typed ==
    /\ dialect \in Dialects /\ base \in Schemas /\ db \in Schemas
    /\ nextId \in 1..(MaxRows + 1)
    /\ history \in SUBSET Rows /\ \A r \in history : r.id < nextId
    /\ call \in [Procs -> Modes] /\ target \in [Procs -> Schemas]
    /\ pc \in [Procs -> Labels] /\ result \in [Procs -> Outcomes]
    /\ seen \in [Procs -> SUBSET Rows]
    /\ live \in [Procs -> Schemas]
    /\ unread \in [Procs -> SUBSET (Tables \X {"col", "idx"})]
    /\ todo \in [Procs -> Seq(Statements)] /\ batch \in [Procs -> Seq(Statements)]
    /\ work \in [Procs -> Holdings]
    /\ row \in [Procs -> SUBSET Rows]

\* A process reads the columns and indexes of the tables it has listed.
ReadsListed ==
    \A p \in Procs : \A q \in unread[p] : "table" \in live[p][q[1]] /\ q[2] \notin live[p][q[1]]

\* Transactions are open, and rows inserted, only where the code is between the first
\* statement and the end of its call.
Phases ==
    \A p \in Procs :
      /\ AutoCommits \/ pc[p] \notin Open => work[p] = NoWork /\ row[p] = {}
      /\ pc[p] = "apply" => row[p] = {}
      /\ pc[p] = "commit" => todo[p] = <<>> /\ call[p] = "migrate"
      /\ pc[p] = "commit" /\ ~AutoCommits =>
           \E i \in 1..(nextId - 1) : row[p] = {[id |-> i, stmts |-> batch[p]]}
      /\ result[p] # "none" => pc[p] \in {"done", "failed"}

\* No two transactions hold the same table.
Exclusive == \A p, q \in Procs : p # q => DOMAIN work[p] \cap DOMAIN work[q] = {}

Inv == Typed /\ ReadsListed /\ Phases /\ Exclusive

--------------------------------------------------------------------------------
(* Types and locks                                                            *)

\* The tables a transaction holds.
LEMMA HoldingsFacts ==
    /\ NoWork \in Holdings /\ DOMAIN NoWork = {}
    /\ \A h \in Holdings : DOMAIN h \subseteq Tables /\ \A t \in DOMAIN h : h[t] \in Ledger!Contents
<1>1. DOMAIN NoWork = {} /\ NoWork \in [{} -> Ledger!Contents]
  BY DEF NoWork
<1> QED BY <1>1 DEF Holdings

\* What a process sees of a table is a content.
LEMMA ContentType ==
    ASSUME Typed, NEW p \in Procs, NEW t \in Tables
    PROVE  Content(p, t) \in Ledger!Contents
BY HoldingsFacts DEF Typed, Content, Schemas, Tables, Ledger!Schemas

\* The empty database is a schema.
LEMMA NothingSchema == Nothing \in Schemas
BY DEF Nothing, Schemas, Tables, Ledger!Schemas, Ledger!Contents

\* The first states.
LEMMA InitInv == Init => Inv
<1> SUFFICES ASSUME Init PROVE Inv
  OBVIOUS
<1>2. Typed
  BY NothingSchema, MigrateAssumption, MaxRowsNat, HoldingsFacts DEF Init, Typed, Labels, Outcomes, Modes
<1>3. ReadsListed
  BY DEF Init, ReadsListed
<1>4. Phases
  BY DEF Init, Phases, Open
<1>5. Exclusive
  BY HoldingsFacts DEF Init, Exclusive
<1> QED BY <1>2, <1>3, <1>4, <1>5 DEF Inv

\* Only the history table is created.
LEMMA EnsureKeeps ==
    ASSUME Inv, NEW p \in Procs, Ensure(p)
    PROVE  Inv'
<1>1. Typed'
  BY DEF Inv, Typed, Ensure, Goto, Labels, Outcomes
<1>2. ReadsListed'
  BY DEF Inv, Typed, ReadsListed, Ensure, Goto, Labels
<1>3. Phases'
  BY DEF Inv, Typed, Phases, AutoCommits, Open, Ensure, Goto, Labels
<1>4. Exclusive'
  BY DEF Inv, Exclusive, Ensure, Goto
<1> QED BY <1>1, <1>2, <1>3, <1>4 DEF Inv

\* The rows read are rows of the history.
LEMMA LoadHistoryKeeps ==
    ASSUME Inv, NEW p \in Procs, LoadHistory(p)
    PROVE  Inv'
<1>1. Typed'
  BY DEF Inv, Typed, LoadHistory, Goto, Labels, Outcomes
<1>2. ReadsListed'
  BY DEF Inv, Typed, ReadsListed, LoadHistory, Goto, Labels
<1>3. Phases'
  BY DEF Inv, Typed, Phases, AutoCommits, Open, LoadHistory, Goto, Labels
<1>4. Exclusive'
  BY DEF Inv, Exclusive, LoadHistory, Goto
<1> QED BY <1>1, <1>2, <1>3, <1>4 DEF Inv

\* A call made again forgets what it knew.
LEMMA RerunKeeps ==
    ASSUME Inv, NEW p \in Procs, Rerun(p)
    PROVE  Inv'
<1>1. Typed'
  BY NothingSchema DEF Inv, Typed, Rerun, Goto, Labels, Outcomes
<1>2. ReadsListed'
  BY DEF Inv, Typed, ReadsListed, Rerun, Goto, Labels
<1>3. Phases'
  BY DEF Inv, Typed, Phases, AutoCommits, Open, Rerun, Goto, Labels
<1>4. Exclusive'
  BY DEF Inv, Exclusive, Rerun, Goto
<1> QED BY <1>1, <1>2, <1>3, <1>4 DEF Inv


\* The first query finds the tables there are, without what is in them.
LEMMA ListTablesKeeps ==
    ASSUME Inv, NEW p \in Procs, ListTables(p)
    PROVE  Inv'
<1> DEFINE found == {t \in Tables : db[t] # {}}
           heads == [t \in Tables |-> db[t] \cap {"table"}]
<1>1. db \in Schemas /\ heads \in Schemas /\ \A t \in found : "table" \in db[t]
  BY DEF Inv, Typed, Schemas, Tables, Ledger!Schemas, Ledger!Contents, Ledger!Objects
<1>2. /\ live' = [live EXCEPT ![p] = heads] /\ unread' = [unread EXCEPT ![p] = found \X {"col", "idx"}]
      /\ pc' = [pc EXCEPT ![p] = "read"]
      /\ UNCHANGED <<dialect, base, db, history, nextId, ledger, call, target, seen, todo, batch,
                     work, row, result, faults>>
  BY DEF ListTables, Goto
<1>3. Typed'
  <2>1. found \X {"col", "idx"} \in SUBSET (Tables \X {"col", "idx"})
    OBVIOUS
  <2> HIDE DEF found, heads
  <2> QED BY <1>1, <1>2, <2>1 DEF Inv, Typed, Labels
<1>4. ReadsListed'
  <2>1. \A q \in found \X {"col", "idx"} : "table" \in heads[q[1]] /\ q[2] \notin heads[q[1]]
    BY <1>1
  <2> HIDE DEF found, heads
  <2> QED BY <1>2, <2>1 DEF Inv, Typed, ReadsListed
<1>5. Phases'
  BY DEF Inv, Typed, Phases, AutoCommits, Open, ListTables, Goto, Labels
<1>6. Exclusive'
  BY DEF Inv, Exclusive, ListTables
<1> QED BY <1>3, <1>4, <1>5, <1>6 DEF Inv

\* A query adds what it finds to tables that were listed.
LEMMA ReadKeeps ==
    ASSUME Inv, NEW p \in Procs, Read(p)
    PROVE  Inv'
<1>1. PICK query \in Queries(p) :
        /\ live' = [live EXCEPT ![p] = [t \in Tables |->
                        live[p][t] \cup {o \in db[t] : <<t, o>> \in query}]]
        /\ unread' = [unread EXCEPT ![p] = unread[p] \ query]
  BY DEF Read
<1>2. query \subseteq unread[p]
  BY DEF Queries
<1> DEFINE more == [t \in Tables |-> live[p][t] \cup {o \in db[t] : <<t, o>> \in query}]
<1>3. /\ unread[p] \subseteq Tables \X {"col", "idx"} /\ db \in Schemas /\ live[p] \in Schemas
      /\ \A q \in unread[p] : "table" \in live[p][q[1]] /\ q[2] \notin live[p][q[1]]
  BY DEF Inv, Typed, ReadsListed
<1>4. ASSUME NEW t \in Tables PROVE more[t] \in Ledger!Contents
  <2>1. live[p][t] \in Ledger!Contents /\ db[t] \in Ledger!Contents
    BY <1>3 DEF Schemas, Tables, Ledger!Schemas
  <2>2. CASE \A o \in db[t] : <<t, o>> \notin query
    BY <2>1, <2>2
  <2>3. CASE \E o \in db[t] : <<t, o>> \in query
    <3>1. "table" \in live[p][t]
      BY <1>2, <1>3, <2>3
    <3> QED BY <2>1, <3>1 DEF Ledger!Contents
  <2> QED BY <2>2, <2>3
<1>5. more \in Schemas
  BY <1>4 DEF Schemas, Tables, Ledger!Schemas
<1>6. Typed'
  <2> HIDE DEF more
  <2> QED BY <1>1, <1>5 DEF Inv, Typed, Read, more
<1>7. ReadsListed'
  <2>1. \A q \in unread[p] \ query : "table" \in more[q[1]] /\ q[2] \notin more[q[1]]
    <3> SUFFICES ASSUME NEW q \in unread[p] \ query
                 PROVE  "table" \in more[q[1]] /\ q[2] \notin more[q[1]]
      OBVIOUS
    <3>1. q[1] \in Tables /\ q = <<q[1], q[2]>>
      BY <1>3
    <3> QED BY <1>3, <3>1
  <2>2. live'[p] = more /\ unread'[p] = unread[p] \ query
        /\ \A r \in Procs \ {p} : live'[r] = live[r] /\ unread'[r] = unread[r]
    BY <1>1 DEF Inv, Typed
  <2> HIDE DEF more
  <2> QED BY <2>1, <2>2 DEF Inv, ReadsListed
<1>8. Phases'
  BY DEF Inv, Typed, Phases, AutoCommits, Open, Read
<1>9. Exclusive'
  BY DEF Inv, Exclusive, Read
<1> QED BY <1>6, <1>7, <1>8, <1>9 DEF Inv

\* The statements are those of a plan.
LEMMA CompareKeeps ==
    ASSUME Inv, NEW p \in Procs, Compare(p)
    PROVE  Inv'
<1> DEFINE stmts   == Plan(live[p], target[p])
           outcome == IF call[p] \in {"status", "dry_run"} THEN "reported"
                      ELSE IF stmts = <<>> THEN "current" ELSE "none"
<1>1. stmts \in Seq(Statements)
  BY PlanType DEF Inv, Typed
<1> HIDE DEF stmts
<1>2. /\ pc[p] = "read"
      /\ todo' = [todo EXCEPT ![p] = stmts] /\ batch' = [batch EXCEPT ![p] = stmts]
      /\ result' = [result EXCEPT ![p] = outcome]
      /\ pc' = [pc EXCEPT ![p] = IF outcome = "none" THEN "apply" ELSE "done"]
      /\ UNCHANGED <<dialect, base, db, history, nextId, ledger, call, target, seen, live, unread,
                     work, row, faults>>
  BY DEF Compare, Goto, stmts
<1>3. Typed'
  BY <1>1, <1>2 DEF Inv, Typed, Labels, Outcomes
<1>4. ReadsListed'
  BY <1>2 DEF Inv, ReadsListed
<1>5. Phases'
  BY <1>2 DEF Inv, Typed, Phases, AutoCommits, Open, Labels
<1>6. Exclusive'
  BY <1>2 DEF Inv, Exclusive
<1> QED BY <1>3, <1>4, <1>5, <1>6 DEF Inv

\* A statement runs on a table nobody else holds.
LEMMA Unblocked ==
    ASSUME Typed, NEW p \in Procs, pc[p] = "apply", todo[p] # <<>>, Blockers(p) = {}
    PROVE  /\ Head(todo[p]) \in Statements /\ Head(todo[p]).on \in Tables
           /\ Head(todo[p]).on \in Scope(Head(todo[p]).on)
           /\ Scope(Head(todo[p]).on) \subseteq Tables
           /\ \A q \in Procs \ {p} : Scope(Head(todo[p]).on) \cap DOMAIN work[q] = {}
<1>1. Head(todo[p]) \in Statements
  BY DEF Typed
<1>2. Head(todo[p]).on \in Tables
  BY <1>1, StatementForms
<1>3. Held(Head(todo[p]).on) \subseteq {p}
  BY DEF Blockers
<1> QED BY <1>1, <1>2, <1>3 DEF Held, Scope

\* What Execute does: the database under MySQL, the work of the transaction otherwise.
LEMMA ExecuteStep ==
    ASSUME Inv, NEW p \in Procs, Execute(p)
    PROVE  LET s    == Head(todo[p])
               D    == DOMAIN work[p] \cup Scope(s.on)
               left == Ledger!After(s, Content(p, s.on))
           IN  /\ pc[p] = "apply" /\ todo[p] # <<>> /\ Blockers(p) = {}
               /\ Accepts(s, Content(p, s.on))
               /\ left \in Ledger!Contents
               /\ todo' = [todo EXCEPT ![p] = Tail(todo[p])] /\ Tail(todo[p]) \in Seq(Statements)
               /\ AutoCommits => /\ db' = [db EXCEPT ![s.on] = left] /\ work' = work
                                 /\ db' \in Schemas
               /\ ~AutoCommits =>
                    /\ db' = db /\ DOMAIN work'[p] = D /\ work'[p] \in Holdings
                    /\ \A t \in D : work'[p][t] = IF t = s.on THEN left ELSE Content(p, t)
                    /\ work' = [work EXCEPT ![p] = work'[p]]
               /\ UNCHANGED <<dialect, base, history, nextId, ledger, call, target, pc, seen, live,
                              unread, batch, row, result, faults>>
<1> DEFINE s    == Head(todo[p])
           D    == DOMAIN work[p] \cup Scope(s.on)
           left == Ledger!After(s, Content(p, s.on))
           mine == [t \in D |-> IF t = s.on THEN left ELSE Content(p, t)]
<1>1. pc[p] = "apply" /\ todo[p] # <<>> /\ Blockers(p) = {} /\ Accepts(s, Content(p, s.on))
  BY DEF Execute
<1>2. Typed
  BY DEF Inv
<1>3. s \in Statements /\ s.on \in Tables /\ Scope(s.on) \subseteq Tables
  BY <1>1, <1>2, Unblocked
<1>4. \A t \in Tables : Content(p, t) \in Ledger!Contents
  BY <1>2, ContentType
<1>5. left \in Ledger!Contents
  BY <1>1, <1>3, <1>4, AfterAccepted
<1>6. todo' = [todo EXCEPT ![p] = Tail(todo[p])] /\ Tail(todo[p]) \in Seq(Statements)
  BY <1>1, <1>2 DEF Execute, Typed
<1>7. ASSUME AutoCommits
      PROVE  db' = [db EXCEPT ![s.on] = left] /\ work' = work /\ db' \in Schemas
  <2>1. work[p] = NoWork
    BY <1>7 DEF Inv, Phases
  <2>2. Content(p, s.on) = db[s.on]
    BY <2>1, HoldingsFacts DEF Content
  <2>3. db' = [db EXCEPT ![s.on] = left] /\ work' = work
    BY <1>7, <2>2 DEF Execute, Ledger!Run
  <2>4. [db EXCEPT ![s.on] = left] \in Schemas
    <3> HIDE DEF left, s
    <3> QED BY <1>2, <1>3, <1>5 DEF Typed, Schemas, Tables, Ledger!Schemas
  <2> QED BY <2>3, <2>4
<1>8. ASSUME ~AutoCommits
      PROVE  /\ db' = db /\ DOMAIN work'[p] = D /\ work'[p] \in Holdings
             /\ \A t \in D : work'[p][t] = IF t = s.on THEN left ELSE Content(p, t)
             /\ work' = [work EXCEPT ![p] = work'[p]]
  <2>1. db' = db /\ work' = [work EXCEPT ![p] = mine]
    BY <1>8 DEF Execute
  <2>2. work'[p] = mine
    <3> HIDE DEF mine
    <3> QED BY <1>2, <2>1 DEF Typed
  <2>3. D \subseteq Tables
    BY <1>2, <1>3, HoldingsFacts DEF Typed
  <2>4. mine \in [D -> Ledger!Contents]
    <3> HIDE DEF left, D, s
    <3> QED BY <1>4, <1>5, <2>3
  <2>5. mine \in Holdings
    <3> HIDE DEF mine, D
    <3> QED BY <2>3, <2>4 DEF Holdings
  <2> QED BY <2>1, <2>2, <2>5
<1> QED BY <1>1, <1>5, <1>6, <1>7, <1>8 DEF Execute

\* A statement takes tables nobody holds.
LEMMA ExecuteKeeps ==
    ASSUME Inv, NEW p \in Procs, Execute(p)
    PROVE  Inv'
<1> DEFINE s == Head(todo[p])
           D == DOMAIN work[p] \cup Scope(s.on)
<1>0. Typed
  BY DEF Inv
<1>1. /\ pc[p] = "apply" /\ todo[p] # <<>> /\ Blockers(p) = {}
      /\ todo' = [todo EXCEPT ![p] = Tail(todo[p])] /\ Tail(todo[p]) \in Seq(Statements)
      /\ AutoCommits => work' = work /\ db' \in Schemas
      /\ ~AutoCommits => /\ db' = db /\ DOMAIN work'[p] = D /\ work'[p] \in Holdings
                         /\ work' = [work EXCEPT ![p] = work'[p]]
      /\ UNCHANGED <<dialect, base, history, nextId, ledger, call, target, pc, seen, live,
                     unread, batch, row, result, faults>>
  BY ExecuteStep
<1>2. \A q \in Procs \ {p} : D \cap DOMAIN work[q] = {}
  BY <1>0, <1>1, Unblocked DEF Inv, Exclusive
<1> HIDE DEF D
<1>3. Typed'
  BY <1>1 DEF Inv, Typed
<1>4. ReadsListed'
  BY <1>1 DEF Inv, ReadsListed
<1>5. Phases'
  BY <1>0, <1>1 DEF Inv, Typed, Phases, AutoCommits, Open
<1>6. Exclusive'
  BY <1>0, <1>1, <1>2, ZenonT(60) DEF Inv, Typed, Exclusive
<1> QED BY <1>3, <1>4, <1>5, <1>6 DEF Inv

\* The row carries the next number of the sequence and the batch.
LEMMA RecordKeeps ==
    ASSUME Inv, NEW p \in Procs, Record(p)
    PROVE  Inv'
<1> DEFINE new == {[id |-> nextId, stmts |-> batch[p]]}
<1>0. Typed
  BY DEF Inv
<1>1. /\ pc[p] = "apply" /\ todo[p] = <<>> /\ call[p] = "migrate" /\ nextId <= MaxRows
      /\ IF AutoCommits THEN history' = history \cup new /\ row' = row
         ELSE row' = [row EXCEPT ![p] = new] /\ history' = history
      /\ nextId' = nextId + 1
      /\ pc' = [pc EXCEPT ![p] = "commit"]
      /\ UNCHANGED <<dialect, base, db, ledger, call, target, seen, live, unread, todo, batch, work,
                     result, faults>>
  BY DEF Record, Goto
<1>2. new \in SUBSET Rows /\ nextId \in Nat /\ MaxRows \in Nat
      /\ nextId' \in 1..(MaxRows + 1) /\ nextId < nextId'
      /\ \A r \in history : r.id \in Nat
  BY <1>0, <1>1, MaxRowsNat DEF Typed, Rows
<1>3. Typed'
  <2>1. /\ history' \in SUBSET Rows /\ row' \in [Procs -> SUBSET Rows]
    <3> HIDE DEF new
    <3> QED BY <1>0, <1>1, <1>2 DEF Typed
  <2>2. ASSUME NEW r \in history' PROVE r.id < nextId'
    <3>1. CASE r \in history
      <4>1. r.id < nextId /\ r.id \in Nat
        BY <1>0, <1>2, <3>1 DEF Typed
      <4> QED BY <1>1, <1>2, <4>1
    <3>2. CASE r \in new
      BY <1>2, <3>2
    <3> QED BY <1>1, <3>1, <3>2
  <2> QED BY <1>0, <1>1, <1>2, <2>1, <2>2 DEF Typed, Labels
<1>4. ReadsListed'
  BY <1>1 DEF Inv, ReadsListed
<1>5. Phases'
  <2>1. nextId \in 1..(nextId' - 1) /\ 1..(nextId - 1) \subseteq 1..(nextId' - 1)
    BY <1>1, <1>2, <1>0 DEF Typed
  <2>2. SUFFICES ASSUME NEW q \in Procs
                 PROVE  /\ AutoCommits' \/ pc'[q] \notin Open => work'[q] = NoWork /\ row'[q] = {}
                        /\ pc'[q] = "apply" => row'[q] = {}
                        /\ pc'[q] = "commit" => todo'[q] = <<>> /\ call'[q] = "migrate"
                        /\ pc'[q] = "commit" /\ ~AutoCommits' =>
                             \E i \in 1..(nextId' - 1) : row'[q] = {[id |-> i, stmts |-> batch'[q]]}
                        /\ result'[q] # "none" => pc'[q] \in {"done", "failed"}
    BY DEF Phases
  <2>3. AutoCommits' <=> AutoCommits
    BY <1>1 DEF AutoCommits
  <2>4. CASE q = p
    <3>1. pc'[p] = "commit" /\ result'[p] = "none" /\ work'[p] = work[p] /\ todo'[p] = <<>>
          /\ call'[p] = "migrate" /\ batch'[p] = batch[p]
      BY <1>0, <1>1 DEF Inv, Phases, Typed
    <3>2. AutoCommits => work[p] = NoWork /\ row'[p] = {}
      BY <1>0, <1>1 DEF Inv, Phases, Typed
    <3>3. ~AutoCommits => row'[p] = new
      BY <1>0, <1>1 DEF Typed
    <3> QED BY <2>1, <2>3, <2>4, <3>1, <3>2, <3>3 DEF Open
  <2>5. CASE q # p
    <3>1. pc'[q] = pc[q] /\ result'[q] = result[q] /\ work'[q] = work[q] /\ todo'[q] = todo[q]
          /\ call'[q] = call[q] /\ batch'[q] = batch[q] /\ row'[q] = row[q]
      BY <1>0, <1>1, <2>5 DEF Typed
    <3> QED BY <2>1, <2>3, <3>1 DEF Inv, Phases
  <2> QED BY <2>4, <2>5
<1>6. Exclusive'
  BY <1>1 DEF Inv, Exclusive
<1> QED BY <1>3, <1>4, <1>5, <1>6 DEF Inv


\* The result of a commit: what the transaction made of its tables, and its row.
LEMMA PublishKeeps ==
    ASSUME Inv, NEW p \in Procs, NEW label \in {"done", "failed"}, NEW answer \in Outcomes,
           Publish(p, label, answer),
           UNCHANGED <<dialect, base, nextId, ledger, call, target, seen, live, unread, todo, batch>>
    PROVE  Inv'
<1>0. Typed
  BY DEF Inv
<1>1. /\ db' = [t \in Tables |-> Content(p, t)] /\ history' = history \cup row[p]
      /\ work' = [work EXCEPT ![p] = NoWork] /\ row' = [row EXCEPT ![p] = {}]
      /\ result' = [result EXCEPT ![p] = answer] /\ pc' = [pc EXCEPT ![p] = label]
  BY DEF Publish, Goto
<1>2. db' \in Schemas
  BY <1>0, <1>1, ContentType DEF Schemas, Tables, Ledger!Schemas
<1>3. row[p] \in SUBSET Rows /\ \A r \in row[p] : r.id < nextId
  <2>1. row[p] = {} \/ \E i \in 1..(nextId - 1) : row[p] = {[id |-> i, stmts |-> batch[p]]}
    <3>1. pc[p] \notin Open \/ pc[p] = "apply" \/ pc[p] = "commit"
      BY DEF Open
    <3> QED BY <3>1 DEF Inv, Phases
  <2>2. ASSUME NEW i \in 1..(nextId - 1), row[p] = {[id |-> i, stmts |-> batch[p]]}
        PROVE  \A r \in row[p] : r.id < nextId
    BY <1>0, <2>2 DEF Typed
  <2> QED BY <1>0, <2>1, <2>2 DEF Typed
<1>4. Typed'
  <2>1. history' \in SUBSET Rows /\ \A r \in history' : r.id < nextId'
    BY <1>0, <1>1, <1>3 DEF Typed
  <2> QED BY <1>0, <1>1, <1>2, <2>1, HoldingsFacts DEF Typed, Labels
<1>5. ReadsListed'
  BY DEF Inv, ReadsListed
<1>6. Phases'
  BY <1>0, <1>1 DEF Inv, Typed, Phases, AutoCommits, Open
<1>7. Exclusive'
  BY <1>0, <1>1, HoldingsFacts DEF Inv, Typed, Exclusive
<1> QED BY <1>4, <1>5, <1>6, <1>7 DEF Inv

\* A rollback gives the tables back and drops the row.
LEMMA GiveUpKeeps ==
    ASSUME Inv, NEW p \in Procs, GiveUp(p)
    PROVE  Inv'
<1>0. Typed
  BY DEF Inv
<1>1. /\ work' = [work EXCEPT ![p] = NoWork] /\ row' = [row EXCEPT ![p] = {}]
      /\ result' = [result EXCEPT ![p] = "failed"] /\ pc' = [pc EXCEPT ![p] = "failed"]
      /\ UNCHANGED <<dialect, base, db, history, nextId, ledger, call, target, seen, live, unread,
                     todo, batch>>
  BY DEF GiveUp, Goto
<1>2. Typed'
  BY <1>0, <1>1, HoldingsFacts DEF Typed, Labels, Outcomes
<1>3. ReadsListed'
  BY <1>1 DEF Inv, ReadsListed
<1>4. Phases'
  BY <1>0, <1>1 DEF Inv, Typed, Phases, AutoCommits, Open
<1>5. Exclusive'
  BY <1>0, <1>1, HoldingsFacts DEF Inv, Typed, Exclusive
<1> QED BY <1>2, <1>3, <1>4, <1>5 DEF Inv

\* Every step keeps the invariant.
LEMMA NextInv ==
    ASSUME Inv, [Next]_vars
    PROVE  Inv'
<1>1. CASE UNCHANGED vars
  BY <1>1 DEF vars, Inv, Typed, ReadsListed, Phases, AutoCommits, Exclusive
<1>2. ASSUME NEW p \in Procs, Step(p) \/ CommitUnanswered(p) \/ Fault(p)
      PROVE  Inv'
  <2>1. CASE Commit(p)
    BY <2>1, PublishKeeps DEF Commit, Outcomes
  <2>2. CASE CommitUnanswered(p)
    BY <2>2, PublishKeeps DEF CommitUnanswered, Outcomes
  <2>3. CASE Refuse(p) \/ Deadlock(p) \/ Fault(p)
    BY <2>3, GiveUpKeeps DEF Refuse, Deadlock, Fault
  <2> QED BY <1>2, <2>1, <2>2, <2>3, EnsureKeeps, LoadHistoryKeeps, ListTablesKeeps, ReadKeeps,
             CompareKeeps, ExecuteKeeps, RecordKeeps, RerunKeeps DEF Step
<1> QED BY <1>1, <1>2 DEF Next

\* The inductive invariant of types, phases and locks holds in every behaviour.
LEMMA Invariance == Spec => []Inv
BY InitInv, NextInv, PTL DEF Spec

\* TypeOK: a transaction is open only between a process's first statement and the end
\* of its call, however that ends, and every row has a number the sequence has given
\* (applyWithHistory, execTransaction).
THEOREM TypeCorrect == Spec => []TypeOK
<1>1. Inv => TypeOK
  <2> SUFFICES ASSUME Inv PROVE TypeOK
    OBVIOUS
  <2>1. \A r \in history : r.id \in 1..(nextId - 1)
    BY MaxRowsNat DEF Inv, Typed, Rows
  <2>2. \A p \in Procs : DOMAIN work[p] \subseteq Tables /\ \A t \in DOMAIN work[p] : work[p][t] \in Ledger!Contents
    BY HoldingsFacts DEF Inv, Typed
  <2> QED BY <2>1, <2>2 DEF Inv, Typed, Phases, TypeOK, Open
<1> QED BY <1>1, Invariance, PTL

--------------------------------------------------------------------------------
(* Every commit is a whole batch and its row                                  *)

\* The number of statements a process has run.
Executed(p) == Len(batch[p]) - Len(todo[p])

\* What is left to run is the end of the batch, and the batch is the plan.
Planned ==
    \A p \in Procs : pc[p] \in Open =>
      /\ batch[p] = Plan(live[p], target[p])
      /\ Len(todo[p]) <= Len(batch[p])
      /\ \A i \in 1..Len(todo[p]) : todo[p][i] = batch[p][Executed(p) + i]

\* A transaction sees the committed database as the statements it has run leave it,
\* also when others commit meanwhile; it holds the tables of those statements.
Applied ==
    ~AutoCommits => \A p \in Procs : pc[p] \in Open =>
      /\ \A t \in Tables : Content(p, t) = Ledger!States(db, batch[p])[Executed(p)][t]
      /\ \A i \in 1..Executed(p) : batch[p][i].on \in DOMAIN work[p]

\* No number is given to two rows, committed or not.
Numbers ==
    /\ OneRowPerId(history)
    /\ \A p \in Procs : \A mine \in row[p] :
         /\ \A r \in history : r.id # mine.id
         /\ \A q \in Procs \ {p} : \A r \in row[q] : r.id # mine.id

LedgerInv == Inv /\ Planned /\ Applied /\ Numbers

\* No committed row with a higher number than a row not yet committed is on a table
\* that the transaction of that row holds.
LaterElsewhere ==
    ~AutoCommits => \A p \in Procs : \A mine \in row[p] : \A r \in history :
      r.id > mine.id => \A i \in 1..Len(r.stmts) : r.stmts[i].on \notin DOMAIN work[p]

HistoryInv == LedgerInv /\ LaterElsewhere /\ (~AutoCommits => HistoryExplainsSchema)


\* The sequence lengths a process counts with.
LEMMA Counting ==
    ASSUME LedgerInv, NEW p \in Procs, pc[p] \in Open
    PROVE  /\ Len(batch[p]) \in Nat /\ Len(todo[p]) \in Nat /\ Len(todo[p]) <= Len(batch[p])
           /\ Executed(p) \in 0..Len(batch[p])
           /\ batch[p] \in Seq(Statements) /\ todo[p] \in Seq(Statements)
<1>1. batch[p] \in Seq(Statements) /\ todo[p] \in Seq(Statements) /\ Len(todo[p]) <= Len(batch[p])
  BY DEF LedgerInv, Planned, Inv, Typed
<1>2. Len(batch[p]) \in Nat /\ Len(todo[p]) \in Nat
  BY <1>1
<1> DEFINE b == Len(batch[p])
           k == Len(todo[p])
<1>3. b - k \in 0..b
  <2>1. b \in Nat /\ k \in Nat /\ k <= b
    BY <1>1, <1>2
  <2> HIDE DEF b, k
  <2> QED BY <2>1
<1> QED BY <1>1, <1>2, <1>3 DEF Executed

\* The first states.
LEMMA InitHistoryInv == Init => HistoryInv
<1> SUFFICES ASSUME Init PROVE HistoryInv
  OBVIOUS
<1>1. Inv
  BY InitInv
<1>2. Planned /\ Applied /\ Numbers /\ LaterElsewhere
  BY DEF Init, Planned, Applied, Numbers, LaterElsewhere, Open, OneRowPerId
<1>3. base \in Loose
  BY <1>1, SchemasLoose DEF Inv, Typed
<1>4. Replay(history) = db
  <2> DEFINE S == {n \in Nat : n <= MaxRows => ReplayStates({})[n] = base}
  <2>1. 0 \in S
    BY <1>3, ReplayStep
  <2>2. ASSUME NEW n \in Nat, n \in S PROVE n + 1 \in S
    <3>1. SUFFICES ASSUME n + 1 <= MaxRows PROVE ReplayStates({})[n + 1] = base
      OBVIOUS
    <3>2. n + 1 \in 1..MaxRows /\ (n + 1) - 1 = n /\ ReplayStates({})[n] = base
      BY <2>2, <3>1, MaxRowsNat
    <3> QED BY <1>3, <3>2, ReplayStep
  <2>3. \A n \in Nat : n \in S
    <3> HIDE DEF S
    <3> QED BY <2>1, <2>2, NatSetInduction
  <2> QED BY <2>3, MaxRowsNat DEF Replay, Init
<1> QED BY <1>1, <1>2, <1>4 DEF HistoryInv, LedgerInv, HistoryExplainsSchema

\* A step that ends outside a transaction of p and leaves the database, the history
\* and the other processes alone.
Aside(p) ==
    /\ UNCHANGED <<dialect, base, db, history, target, call>>
    /\ pc'[p] \notin Open /\ row'[p] = {}
    /\ \A q \in Procs \ {p} :
         /\ pc'[q] = pc[q] /\ todo'[q] = todo[q] /\ batch'[q] = batch[q]
         /\ live'[q] = live[q] /\ work'[q] = work[q] /\ row'[q] = row[q]

\* Such a step keeps what is said of the transactions and of the history.
LEMMA AsideKeeps ==
    ASSUME HistoryInv, NEW p \in Procs, Aside(p)
    PROVE  Planned' /\ Applied' /\ Numbers' /\ LaterElsewhere' /\ HistoryExplainsSchema' = HistoryExplainsSchema
<1>1. Planned'
  <2> SUFFICES ASSUME NEW q \in Procs, pc'[q] \in Open
               PROVE  /\ batch'[q] = Plan(live[q], target[q])'
                      /\ Len(todo'[q]) <= Len(batch'[q])
                      /\ \A i \in 1..Len(todo'[q]) : todo'[q][i] = batch'[q][Executed(q)' + i]
    BY DEF Planned
  <2>1. /\ pc[q] \in Open /\ batch'[q] = batch[q] /\ todo'[q] = todo[q] /\ live'[q] = live[q]
        /\ target' = target /\ dialect' = dialect
    BY DEF Aside
  <2>2. Plan(live[q], target[q])' = Plan(live[q], target[q]) /\ Executed(q)' = Executed(q)
    BY <2>1 DEF Plan, LiveNames, Nothing, Executed
  <2> QED BY <2>1, <2>2 DEF HistoryInv, LedgerInv, Planned
<1>2. Applied'
  <2> SUFFICES ASSUME ~AutoCommits, NEW q \in Procs, pc'[q] \in Open
               PROVE  /\ \A t \in Tables : Content(q, t)' = Ledger!States(db', batch'[q])[Executed(q)'][t]
                      /\ \A i \in 1..Executed(q)' : batch'[q][i].on \in DOMAIN work'[q]
    BY DEF Applied, Aside, AutoCommits
  <2>1. q # p /\ pc[q] \in Open
    BY DEF Aside
  <2>2. /\ \A t \in Tables : Content(q, t)' = Content(q, t)
        /\ Executed(q)' = Executed(q) /\ batch'[q] = batch[q] /\ work'[q] = work[q] /\ db' = db
    BY <2>1 DEF Aside, Content, Executed
  <2> QED BY <2>1, <2>2 DEF HistoryInv, LedgerInv, Applied
<1>3. Numbers' /\ LaterElsewhere'
  BY DEF HistoryInv, LedgerInv, Numbers, LaterElsewhere, Aside, AutoCommits, OneRowPerId
<1>4. HistoryExplainsSchema' = HistoryExplainsSchema
  BY DEF HistoryExplainsSchema, NoPush, Replay, ReplayStates, Numbered, Aside
<1> QED BY <1>1, <1>2, <1>3, <1>4

\* A plan that is not carried out yet.
LEMMA CompareLedger ==
    ASSUME HistoryInv, NEW p \in Procs, Compare(p)
    PROVE  Planned' /\ Applied' /\ Numbers' /\ LaterElsewhere' /\ HistoryExplainsSchema' = HistoryExplainsSchema
<1> DEFINE stmts == Plan(live[p], target[p])
<1>0. Typed /\ pc[p] \notin Open
  BY DEF HistoryInv, LedgerInv, Inv, Compare, Open
<1>1. /\ UNCHANGED <<dialect, base, db, history, target, call, live, work, row>>
      /\ todo' = [todo EXCEPT ![p] = stmts] /\ batch' = [batch EXCEPT ![p] = stmts]
      /\ \A q \in Procs \ {p} : pc'[q] = pc[q]
  BY <1>0 DEF Compare, Goto, Typed
<1>2. \A q \in Procs \ {p} : todo'[q] = todo[q] /\ batch'[q] = batch[q]
  BY <1>0, <1>1 DEF Typed
<1>3. stmts \in Seq(Statements) /\ todo'[p] = stmts /\ batch'[p] = stmts
  BY <1>0, <1>1, PlanType DEF Typed
<1>4. stmts = Plan(live[p], target[p])'
  BY <1>1 DEF Plan, LiveNames, Nothing
<1> HIDE DEF stmts
<1>5. Executed(p)' = 0 /\ Len(stmts) \in Nat
  BY <1>3 DEF Executed
<1>6. Planned'
  <2> SUFFICES ASSUME NEW q \in Procs, pc'[q] \in Open
               PROVE  /\ batch'[q] = Plan(live[q], target[q])'
                      /\ Len(todo'[q]) <= Len(batch'[q])
                      /\ \A i \in 1..Len(todo'[q]) : todo'[q][i] = batch'[q][Executed(q)' + i]
    BY DEF Planned
  <2>1. CASE q = p
    <3>1. Len(stmts) <= Len(stmts) /\ \A i \in 1..Len(stmts) : stmts[i] = stmts[0 + i]
      BY <1>5
    <3> QED BY <1>3, <1>4, <1>5, <2>1, <3>1
  <2>2. CASE q # p
    <3>1. pc[q] \in Open /\ batch'[q] = batch[q] /\ todo'[q] = todo[q]
      BY <1>1, <1>2, <2>2
    <3>2. Plan(live[q], target[q])' = Plan(live[q], target[q]) /\ Executed(q)' = Executed(q)
      BY <1>1, <3>1 DEF Plan, LiveNames, Nothing, Executed
    <3> QED BY <3>1, <3>2 DEF HistoryInv, LedgerInv, Planned
  <2> QED BY <2>1, <2>2
<1>7. Applied'
  <2> SUFFICES ASSUME ~AutoCommits, NEW q \in Procs, pc'[q] \in Open
               PROVE  /\ \A t \in Tables : Content(q, t)' = Ledger!States(db', batch'[q])[Executed(q)'][t]
                      /\ \A i \in 1..Executed(q)' : batch'[q][i].on \in DOMAIN work'[q]
    BY <1>1 DEF Applied, AutoCommits
  <2>1. CASE q = p
    <3>1. work'[p] = NoWork
      BY <1>0, <1>1 DEF HistoryInv, LedgerInv, Inv, Phases
    <3>2. \A t \in Tables : Content(p, t)' = db[t]
      BY <1>1, <3>1, HoldingsFacts DEF Content
    <3>3. db \in Loose
      BY <1>0, SchemasLoose DEF Typed
    <3>4. Ledger!States(db, stmts)[0] = db
      BY <1>3, <3>3, StatesStep
    <3> QED BY <1>1, <1>3, <1>5, <2>1, <3>2, <3>4
  <2>2. CASE q # p
    <3>1. /\ \A t \in Tables : Content(q, t)' = Content(q, t)
          /\ Executed(q)' = Executed(q) /\ batch'[q] = batch[q] /\ work'[q] = work[q] /\ db' = db
          /\ pc[q] \in Open
      BY <1>1, <1>2, <2>2 DEF Content, Executed
    <3> QED BY <3>1 DEF HistoryInv, LedgerInv, Applied
  <2> QED BY <2>1, <2>2
<1>8. Numbers' /\ LaterElsewhere'
  BY <1>1 DEF HistoryInv, LedgerInv, Numbers, LaterElsewhere, AutoCommits, OneRowPerId
<1>9. HistoryExplainsSchema' = HistoryExplainsSchema
  BY <1>1 DEF HistoryExplainsSchema, NoPush, Replay, ReplayStates, Numbered
<1> QED BY <1>6, <1>7, <1>8, <1>9


\* One more statement of the batch.
LEMMA ExecuteLedger ==
    ASSUME HistoryInv, NEW p \in Procs, Execute(p)
    PROVE  /\ Planned' /\ Applied' /\ Numbers' /\ LaterElsewhere'
           /\ ~AutoCommits => HistoryExplainsSchema' = HistoryExplainsSchema
<1> DEFINE s == Head(todo[p])
           D == DOMAIN work[p] \cup Scope(s.on)
           n == Executed(p)
           B == batch[p]
<1>0. Inv /\ Typed
  BY DEF HistoryInv, LedgerInv, Inv
<1>1. /\ pc[p] = "apply" /\ pc[p] \in Open /\ todo[p] # <<>> /\ Blockers(p) = {}
      /\ todo' = [todo EXCEPT ![p] = Tail(todo[p])]
      /\ ~AutoCommits =>
           /\ db' = db /\ DOMAIN work'[p] = D
           /\ \A t \in D : work'[p][t] = IF t = s.on THEN Ledger!After(s, Content(p, s.on))
                                         ELSE Content(p, t)
           /\ work' = [work EXCEPT ![p] = work'[p]]
      /\ UNCHANGED <<dialect, base, history, nextId, ledger, call, target, pc, seen, live,
                     unread, batch, row, result, faults>>
  BY <1>0, ExecuteStep DEF Open
<1>2. /\ s \in Statements /\ s.on \in Tables /\ s.on \in Scope(s.on)
      /\ \A q \in Procs \ {p} : Scope(s.on) \cap DOMAIN work[q] = {}
  BY <1>0, <1>1, Unblocked
<1>3. /\ Len(B) \in Nat /\ Len(todo[p]) \in Nat /\ Len(todo[p]) <= Len(B) /\ n \in 0..Len(B)
      /\ B \in Seq(Statements) /\ todo[p] \in Seq(Statements) /\ n = Len(B) - Len(todo[p])
  BY <1>1, Counting DEF HistoryInv, Executed
<1>4. todo'[p] = Tail(todo[p]) /\ \A q \in Procs \ {p} : todo'[q] = todo[q]
  BY <1>0, <1>1 DEF Typed
<1>5. /\ Len(todo'[p]) = Len(todo[p]) - 1 /\ Len(todo[p]) # 0
      /\ \A i \in 1..Len(todo'[p]) : todo'[p][i] = todo[p][i + 1] /\ i + 1 \in 1..Len(todo[p])
      /\ s = todo[p][1] /\ 1 \in 1..Len(todo[p])
  <2>1. todo[p] \in Seq(Statements) /\ todo[p] # <<>> /\ todo'[p] = Tail(todo[p])
    BY <1>1, <1>3, <1>4
  <2> QED BY <2>1, TailFacts
<1>6. Executed(p)' = n + 1 /\ n + 1 \in 1..Len(B) /\ (n + 1) - 1 = n
  <2>1. Executed(p)' = Len(B) - Len(todo'[p])
    BY <1>1 DEF Executed
  <2> DEFINE b == Len(B)
             k == Len(todo[p])
  <2>2. b \in Nat /\ k \in Nat /\ k # 0 /\ n = b - k /\ Executed(p)' = b - (k - 1) /\ k <= b
    BY <1>3, <1>5, <2>1
  <2> HIDE DEF b, k, n
  <2>3. Executed(p)' = n + 1 /\ n + 1 \in 1..b /\ (n + 1) - 1 = n
    BY <2>2
  <2> QED BY <2>3 DEF b
<1>7. \A i \in 1..Len(todo[p]) : todo[p][i] = B[n + i]
  BY <1>1 DEF HistoryInv, LedgerInv, Planned
<1>8. B[n + 1] = s
  BY <1>5, <1>7
<1> HIDE DEF s, D, n, B
<1>9. Planned'
  <2> SUFFICES ASSUME NEW q \in Procs, pc'[q] \in Open
               PROVE  /\ batch'[q] = Plan(live[q], target[q])'
                      /\ Len(todo'[q]) <= Len(batch'[q])
                      /\ \A i \in 1..Len(todo'[q]) : todo'[q][i] = batch'[q][Executed(q)' + i]
    BY DEF Planned
  <2>1. /\ Plan(live[q], target[q])' = Plan(live[q], target[q]) /\ batch'[q] = batch[q]
        /\ pc[q] \in Open
    BY <1>1 DEF Plan, LiveNames, Nothing
  <2>2. CASE q = p
    <3>1. Len(todo'[p]) <= Len(B)
      BY <1>3, <1>5
    <3>2. ASSUME NEW i \in 1..Len(todo'[p]) PROVE todo'[p][i] = B[(n + 1) + i]
      <4>1. todo'[p][i] = B[n + (i + 1)]
        BY <1>5, <1>7
      <4>2. n + (i + 1) = (n + 1) + i
        BY <1>3, <1>5
      <4> QED BY <4>1, <4>2
    <3> QED BY <1>6, <2>1, <2>2, <3>1, <3>2 DEF B, HistoryInv, LedgerInv, Planned
  <2>3. CASE q # p
    <3>1. Executed(q)' = Executed(q) /\ todo'[q] = todo[q]
      BY <1>1, <1>4, <2>3 DEF Executed
    <3> QED BY <2>1, <3>1 DEF HistoryInv, LedgerInv, Planned
  <2> QED BY <2>2, <2>3
<1>10. Applied'
  <2> SUFFICES ASSUME ~AutoCommits, NEW q \in Procs, pc'[q] \in Open
               PROVE  /\ \A t \in Tables : Content(q, t)' = Ledger!States(db', batch'[q])[Executed(q)'][t]
                      /\ \A i \in 1..Executed(q)' : batch'[q][i].on \in DOMAIN work'[q]
    BY <1>1 DEF Applied, AutoCommits
  <2>0. db' = db /\ batch' = batch /\ pc[q] \in Open /\ db \in Loose
    BY <1>0, <1>1, SchemasLoose DEF Typed
  <2>1. CASE q = p
    <3>1. /\ \A t \in Tables : Content(p, t) = Ledger!States(db, B)[n][t]
          /\ \A i \in 1..n : B[i].on \in DOMAIN work[p]
      BY <2>0, <2>1 DEF HistoryInv, LedgerInv, Applied, B, n
    <3>2. ASSUME NEW t \in Tables
          PROVE  Content(p, t)' = IF s.on = t THEN Ledger!After(s, Content(p, t)) ELSE Content(p, t)
      <4>1. CASE t \in D
        BY <1>1, <4>1 DEF Content
      <4>2. CASE t \notin D
        BY <1>1, <1>2, <2>0, <4>2 DEF Content, D
      <4> QED BY <4>1, <4>2
    <3>3. ASSUME NEW t \in Tables
          PROVE  Content(p, t)' = Ledger!States(db, B)[n + 1][t]
      <4> DEFINE m == n + 1
      <4>1. m \in 1..Len(B) /\ m - 1 = n /\ B[m] = s
        BY <1>6, <1>8
      <4> HIDE DEF m
      <4>2. Ledger!States(db, B)[m][t] =
              IF B[m].on = t THEN Ledger!After(B[m], Ledger!States(db, B)[m - 1][t])
              ELSE Ledger!States(db, B)[m - 1][t]
        BY <1>3, <2>0, <4>1, StatesStep
      <4>3. Content(p, t)' = Ledger!States(db, B)[m][t]
        BY <3>1, <3>2, <4>1, <4>2
      <4> QED BY <4>3 DEF m
    <3>4. ASSUME NEW i \in 1..(n + 1) PROVE B[i].on \in DOMAIN work'[p]
      <4>1. i \in 1..n \/ i = n + 1
        <5>1. n \in Nat
          BY <1>3
        <5> HIDE DEF n
        <5> QED BY <5>1, EarlierOrLast
      <4> QED BY <1>1, <1>2, <1>8, <3>1, <4>1 DEF D
    <3> QED BY <1>6, <2>0, <2>1, <3>3, <3>4 DEF B
  <2>2. CASE q # p
    <3>1. work'[q] = work[q] /\ todo'[q] = todo[q]
      BY <1>0, <1>1, <1>4, <2>2 DEF Typed
    <3>2. Executed(q)' = Executed(q) /\ \A t \in Tables : Content(q, t)' = Content(q, t)
      BY <2>0, <3>1 DEF Executed, Content
    <3> QED BY <2>0, <3>1, <3>2 DEF HistoryInv, LedgerInv, Applied
  <2> QED BY <2>1, <2>2
<1>11. Numbers'
  BY <1>1 DEF HistoryInv, LedgerInv, Numbers, OneRowPerId
<1>12. LaterElsewhere'
  <2>1. row[p] = {}
    BY <1>0, <1>1 DEF Inv, Phases
  <2>2. ~AutoCommits => \A q \in Procs \ {p} : work'[q] = work[q]
    BY <1>0, <1>1 DEF Typed
  <2> QED BY <1>1, <2>1, <2>2 DEF HistoryInv, LaterElsewhere, AutoCommits
<1>13. ~AutoCommits => HistoryExplainsSchema' = HistoryExplainsSchema
  BY <1>1 DEF HistoryExplainsSchema, NoPush, Replay, ReplayStates, Numbered
<1> QED BY <1>9, <1>10, <1>11, <1>12, <1>13

\* The row is numbered after all others.
LEMMA RecordLedger ==
    ASSUME HistoryInv, NEW p \in Procs, Record(p)
    PROVE  /\ Planned' /\ Applied' /\ Numbers' /\ LaterElsewhere'
           /\ ~AutoCommits => HistoryExplainsSchema' = HistoryExplainsSchema
<1> DEFINE mine == [id |-> nextId, stmts |-> batch[p]]
<1>0. Inv /\ Typed
  BY DEF HistoryInv, LedgerInv, Inv
<1>1. /\ pc[p] = "apply" /\ pc[p] \in Open
      /\ AutoCommits => history' = history \cup {mine} /\ row' = row
      /\ ~AutoCommits => row' = [row EXCEPT ![p] = {mine}] /\ history' = history
      /\ \A q \in Procs \ {p} : pc'[q] = pc[q]
      /\ UNCHANGED <<dialect, base, db, ledger, call, target, seen, live, unread, todo, batch, work,
                     result, faults>>
  BY <1>0 DEF Record, Goto, Open, Typed
<1>2. Planned'
  <2> SUFFICES ASSUME NEW q \in Procs, pc'[q] \in Open
               PROVE  /\ batch'[q] = Plan(live[q], target[q])'
                      /\ Len(todo'[q]) <= Len(batch'[q])
                      /\ \A i \in 1..Len(todo'[q]) : todo'[q][i] = batch'[q][Executed(q)' + i]
    BY DEF Planned
  <2>1. /\ Plan(live[q], target[q])' = Plan(live[q], target[q]) /\ Executed(q)' = Executed(q)
        /\ pc[q] \in Open
    BY <1>1 DEF Plan, LiveNames, Nothing, Executed
  <2> QED BY <1>1, <2>1 DEF HistoryInv, LedgerInv, Planned
<1>3. Applied'
  <2> SUFFICES ASSUME ~AutoCommits, NEW q \in Procs, pc'[q] \in Open
               PROVE  /\ \A t \in Tables : Content(q, t)' = Ledger!States(db', batch'[q])[Executed(q)'][t]
                      /\ \A i \in 1..Executed(q)' : batch'[q][i].on \in DOMAIN work'[q]
    BY <1>1 DEF Applied, AutoCommits
  <2>1. /\ pc[q] \in Open /\ Executed(q)' = Executed(q) /\ \A t \in Tables : Content(q, t)' = Content(q, t)
    BY <1>1 DEF Executed, Content
  <2> QED BY <1>1, <2>1 DEF HistoryInv, LedgerInv, Applied
<1>4. nextId \in Nat /\ \A r \in history : r.id \in Nat /\ r.id < nextId
  BY <1>0, MaxRowsNat DEF Typed, Rows
<1>5. \A q \in Procs : \A r \in row[q] : r.id \in Nat /\ r.id < nextId
  <2> SUFFICES ASSUME NEW q \in Procs, NEW r \in row[q] PROVE r.id \in Nat /\ r.id < nextId
    OBVIOUS
  <2>1. ~AutoCommits /\ pc[q] = "commit"
    BY <1>0 DEF Inv, Phases, Open
  <2>2. PICK i \in 1..(nextId - 1) : row[q] = {[id |-> i, stmts |-> batch[q]]}
    BY <1>0, <2>1 DEF Inv, Phases
  <2> QED BY <1>4, <2>2
<1>6. /\ mine.id = nextId
      /\ \A r \in history : r.id # mine.id
      /\ \A q \in Procs : \A r \in row[q] : r.id # mine.id
  BY <1>4, <1>5
<1> HIDE DEF mine
<1>11. ~AutoCommits => history' = history
  BY <1>1
<1>7. Numbers'
  <2>1. CASE AutoCommits
    <3>1. \A q \in Procs : row[q] = {}
      BY <1>0, <2>1 DEF Inv, Phases
    <3> QED BY <1>1, <1>6, <2>1, <3>1 DEF HistoryInv, LedgerInv, Numbers, OneRowPerId
  <2>2. CASE ~AutoCommits
    <3>1. row'[p] = {mine} /\ \A q \in Procs \ {p} : row'[q] = row[q]
      BY <1>0, <1>1, <2>2 DEF Typed
    <3>2. ASSUME NEW q \in Procs, NEW m \in row'[q]
          PROVE  /\ \A r \in history' : r.id # m.id
                 /\ \A o \in Procs \ {q} : \A r \in row'[o] : r.id # m.id
      <4>1. CASE q = p
        <5>1. m = mine /\ history' = history
          BY <1>1, <2>2, <3>1, <3>2, <4>1
        <5>2. \A o \in Procs \ {q} : row'[o] = row[o]
          BY <3>1, <4>1
        <5> QED BY <1>6, <5>1, <5>2
      <4>2. CASE q # p
        <5>1. /\ m \in row[q] /\ \A r \in history : r.id # m.id
              /\ \A o \in Procs \ {q} : \A r \in row[o] : r.id # m.id
          BY <3>1, <3>2, <4>2 DEF HistoryInv, LedgerInv, Numbers
        <5>2. history' = history /\ m.id # mine.id
          BY <1>6, <1>11, <2>2, <5>1
        <5>3. ASSUME NEW o \in Procs \ {q}, NEW r \in row'[o] PROVE r.id # m.id
          <6>1. CASE o = p
            BY <3>1, <5>2, <5>3, <6>1
          <6>2. CASE o # p
            BY <3>1, <5>1, <5>3, <6>2
          <6> QED BY <6>1, <6>2
        <5> QED BY <5>1, <5>2, <5>3
      <4> QED BY <4>1, <4>2
    <3> QED BY <1>1, <2>2, <3>2 DEF HistoryInv, LedgerInv, Numbers
  <2> QED BY <2>1, <2>2
<1>8. LaterElsewhere'
  <2> SUFFICES ASSUME ~AutoCommits, NEW q \in Procs, NEW m \in row'[q], NEW r \in history', r.id > m.id
               PROVE  \A i \in 1..Len(r.stmts) : r.stmts[i].on \notin DOMAIN work'[q]
    BY <1>1 DEF LaterElsewhere, AutoCommits
  <2>1. CASE q = p
    <3>1. m = mine
      BY <1>0, <1>1, <2>1 DEF Typed
    <3> QED BY <1>1, <1>4, <1>6, <3>1
  <2>2. CASE q # p
    BY <1>0, <1>1, <2>2 DEF Typed, HistoryInv, LaterElsewhere
  <2> QED BY <2>1, <2>2
<1>9. ~AutoCommits => HistoryExplainsSchema' = HistoryExplainsSchema
  BY <1>1 DEF HistoryExplainsSchema, NoPush, Replay, ReplayStates, Numbered
<1> QED BY <1>2, <1>3, <1>7, <1>8, <1>9


\* A commit with nothing left to run: the database becomes what the batch makes of the
\* database as it is at that moment.
LEMMA PublishedBatch ==
    ASSUME HistoryInv, ~AutoCommits, NEW p \in Procs, Finished(p)
    PROVE  [t \in Tables |-> Content(p, t)] = Ledger!RunAll(db, batch[p])
<1>0. pc[p] \in Open /\ todo[p] = <<>>
  BY DEF Finished, Open, HistoryInv, LedgerInv, Inv, Phases
<1>1. /\ Executed(p) = Len(batch[p]) /\ Len(batch[p]) \in 0..Len(batch[p])
      /\ batch[p] \in Seq(Statements)
  <2>1. Len(todo[p]) = 0 /\ Len(batch[p]) \in Nat /\ batch[p] \in Seq(Statements)
    BY <1>0, Counting DEF HistoryInv
  <2> QED BY <2>1 DEF Executed
<1>2. \A t \in Tables : Content(p, t) = Ledger!States(db, batch[p])[Executed(p)][t]
  BY <1>0 DEF HistoryInv, LedgerInv, Applied
<1>3. db \in Loose
  BY SchemasLoose DEF HistoryInv, LedgerInv, Inv, Typed
<1>4. Ledger!RunAll(db, batch[p]) \in Loose
  BY <1>1, <1>3, RunAllFacts
<1>5. \A t \in Tables : Content(p, t) = Ledger!RunAll(db, batch[p])[t]
  BY <1>1, <1>2 DEF Ledger!RunAll
<1> QED BY <1>4, <1>5 DEF Loose

\* A commit changes no table another transaction holds.
LEMMA PublishElsewhere ==
    ASSUME Inv, NEW p \in Procs, NEW q \in Procs \ {p}, NEW t \in DOMAIN work[q]
    PROVE  t \in Tables /\ Content(p, t) = db[t]
BY HoldingsFacts DEF Inv, Typed, Exclusive, Content

\* The row a commit publishes, if any: that of its batch, on tables it holds.
LEMMA PublishedRow ==
    ASSUME HistoryInv, ~AutoCommits, NEW p \in Procs, Finished(p)
    PROVE  \/ row[p] = {} /\ call[p] = "push"
           \/ \E mine \in Rows :
                /\ row[p] = {mine} /\ mine.stmts = batch[p] /\ call[p] = "migrate"
                /\ \A r \in history : r.id # mine.id
                /\ \A i \in 1..Len(mine.stmts) : mine.stmts[i].on \in DOMAIN work[p]
<1>0. Inv /\ Typed
  BY DEF HistoryInv, LedgerInv, Inv
<1>1. CASE pc[p] = "commit"
  <2>1. PICK i \in 1..(nextId - 1) : row[p] = {[id |-> i, stmts |-> batch[p]]}
    BY <1>0, <1>1 DEF Inv, Phases
  <2> DEFINE mine == [id |-> i, stmts |-> batch[p]]
  <2>2. mine \in Rows /\ row[p] = {mine} /\ mine.stmts = batch[p]
    BY <1>0, <2>1 DEF Typed
  <2> HIDE DEF mine
  <2>3. call[p] = "migrate" /\ todo[p] = <<>> /\ pc[p] \in Open
    BY <1>0, <1>1 DEF Inv, Phases, Open
  <2>4. \A r \in history : r.id # mine.id
    BY <2>2 DEF HistoryInv, LedgerInv, Numbers
  <2>5. Executed(p) = Len(batch[p])
    BY <2>3, Counting DEF HistoryInv, Executed
  <2>6. \A k \in 1..Len(batch[p]) : batch[p][k].on \in DOMAIN work[p]
    BY <2>3, <2>5 DEF HistoryInv, LedgerInv, Applied
  <2> QED BY <2>2, <2>3, <2>4, <2>6
<1>2. CASE pc[p] = "apply" /\ call[p] = "push"
  BY <1>0, <1>2 DEF Inv, Phases
<1> QED BY <1>1, <1>2 DEF Finished

\* The others go on as if nothing had happened, and the replay gives the new schema.
LEMMA PublishLedger ==
    ASSUME HistoryInv, NEW p \in Procs, NEW label \in {"done", "failed"}, NEW answer,
           Finished(p), Publish(p, label, answer),
           UNCHANGED <<dialect, base, nextId, ledger, call, target, seen, live, unread, todo, batch>>
    PROVE  /\ Planned' /\ Applied' /\ Numbers' /\ LaterElsewhere'
           /\ ~AutoCommits => HistoryExplainsSchema'
<1>0. Inv /\ Typed
  BY DEF HistoryInv, LedgerInv, Inv
<1>1. /\ db' = [t \in Tables |-> Content(p, t)] /\ history' = history \cup row[p]
      /\ pc'[p] \notin Open /\ work'[p] = NoWork /\ row'[p] = {}
      /\ \A q \in Procs \ {p} : pc'[q] = pc[q] /\ work'[q] = work[q] /\ row'[q] = row[q]
  BY <1>0 DEF Publish, Goto, Typed, Open
<1>2. Planned'
  <2> SUFFICES ASSUME NEW q \in Procs, pc'[q] \in Open
               PROVE  /\ batch'[q] = Plan(live[q], target[q])'
                      /\ Len(todo'[q]) <= Len(batch'[q])
                      /\ \A i \in 1..Len(todo'[q]) : todo'[q][i] = batch'[q][Executed(q)' + i]
    BY DEF Planned
  <2>1. /\ Plan(live[q], target[q])' = Plan(live[q], target[q]) /\ Executed(q)' = Executed(q)
        /\ pc[q] \in Open
    BY <1>1 DEF Plan, LiveNames, Nothing, Executed
  <2> QED BY <2>1 DEF HistoryInv, LedgerInv, Planned
<1>3. Applied'
  <2> SUFFICES ASSUME ~AutoCommits, NEW q \in Procs, pc'[q] \in Open
               PROVE  /\ \A t \in Tables : Content(q, t)' = Ledger!States(db', batch'[q])[Executed(q)'][t]
                      /\ \A i \in 1..Executed(q)' : batch'[q][i].on \in DOMAIN work'[q]
    BY DEF Applied, AutoCommits
  <2> DEFINE n == Executed(q)
             B == batch[q]
  <2>1. q \in Procs \ {p} /\ pc[q] \in Open /\ work'[q] = work[q] /\ Executed(q)' = n /\ batch'[q] = B
    BY <1>1 DEF Executed
  <2>2. /\ \A t \in Tables : Content(q, t) = Ledger!States(db, B)[n][t]
        /\ \A i \in 1..n : B[i].on \in DOMAIN work[q]
    BY <2>1 DEF HistoryInv, LedgerInv, Applied
  <2>3. n \in 0..Len(B) /\ B \in Seq(Statements)
    BY <2>1, Counting DEF HistoryInv
  <2>4. db \in Loose /\ db' \in Loose
    BY <1>0, <1>1, ContentType, SchemasLoose DEF Typed, Loose, Ledger!Contents
  <2> HIDE DEF n, B
  <2>5. ASSUME NEW t \in Tables PROVE Content(q, t)' = Ledger!States(db', B)[n][t]
    <3>1. CASE t \in DOMAIN work[q]
      <4>1. db'[t] = db[t]
        BY <1>0, <1>1, <2>1, <3>1, PublishElsewhere
      <4>2. Ledger!States(db', B)[n][t] = Ledger!States(db, B)[n][t]
        BY <2>3, <2>4, <4>1, StatesLocal
      <4>3. Content(q, t)' = Content(q, t)
        BY <2>1, <3>1 DEF Content
      <4> QED BY <2>2, <4>2, <4>3
    <3>2. CASE t \notin DOMAIN work[q]
      <4>1. \A i \in 1..n : B[i].on # t
        BY <2>2, <3>2
      <4>2. Ledger!States(db', B)[n][t] = db'[t]
        BY <2>3, <2>4, <4>1, StatesUntouched
      <4>3. Content(q, t)' = db'[t]
        BY <2>1, <3>2 DEF Content
      <4> QED BY <4>2, <4>3
    <3> QED BY <3>1, <3>2
  <2> QED BY <2>1, <2>2, <2>5
<1>4. Numbers'
  <2>1. \A q \in Procs : \A a, b \in row[q] : a = b
    <3> SUFFICES ASSUME NEW q \in Procs PROVE \A a, b \in row[q] : a = b
      OBVIOUS
    <3>1. row[q] = {} \/ \E i \in 1..(nextId - 1) : row[q] = {[id |-> i, stmts |-> batch[q]]}
      BY <1>0 DEF Inv, Phases, Open
    <3> QED BY <3>1
  <2>2. OneRowPerId(history')
    <3> SUFFICES ASSUME NEW a \in history \cup row[p], NEW b \in history \cup row[p], a.id = b.id
                 PROVE  a = b
      BY <1>1 DEF OneRowPerId
    <3>1. CASE a \in history /\ b \in history
      BY <3>1 DEF HistoryInv, LedgerInv, Numbers, OneRowPerId
    <3>2. CASE a \in row[p] /\ b \in row[p]
      BY <2>1, <3>2
    <3>3. \A m \in row[p], r \in history : r.id # m.id
      BY DEF HistoryInv, LedgerInv, Numbers
    <3> QED BY <3>1, <3>2, <3>3
  <2>3. ASSUME NEW q \in Procs, NEW m \in row'[q]
        PROVE  /\ \A r \in history' : r.id # m.id
               /\ \A o \in Procs \ {q} : \A r \in row'[o] : r.id # m.id
    <3>1. q # p /\ m \in row[q]
      BY <1>1, <2>3
    <3>2. /\ \A r \in history : r.id # m.id
          /\ \A o \in Procs \ {q} : \A r \in row[o] : r.id # m.id
      BY <3>1 DEF HistoryInv, LedgerInv, Numbers
    <3> QED BY <1>1, <3>1, <3>2
  <2> QED BY <2>2, <2>3 DEF Numbers
<1>5. LaterElsewhere'
  <2> SUFFICES ASSUME ~AutoCommits, NEW q \in Procs, NEW m \in row'[q], NEW r \in history', r.id > m.id
               PROVE  \A i \in 1..Len(r.stmts) : r.stmts[i].on \notin DOMAIN work'[q]
    BY DEF LaterElsewhere, AutoCommits
  <2>1. q # p /\ m \in row[q] /\ work'[q] = work[q]
    BY <1>1
  <2>2. CASE r \in history
    BY <2>1, <2>2 DEF HistoryInv, LaterElsewhere
  <2>3. CASE r \in row[p]
    <3>1. \A i \in 1..Len(r.stmts) : r.stmts[i].on \in DOMAIN work[p]
      BY <2>3, PublishedRow
    <3>2. DOMAIN work[p] \cap DOMAIN work[q] = {}
      BY <1>0, <2>1 DEF Inv, Exclusive
    <3> QED BY <2>1, <3>1, <3>2
  <2> QED BY <1>1, <2>2, <2>3
<1>6. ASSUME ~AutoCommits, NoPush PROVE Replay(history)' = db'
  <2>1. call[p] # "push"
    BY <1>6 DEF NoPush
  <2>2. PICK mine \in Rows :
          /\ row[p] = {mine} /\ mine.stmts = batch[p]
          /\ \A r \in history : r.id # mine.id
          /\ \A i \in 1..Len(mine.stmts) : mine.stmts[i].on \in DOMAIN work[p]
    BY <1>6, <2>1, PublishedRow
  <2>3. \A r \in history : r.id > mine.id => \A i \in 1..Len(r.stmts) : r.stmts[i].on \notin DOMAIN work[p]
    BY <1>6, <2>2 DEF HistoryInv, LaterElsewhere
  <2>4. base \in Loose /\ history \in SUBSET Rows /\ DOMAIN work[p] \in SUBSET Tables /\ OneRowPerId(history)
    BY <1>0, SchemasLoose, HoldingsFacts DEF Typed, HistoryInv, LedgerInv, Numbers
  <2>5. Replay(history \cup {mine}) = Ledger!RunAll(Replay(history), mine.stmts)
    BY <2>2, <2>3, <2>4, ReplayInsert
  <2>6. Replay(history) = db
    BY <1>6 DEF HistoryInv, HistoryExplainsSchema
  <2>7. db' = Ledger!RunAll(db, batch[p])
    BY <1>1, <1>6, PublishedBatch
  <2>8. Replay(history)' = Replay(history \cup {mine})
    BY <1>1, <2>2 DEF Replay, ReplayStates, Numbered
  <2> QED BY <2>2, <2>5, <2>6, <2>7, <2>8
<1>7. ~AutoCommits => HistoryExplainsSchema'
  BY <1>6 DEF HistoryExplainsSchema, NoPush
<1> QED BY <1>2, <1>3, <1>4, <1>5, <1>7


\* A step that is neither a statement, a row, a plan nor a commit.
LEMMA OthersAside ==
    ASSUME Inv, NEW p \in Procs,
           \/ Ensure(p) \/ LoadHistory(p) \/ ListTables(p) \/ Read(p) \/ Rerun(p)
           \/ Refuse(p) \/ Deadlock(p) \/ Fault(p)
    PROVE  Aside(p)
<1>0. Typed
  BY DEF Inv
<1>1. ASSUME pc[p] \notin Open
      PROVE  row[p] = {}
  BY <1>1 DEF Inv, Phases
<1>2. CASE Ensure(p)
  BY <1>0, <1>1, <1>2 DEF Ensure, Goto, Typed, Aside, Open
<1>3. CASE LoadHistory(p)
  BY <1>0, <1>1, <1>3 DEF LoadHistory, Goto, Typed, Aside, Open
<1>4. CASE ListTables(p)
  BY <1>0, <1>1, <1>4 DEF ListTables, Goto, Typed, Aside, Open
<1>5. CASE Read(p)
  BY <1>0, <1>1, <1>5 DEF Read, Typed, Aside, Open
<1>6. CASE Rerun(p)
  BY <1>0, <1>1, <1>6 DEF Rerun, Goto, Typed, Aside, Open
<1>7. CASE GiveUp(p)
  BY <1>0, <1>7 DEF GiveUp, Goto, Typed, Aside, Open
<1> QED BY <1>2, <1>3, <1>4, <1>5, <1>6, <1>7 DEF Refuse, Deadlock, Fault

\* Every step keeps what ties the transactions, the database and the history together.
LEMMA NextHistoryInv ==
    ASSUME HistoryInv, [Next]_vars
    PROVE  HistoryInv'
<1>0. Inv /\ Inv'
  BY NextInv DEF HistoryInv, LedgerInv
<1>1. CASE UNCHANGED vars
  <2>1. Planned'
    <3>1. ASSUME NEW q \in Procs
          PROVE  Plan(live[q], target[q])' = Plan(live[q], target[q]) /\ Executed(q)' = Executed(q)
      BY <1>1 DEF vars, Plan, LiveNames, Nothing, Executed
    <3> QED BY <1>1, <3>1 DEF vars, HistoryInv, LedgerInv, Planned
  <2>2. Applied'
    <3>1. ASSUME NEW q \in Procs
          PROVE  Executed(q)' = Executed(q) /\ \A t \in Tables : Content(q, t)' = Content(q, t)
      BY <1>1 DEF vars, Content, Executed
    <3> QED BY <1>1, <3>1 DEF vars, HistoryInv, LedgerInv, Applied, AutoCommits
  <2>3. Numbers' /\ LaterElsewhere'
    BY <1>1 DEF vars, HistoryInv, LedgerInv, Numbers, LaterElsewhere, AutoCommits, OneRowPerId
  <2>4. HistoryExplainsSchema' = HistoryExplainsSchema /\ AutoCommits' = AutoCommits
    BY <1>1 DEF vars, HistoryExplainsSchema, NoPush, Replay, ReplayStates, Numbered, AutoCommits
  <2> QED BY <1>0, <2>1, <2>2, <2>3, <2>4 DEF HistoryInv, LedgerInv
<1>2. ASSUME NEW p \in Procs, Step(p) \/ CommitUnanswered(p) \/ Fault(p)
      PROVE  HistoryInv'
  <2>0. AutoCommits' = AutoCommits
    BY <1>2 DEF Step, Ensure, LoadHistory, ListTables, Read, Compare, Execute, Record, Commit, Refuse,
                Deadlock, Rerun, GiveUp, CommitUnanswered, Fault, AutoCommits
  <2>1. /\ Planned' /\ Applied' /\ Numbers' /\ LaterElsewhere'
        /\ ~AutoCommits => (HistoryExplainsSchema' = HistoryExplainsSchema \/ HistoryExplainsSchema')
    <3>1. CASE Commit(p)
      BY <3>1, PublishLedger DEF Commit
    <3>2. CASE CommitUnanswered(p)
      BY <3>2, PublishLedger DEF CommitUnanswered
    <3>3. CASE \/ Ensure(p) \/ LoadHistory(p) \/ ListTables(p) \/ Read(p) \/ Rerun(p)
               \/ Refuse(p) \/ Deadlock(p) \/ Fault(p)
      BY <1>0, <3>3, OthersAside, AsideKeeps
    <3>4. CASE Compare(p) \/ Execute(p) \/ Record(p)
      BY <3>4, CompareLedger, ExecuteLedger, RecordLedger
    <3> QED BY <1>2, <3>1, <3>2, <3>3, <3>4 DEF Step
  <2> QED BY <1>0, <2>0, <2>1 DEF HistoryInv, LedgerInv
<1> QED BY <1>1, <1>2 DEF Next

\* The invariant of the transactions and the history holds in every behaviour.
LEMMA HistoryInvariance == Spec => []HistoryInv
BY InitHistoryInv, NextHistoryInv, PTL DEF Spec

\* Where the database runs DDL in transactions, the statements of the recorded
\* migrations, run again in the order of their numbers on the schema the database began
\* with, give the committed schema, although numbers are given before the commits and
\* the commits come in another order (applyWithHistory).
THEOREM HistoryExplains ==
    ASSUME "mysql" \notin Dialects
    PROVE  Spec => []HistoryExplainsSchema
<1>1. HistoryInv => HistoryExplainsSchema
  BY DEF HistoryInv, LedgerInv, Inv, Typed, AutoCommits
<1> QED BY <1>1, HistoryInvariance, PTL

\* A step is a whole migration, a push or nothing to the ledger.
LEMMA LedgerStep ==
    ASSUME HistoryInv, ~AutoCommits, Declared = LiveNames, [Next]_vars
    PROVE  [Ledger!Next]_<<db, history>>
<1>0. Inv
  BY DEF HistoryInv, LedgerInv
<1>1. ASSUME NEW p \in Procs, NEW label, NEW answer, Finished(p), Publish(p, label, answer)
      PROVE  [Ledger!Next]_<<db, history>>
  <2>1. db' = Ledger!RunAll(db, batch[p]) /\ history' = history \cup row[p]
    BY <1>1, PublishedBatch DEF Publish
  <2>2. CASE row[p] = {}
    <3>1. pc[p] \in Open
      BY <1>0, <1>1 DEF Finished, Open
    <3>2. batch[p] = Ledger!Diff(live[p], target[p])
      BY <3>1 DEF HistoryInv, LedgerInv, Planned, Plan
    <3>3. batch[p] \in Ledger!Batches
      BY <1>0, <3>2 DEF Inv, Typed, Ledger!Batches, Schemas
    <3> QED BY <2>1, <2>2, <3>3 DEF Ledger!Next, Ledger!Push
  <2>3. CASE row[p] # {}
    <3>1. PICK mine \in Rows : /\ row[p] = {mine} /\ mine.stmts = batch[p]
                               /\ \A r \in history : r.id # mine.id
      BY <1>1, <2>3, PublishedRow
    <3>2. mine \in history' \ history /\ history' = history \cup {mine}
      BY <2>1, <3>1
    <3>3. mine.id \notin {r.id : r \in history} /\ db' = Ledger!RunAll(db, mine.stmts)
      BY <2>1, <3>1
    <3> QED BY <3>2, <3>3 DEF Ledger!Next, Ledger!Apply
  <2> QED BY <2>2, <2>3
<1>2. ASSUME NEW p \in Procs, Step(p) \/ CommitUnanswered(p) \/ Fault(p)
      PROVE  [Ledger!Next]_<<db, history>>
  <2>1. CASE Commit(p) \/ CommitUnanswered(p)
    BY <1>1, <2>1 DEF Commit, CommitUnanswered
  <2>2. CASE Compare(p) \/ Record(p)
    BY <2>2 DEF Compare, Record
  <2>3. CASE Execute(p)
    BY <2>3 DEF Execute
  <2>4. CASE \/ Ensure(p) \/ LoadHistory(p) \/ ListTables(p) \/ Read(p) \/ Rerun(p)
             \/ Refuse(p) \/ Deadlock(p) \/ Fault(p)
    BY <1>0, <2>4, OthersAside DEF Aside
  <2> QED BY <1>2, <2>1, <2>2, <2>3, <2>4 DEF Step
<1>3. CASE UNCHANGED vars
  BY <1>3 DEF vars
<1> QED BY <1>2, <1>3 DEF Next

\* Where the database runs DDL in transactions and the schema in the code names its
\* tables as introspection does, Migrate and Push implement the ledger: each commit is
\* one whole batch, run on the database as it is at the commit, and its row
\* (applyWithHistory, execTransaction).
THEOREM Implements ==
    ASSUME "mysql" \notin Dialects, Declared = "bare"
    PROVE  Spec => ImplementsLedger
<1>1. Init => Ledger!Init
  <2> SUFFICES ASSUME Init PROVE Ledger!Init
    OBVIOUS
  <2> QED BY InitInv DEF Inv, Typed, Init, Ledger!Init, Schemas
<1>2. HistoryInv => ~AutoCommits /\ Declared = LiveNames
  BY DEF HistoryInv, LedgerInv, Inv, Typed, AutoCommits, LiveNames
<1>3. HistoryInv /\ [Next]_vars => [Ledger!Next]_<<db, history>>
  BY <1>2, LedgerStep
<1> QED BY <1>1, <1>3, HistoryInvariance, PTL DEF Spec, ImplementsLedger, Ledger!Spec

================================================================================
