----------------------------- MODULE SchemaApplyProofs -----------------------------
(***************************************************************************)
(* Proofs about SchemaApply, for every set of schemas, whatever may follow  *)
(* what, and any number of migrations: the catalog stays well-formed, and   *)
(* enums converge.                                                          *)
(***************************************************************************)
EXTENDS SchemaApply, SequenceLemmas

--------------------------------------------------------------------------------
(* The inductive invariant                                                   *)

\* A table of the catalog; its constraints can be listed.
CatalogTable(t) ==
    /\ DOMAIN t = {"cols", "cons"}
    /\ IsSeq(t.cols) /\ IsFiniteSet(t.cons)
    /\ \A i \in DOMAIN t.cols : DOMAIN t.cols[i] = {"name", "type", "notNull", "default", "data"}
    /\ \A i, j \in DOMAIN t.cols : t.cols[i].name = t.cols[j].name => i = j
CatalogShape(cat) ==
    /\ DOMAIN cat = {"tables", "views", "enums", "fresh"}
    /\ \A t \in DOMAIN cat.tables : CatalogTable(cat.tables[t])

\* Labels of an enum.
Labels(l) == IsSeq(l) /\ Blank \notin ToSet(l) /\ \A i, j \in DOMAIN l : l[i] = l[j] => i = j

Operations ==
    {"create_table", "create_index", "drop_table", "rename_table", "add_column", "drop_column",
     "alter_column_type", "alter_column_nullable", "alter_column_default", "rename_column",
     "add_constraint", "drop_constraint", "drop_index", "create_view", "drop_view",
     "create_type", "add_value", "drop_type"}

\* What a statement on the way from schema o to schema n looks like: enums are created and
\* dropped when one schema alone has them, and get labels the old schema does not show.
StatementShape(s, o, n) ==
    /\ s.op \in Operations
    /\ s.op = "create_table" => IsSeq(s.cols) /\ IsSeq(s.cons)
    /\ s.op = "create_type" => s.name \in DOMAIN n.enums \ DOMAIN o.enums /\ s.labels = n.enums[s.name]
    /\ s.op = "drop_type" => s.name \in DOMAIN o.enums \ DOMAIN n.enums
    /\ s.op = "add_value" =>
         /\ s.type \in DOMAIN n.enums \cap DOMAIN o.enums
         /\ \E i \in DOMAIN n.enums[s.type] :
              LET a == EnumAddition(o.enums[s.type], n.enums[s.type], i)
              IN  /\ n.enums[s.type][i] \notin ToSet(o.enums[s.type])
                  /\ s.value = a.value /\ s.after = a.after /\ s.before = a.before

SavedSchema(s) == s = EmptySnapshot \/ \E t \in Schemas : s = Saved(t)

\* PushSQL and Migrate know no enums.
LiveHasNoEnums == flow = "live" => DOMAIN saved.enums = {} /\ DOMAIN new.enums = {}

Stages ==
    /\ flow \in {"snapshot", "live"} /\ status \in {"idle", "running"} /\ done \in 0..MaxMigrations
    /\ SavedSchema(saved) /\ LiveHasNoEnums
    /\ status = "idle" => new = saved /\ todo = <<>> /\ catalog = before
    /\ status = "running" => new \in Schemas /\ done < MaxMigrations

TodoShape == IsSeq(todo) /\ \A s \in ToSet(todo) : StatementShape(s, saved, new)

\* Between migrations: the enums of the last schema, with all its labels.
EnumsThere ==
    /\ DOMAIN before.enums = DOMAIN saved.enums
    /\ \A e \in DOMAIN saved.enums :
         Labels(before.enums[e]) /\ ToSet(saved.enums[e]) \subseteq ToSet(before.enums[e])

\* The labels c are some of n, in the order of n.
InOrder(c, n) ==
    \A p, q \in DOMAIN c : p < q => \E i, j \in DOMAIN n : i < j /\ c[p] = n[i] /\ c[q] = n[j]

\* The labels of n that come first and are not among o.
Lead(o, n) == {n[k] : k \in {l \in DOMAIN n : \A j \in 1..l : n[j] \notin ToSet(o)}}

\* Where an enum that both schemas have stands, with the labels d at first and c by now.
\* As long as a new first label is missing, so are those that follow it up to the first
\* old one: that is why the place before the old one is the first.
Growing(d, o, n, c) ==
    /\ Labels(c) /\ ToSet(d) \subseteq ToSet(c) /\ ToSet(c) \subseteq ToSet(d) \cup ToSet(n)
    /\ ~EnumDrift(d, n) /\ (n[1] \in ToSet(d) \/ ToSet(d) \subseteq ToSet(o)) =>
         /\ InOrder(c, n)
         /\ n[1] \notin ToSet(c) => Lead(o, n) \cap ToSet(c) = {}

\* What is done of the enums, or still to do.
EnumsUnderWay ==
    /\ DOMAIN catalog.enums \subseteq DOMAIN saved.enums \cup DOMAIN new.enums
    /\ \A e \in DOMAIN saved.enums \ DOMAIN new.enums :
         e \in DOMAIN catalog.enums => \E s \in ToSet(todo) : s.op = "drop_type" /\ s.name = e
    /\ \A e \in DOMAIN new.enums \ DOMAIN saved.enums :
         IF e \in DOMAIN catalog.enums THEN catalog.enums[e] = new.enums[e]
         ELSE \E s \in ToSet(todo) : s.op = "create_type" /\ s.name = e
    /\ \A e \in DOMAIN new.enums \cap DOMAIN saved.enums :
         /\ e \in DOMAIN catalog.enums
         /\ Growing(before.enums[e], saved.enums[e], new.enums[e], catalog.enums[e])
         /\ \A v \in ToSet(new.enums[e]) \ ToSet(catalog.enums[e]) :
              \E s \in ToSet(todo) : s.op = "add_value" /\ s.type = e /\ s.value = v

Inv ==
    /\ Stages /\ CatalogShape(catalog) /\ CatalogShape(before)
    /\ TodoShape /\ EnumsThere
    /\ status = "running" => EnumsUnderWay

--------------------------------------------------------------------------------
(* The labels of an enum                                                      *)

\* What Only keeps, and that it keeps the order.
LEMMA OnlyFacts ==
    ASSUME NEW s, IsSeq(s), NEW S
    PROVE  /\ IsSeq(Only(s, S)) /\ ToSet(Only(s, S)) = ToSet(s) \cap S
           /\ InOrder(Only(s, S), s)
           /\ ToSet(s) \subseteq S => Only(s, S) = s
<1> DEFINE ss == [i \in DOMAIN s |-> When(s[i] \in S, <<s[i]>>)]
<1>0. Only(s, S) = FlattenSeq(ss) /\ DOMAIN s = 1..Len(s) /\ Len(s) \in Nat
  BY SeqDomain DEF Only
<1>1. \A i \in DOMAIN s : ss[i] = IF s[i] \in S THEN <<s[i]>> ELSE <<>>
  BY DEF When
<1>2. ss = [i \in DOMAIN s |-> ss[i]] /\ DOMAIN ss = DOMAIN s
  OBVIOUS
<1> HIDE DEF ss
<1>3. \A i \in DOMAIN s : IsSeq(ss[i]) /\ ToSet(ss[i]) = {s[i]} \cap S
  <2> SUFFICES ASSUME NEW i \in DOMAIN s PROVE IsSeq(ss[i]) /\ ToSet(ss[i]) = {s[i]} \cap S
    OBVIOUS
  <2>1. CASE s[i] \in S
    <3>1. ss[i] = <<s[i]>> /\ {s[i]} \cap S = {s[i]}
      BY <1>1, <2>1
    <3> QED BY <3>1, SmallSeqs
  <2>2. CASE s[i] \notin S
    BY <1>1, <2>2, SmallSeqs
  <2> QED BY <2>1, <2>2
<1>4. IsSeq(FlattenSeq(ss)) /\ ToSet(FlattenSeq(ss)) = UNION {ToSet(ss[i]) : i \in DOMAIN s}
  BY <1>2, <1>3, FlatElements
<1>5. UNION {ToSet(ss[i]) : i \in DOMAIN s} = ToSet(s) \cap S
  BY <1>3 DEF ToSet
<1>6. InOrder(FlattenSeq(ss), s)
  BY <1>1, <1>2, FlattenOrder DEF InOrder
<1>7. ASSUME ToSet(s) \subseteq S PROVE FlattenSeq(ss) = s
  <2>1. \A i \in DOMAIN s : s[i] \in S
    BY <1>7, SeqDomain
  <2> QED BY <1>1, <1>2, <2>1, FlattenSingles
<1> QED BY <1>0, <1>4, <1>5, <1>6, <1>7

\* Without drift the old labels are among the new ones, in their order.
LEMMA NoDrift ==
    ASSUME NEW d, NEW n, IsSeq(d), IsSeq(n), ~EnumDrift(d, n)
    PROVE  ToSet(d) \subseteq ToSet(n) /\ InOrder(d, n)
<1>1. ToSet(d) \subseteq ToSet(n) /\ Only(d, ToSet(n)) = Only(n, ToSet(d))
  BY DEF EnumDrift
<1> QED BY <1>1, OnlyFacts

\* The same labels in the same order are the same.
LEMMA InOrderAll ==
    ASSUME NEW c, NEW n, Labels(c), Labels(n), InOrder(c, n), ToSet(c) = ToSet(n)
    PROVE  c = n
<1>1. /\ Len(c) \in Nat /\ DOMAIN c = 1..Len(c) /\ Len(n) \in Nat /\ DOMAIN n = 1..Len(n)
      /\ \A p \in DOMAIN c : \E i \in DOMAIN n : n[i] = c[p]
      /\ \A i \in DOMAIN n : \E p \in DOMAIN c : c[p] = n[i]
      /\ \A i, j \in DOMAIN n : n[i] = n[j] => i = j
  BY SeqDomain DEF Labels
<1> DEFINE f == [p \in 1..Len(c) |-> CHOOSE i \in DOMAIN n : n[i] = c[p]]
<1>2. f \in [1..Len(c) -> 1..Len(n)] /\ \A p \in 1..Len(c) : n[f[p]] = c[p]
  BY <1>1
<1> HIDE DEF f
<1>3. \A p, q \in 1..Len(c) : p < q => f[p] < f[q]
  <2> SUFFICES ASSUME NEW p \in 1..Len(c), NEW q \in 1..Len(c), p < q PROVE f[p] < f[q]
    OBVIOUS
  <2>1. PICK i \in DOMAIN n, j \in DOMAIN n : i < j /\ c[p] = n[i] /\ c[q] = n[j]
    BY <1>1 DEF InOrder
  <2>2. f[p] = i /\ f[q] = j
    BY <1>1, <1>2, <2>1, SMTT(60)
  <2> QED BY <2>1, <2>2
<1>4. \A i \in 1..Len(n) : \E p \in 1..Len(c) : f[p] = i
  BY <1>1, <1>2
<1>5. Len(c) = Len(n) /\ \A p \in 1..Len(c) : f[p] = p
  <2> DEFINE k == Len(c)
             l == Len(n)
  <2>1. k \in Nat /\ l \in Nat /\ IncreasesOnto(f, k, l)
    BY <1>1, <1>2, <1>3, <1>4 DEF IncreasesOnto
  <2> HIDE DEF k, l
  <2>2. k = l /\ \A p \in 1..k : f[p] = p
    BY <2>1, IncreasingOnto
  <2> QED BY <2>2 DEF k, l
<1>6. \A p \in 1..Len(c) : c[p] = n[p]
  BY <1>2, <1>5
<1>7. c \in Seq(ToSet(n)) /\ n \in Seq(ToSet(n))
  BY DEF Labels, IsSeq
<1> QED BY <1>5, <1>6, <1>7

\* A new label, at any place.
LEMMA InsertNew ==
    ASSUME NEW c, Labels(c), NEW v, v \notin ToSet(c), v # Blank, NEW k \in 1..(Len(c) + 1)
    PROVE  Labels(InsertAt(c, k, v)) /\ ToSet(InsertAt(c, k, v)) = ToSet(c) \cup {v}
<1> DEFINE r == InsertAt(c, k, v)
<1>0. /\ IsSeq(c) /\ Len(c) \in Nat /\ DOMAIN c = 1..Len(c)
      /\ \A i, j \in DOMAIN c : c[i] = c[j] => i = j
      /\ \A i \in DOMAIN c : c[i] # v
  BY SeqDomain DEF Labels
<1>1. /\ IsSeq(r) /\ Len(r) = Len(c) + 1 /\ ToSet(r) = ToSet(c) \cup {v}
      /\ \A i \in 1..(Len(c) + 1) : r[i] = IF i < k THEN c[i] ELSE IF i = k THEN v ELSE c[i - 1]
  BY <1>0, InsertFacts
<1> HIDE DEF r
<1>2. DOMAIN r = 1..(Len(c) + 1)
  BY <1>1, SeqDomain
\* Where an element of the longer sequence comes from.
<1>3. ASSUME NEW i \in DOMAIN r
      PROVE  \/ i < k /\ i \in DOMAIN c /\ r[i] = c[i]
             \/ i = k /\ r[i] = v
             \/ i > k /\ i - 1 \in DOMAIN c /\ r[i] = c[i - 1]
  <2>1. r[i] = IF i < k THEN c[i] ELSE IF i = k THEN v ELSE c[i - 1]
    BY <1>1, <1>2
  <2> QED BY <1>0, <1>2, <2>1
<1>4. ASSUME NEW i \in DOMAIN r, NEW j \in DOMAIN r, r[i] = r[j] PROVE i = j
  <2>0. i \in 1..(Len(c) + 1) /\ j \in 1..(Len(c) + 1)
    BY <1>2
  <2>1. CASE i = k \/ j = k
    BY <1>0, <1>3, <1>4, <2>1
  <2>2. CASE i < k /\ j < k
    <3>1. i \in DOMAIN c /\ j \in DOMAIN c /\ c[i] = c[j]
      BY <1>3, <1>4, <2>0, <2>2
    <3> QED BY <1>0, <3>1
  <2>3. CASE i > k /\ j > k
    <3>1. i - 1 = j - 1
      BY <1>0, <1>3, <1>4, <2>3
    <3> QED BY <2>0, <3>1
  <2>4. CASE i < k /\ j > k
    <3>0. i \in DOMAIN c /\ j - 1 \in DOMAIN c /\ c[i] = c[j - 1]
      BY <1>3, <1>4, <2>0, <2>4
    <3>1. i = j - 1
      BY <1>0, <3>0
    <3> QED BY <1>0, <2>0, <2>4, <3>1
  <2>5. CASE i > k /\ j < k
    <3>1. j = i - 1
      BY <1>0, <1>3, <1>4, <2>5, SMTT(60)
    <3> QED BY <1>0, <2>0, <2>5, <3>1
  <2> QED BY <1>0, <2>0, <2>1, <2>2, <2>3, <2>4, <2>5
<1>5. Blank \notin ToSet(r)
  BY <1>1 DEF Labels
<1>6. Labels(r)
  BY <1>1, <1>4, <1>5 DEF Labels
<1> QED BY <1>1, <1>6 DEF r

\* A label at the place its neighbours in n leave it.
LEMMA InsertInOrder ==
    ASSUME NEW c, NEW n, Labels(c), Labels(n), InOrder(c, n),
           NEW m \in DOMAIN n, n[m] \notin ToSet(c), NEW k \in 1..(Len(c) + 1),
           \A p \in DOMAIN c : p < k => \E i \in DOMAIN n : i < m /\ c[p] = n[i],
           \A p \in DOMAIN c : p >= k => \E i \in DOMAIN n : i > m /\ c[p] = n[i]
    PROVE  InOrder(InsertAt(c, k, n[m]), n)
<1> DEFINE r == InsertAt(c, k, n[m])
<1>1. /\ IsSeq(r) /\ Len(r) = Len(c) + 1 /\ ToSet(r) = ToSet(c) \cup {n[m]}
      /\ \A i \in 1..(Len(c) + 1) : r[i] = IF i < k THEN c[i] ELSE IF i = k THEN n[m] ELSE c[i - 1]
  <2>1. IsSeq(c)
    BY DEF Labels
  <2> DEFINE v == n[m]
  <2> HIDE DEF v
  <2>2. /\ IsSeq(InsertAt(c, k, v)) /\ Len(InsertAt(c, k, v)) = Len(c) + 1
        /\ ToSet(InsertAt(c, k, v)) = ToSet(c) \cup {v}
        /\ \A i \in 1..(Len(c) + 1) :
             InsertAt(c, k, v)[i] = IF i < k THEN c[i] ELSE IF i = k THEN v ELSE c[i - 1]
    BY <2>1, InsertFacts
  <2> QED BY <2>2 DEF v
<1>2. /\ Len(c) \in Nat /\ DOMAIN c = 1..Len(c) /\ DOMAIN r = 1..(Len(c) + 1)
      /\ Len(n) \in Nat /\ DOMAIN n = 1..Len(n)
      /\ \A i, j \in DOMAIN n : n[i] = n[j] => i = j
  BY <1>1, SeqDomain DEF Labels
<1> HIDE DEF r
<1>3. ASSUME NEW p \in DOMAIN r, NEW q \in DOMAIN r, p < q
      PROVE  \E i, j \in DOMAIN n : i < j /\ r[p] = n[i] /\ r[q] = n[j]
  <2>1. CASE q < k
    <3>1. p \in DOMAIN c /\ q \in DOMAIN c /\ r[p] = c[p] /\ r[q] = c[q]
      BY <1>1, <1>2, <1>3, <2>1
    <3> QED BY <1>3, <3>1 DEF InOrder
  <2>2. CASE q = k
    <3>1. p \in DOMAIN c /\ p < k /\ r[p] = c[p] /\ r[q] = n[m]
      BY <1>1, <1>2, <1>3, <2>2
    <3> QED BY <3>1
  <2>3. CASE q > k
    <3>1. q - 1 \in DOMAIN c /\ q - 1 >= k /\ r[q] = c[q - 1]
      BY <1>1, <1>2, <2>3
    <3>2. CASE p < k
      <4>1. p \in DOMAIN c /\ p < q - 1 /\ r[p] = c[p]
        BY <1>1, <1>2, <3>1, <3>2
      <4> QED BY <3>1, <4>1 DEF InOrder
    <3>3. CASE p = k
      <4>1. r[p] = n[m]
        BY <1>1, <1>2, <3>3
      <4> QED BY <3>1, <4>1
    <3>4. CASE p > k
      <4>1. p - 1 \in DOMAIN c /\ p - 1 < q - 1 /\ r[p] = c[p - 1]
        BY <1>1, <1>2, <1>3, <3>4
      <4> QED BY <3>1, <4>1 DEF InOrder
    <3> QED BY <1>2, <3>2, <3>3, <3>4
  <2> QED BY <1>2, <2>1, <2>2, <2>3
<1>4. InOrder(r, n)
  BY <1>3 DEF InOrder
<1> QED BY <1>4 DEF r

\* An enum as a migration meets it.
LEMMA GrowStart ==
    ASSUME NEW d, NEW o, NEW n, Labels(d), Labels(n)
    PROVE  Growing(d, o, n, d)
<1>1. ~EnumDrift(d, n) => InOrder(d, n)
  BY NoDrift DEF Labels
<1>2. Lead(o, n) \cap ToSet(o) = {}
  <2> SUFFICES ASSUME NEW k \in DOMAIN n, \A j \in 1..k : n[j] \notin ToSet(o) PROVE n[k] \notin ToSet(o)
    BY DEF Lead
  <2>1. k \in 1..k
    BY SeqDomain DEF Labels
  <2> QED BY <2>1
<1> QED BY <1>1, <1>2 DEF Growing

\* The label that ADD VALUE adds, with the anchor EnumAddedValues gave it, keeps the order.
LEMMA GrowStep ==
    ASSUME NEW d, NEW o, NEW n, NEW c, Labels(n), Growing(d, o, n, c),
           NEW m \in DOMAIN n, n[m] \notin ToSet(o), n[m] \notin ToSet(c), NEW s,
           s.value = EnumAddition(o, n, m).value, s.after = EnumAddition(o, n, m).after,
           s.before = EnumAddition(o, n, m).before, {s.after, s.before} \subseteq ToSet(c) \cup {Blank}
    PROVE  Growing(d, o, n, InsertLabel(c, s)) /\ ToSet(InsertLabel(c, s)) = ToSet(c) \cup {n[m]}
<1> DEFINE r == InsertLabel(c, s)
           common == {j \in DOMAIN n : n[j] \in ToSet(o)}
<1>0. /\ Labels(c) /\ Len(c) \in Nat /\ DOMAIN c = 1..Len(c)
      /\ Len(n) \in Nat /\ DOMAIN n = 1..Len(n)
      /\ \A i \in DOMAIN n : n[i] # Blank /\ n[i] \in ToSet(n)
      /\ \A x \in ToSet(n) : \E i \in DOMAIN n : n[i] = x
      /\ \A i, j \in DOMAIN n : n[i] = n[j] => i = j
      /\ \A i, j \in DOMAIN c : c[i] = c[j] => i = j
      /\ \A x \in ToSet(c) : \E i \in DOMAIN c : c[i] = x
      /\ \A i \in DOMAIN c : c[i] \in ToSet(c)
  <2>1. Labels(c)
    BY DEF Growing
  <2> QED BY <2>1, SeqDomain DEF Labels
<1>i. Labels(c) /\ \A i, j \in DOMAIN n : n[i] = n[j] => i = j
  BY <1>0
<1>1. /\ s.value = n[m]
      /\ s.after = IF m > 1 THEN n[m - 1] ELSE Blank
      /\ s.before = IF m = 1 /\ common # {} THEN n[Min(common)] ELSE Blank
  BY DEF EnumAddition
<1>2. common # {} => /\ Min(common) \in common /\ Min(common) \in DOMAIN n
                     /\ \A j \in common : Min(common) <= j
  <2> SUFFICES ASSUME NEW x \in common PROVE \E y \in common : \A j \in common : y <= j
    BY DEF Min
  <2>1. common \subseteq Nat
    BY <1>0
  <2> HIDE DEF common
  <2> QED BY <2>1, LeastNumber
<1> HIDE DEF common
\* Behind the label before it, else ahead of the first old one, else at the end.
<1>3. PICK k \in 1..(Len(c) + 1) :
          /\ r = InsertAt(c, k, n[m])
          /\ m > 1 => k > 1 /\ c[k - 1] = n[m - 1]
          /\ m = 1 /\ common # {} => k \in DOMAIN c /\ c[k] = n[Min(common)]
          /\ m = 1 /\ common = {} => k = Len(c) + 1
  <2>0. \A l \in DOMAIN c : (CHOOSE i \in DOMAIN c : c[i] = c[l]) = l
    BY <1>0
  <2>1. CASE m > 1
    <3>1. s.after = n[m - 1] /\ n[m - 1] # Blank /\ n[m - 1] \in ToSet(c)
      BY <1>0, <1>1, <2>1
    <3>2. PICK l \in DOMAIN c : c[l] = n[m - 1]
      BY <1>0, <3>1
    <3>3. (CHOOSE i \in DOMAIN c : c[i] = s.after) = l
      BY <2>0, <3>1, <3>2
    <3>4. r = InsertAt(c, l + 1, n[m])
      BY <1>1, <3>1, <3>3 DEF InsertLabel
    <3>5. l + 1 \in 1..(Len(c) + 1) /\ l + 1 > 1 /\ (l + 1) - 1 = l
      BY <1>0
    <3> QED BY <1>0, <2>1, <3>2, <3>4, <3>5
  <2>2. CASE m = 1 /\ common # {}
    <3> DEFINE x == n[Min(common)]
    <3>1. s.after = Blank /\ s.before = x /\ x # Blank /\ x \in ToSet(c)
      BY <1>0, <1>1, <1>2, <2>2
    <3> HIDE DEF x
    <3>2. PICK l \in DOMAIN c : c[l] = x
      BY <1>0, <3>1
    <3>3. (CHOOSE i \in DOMAIN c : c[i] = s.before) = l
      BY <2>0, <3>1, <3>2
    <3>4. r = InsertAt(c, l, n[m])
      BY <1>1, <3>1, <3>3 DEF InsertLabel
    <3>5. l \in 1..(Len(c) + 1)
      BY <1>0
    <3> QED BY <2>2, <3>2, <3>4, <3>5 DEF x
  <2>3. CASE m = 1 /\ common = {}
    <3>1. s.after = Blank /\ s.before = Blank
      BY <1>1, <2>3
    <3>2. r = Append(c, n[m])
      BY <1>1, <3>1 DEF InsertLabel
    <3>3. r = InsertAt(c, Len(c) + 1, n[m])
      BY <1>0, <3>2, InsertLast DEF Labels
    <3>4. Len(c) + 1 \in 1..(Len(c) + 1)
      BY <1>0
    <3> QED BY <2>3, <3>3, <3>4
  <2> QED BY <1>0, <2>1, <2>2, <2>3
<1> HIDE DEF r
<1>4. Labels(r) /\ ToSet(r) = ToSet(c) \cup {n[m]}
  <2> DEFINE v == n[m]
  <2>1. v \notin ToSet(c) /\ v # Blank /\ r = InsertAt(c, k, v)
    BY <1>0, <1>3
  <2> HIDE DEF v
  <2>2. Labels(r) /\ ToSet(r) = ToSet(c) \cup {v}
    BY <1>0, <2>1, InsertNew
  <2> QED BY <2>2 DEF v
<1>5. ASSUME ~EnumDrift(d, n), n[1] \in ToSet(d) \/ ToSet(d) \subseteq ToSet(o)
      PROVE  InOrder(r, n) /\ (n[1] \notin ToSet(r) => Lead(o, n) \cap ToSet(r) = {})
  <2>1. InOrder(c, n) /\ (n[1] \notin ToSet(c) => Lead(o, n) \cap ToSet(c) = {}) /\ ToSet(c) \subseteq ToSet(n)
    BY <1>5 DEF Growing, EnumDrift
  <2>2. \A p \in DOMAIN c : \E i \in DOMAIN n : c[p] = n[i] /\ i # m
    <3> SUFFICES ASSUME NEW p \in DOMAIN c PROVE \E i \in DOMAIN n : c[p] = n[i] /\ i # m
      OBVIOUS
    <3>1. c[p] \in ToSet(c) /\ c[p] \in ToSet(n)
      BY <1>0, <2>1
    <3>2. PICK i \in DOMAIN n : n[i] = c[p]
      BY <1>0, <3>1
    <3> QED BY <3>1, <3>2
  \* With the first label missing there is none of those that lead.
  <2>3. ASSUME m = 1, NEW i \in DOMAIN n, n[i] \in ToSet(c)
        PROVE  \E j \in common : j <= i
    <3>1. n[i] \notin Lead(o, n)
      BY <2>1, <2>3
    <3>2. PICK j \in 1..i : n[j] \in ToSet(o)
      BY <3>1 DEF Lead
    <3> QED BY <1>0, <3>2 DEF common
  <2>4. ASSUME NEW p \in DOMAIN c, p < k PROVE \E i \in DOMAIN n : i < m /\ c[p] = n[i]
    <3>1. CASE m > 1
      <4>1. k - 1 \in DOMAIN c /\ m - 1 \in DOMAIN n /\ m - 1 < m /\ c[k - 1] = n[m - 1]
        BY <1>0, <1>3, <3>1
      <4>2. CASE p = k - 1
        BY <4>1, <4>2
      <4>3. CASE p < k - 1
        <5>1. PICK i \in DOMAIN n, j \in DOMAIN n : i < j /\ c[p] = n[i] /\ c[k - 1] = n[j]
          BY <2>1, <4>1, <4>3 DEF InOrder
        <5>2. j = m - 1
          BY <1>i, <4>1, <5>1
        <5> QED BY <1>0, <5>1, <5>2
      <4> QED BY <1>0, <2>4, <4>2, <4>3
    <3>2. CASE m = 1
      <4>1. PICK i \in DOMAIN n : c[p] = n[i]
        BY <2>2
      <4>2. PICK j \in common : j <= i
        BY <1>0, <2>3, <3>2, <4>1
      <4>3. k \in DOMAIN c /\ c[k] = n[Min(common)] /\ Min(common) \in DOMAIN n /\ Min(common) <= j
        BY <1>2, <1>3, <3>2, <4>2 DEF common
      <4>4. PICK i1 \in DOMAIN n, j1 \in DOMAIN n : i1 < j1 /\ c[p] = n[i1] /\ c[k] = n[j1]
        BY <2>1, <2>4, <4>3 DEF InOrder
      <4>5. i1 = i /\ j1 = Min(common)
        BY <1>0, <4>1, <4>3, <4>4, ZenonT(60)
      <4>6. j \in DOMAIN n
        BY <4>2 DEF common
      <4> QED BY <1>0, <4>2, <4>3, <4>4, <4>5, <4>6
    <3> QED BY <1>0, <3>1, <3>2
  <2>5. ASSUME NEW p \in DOMAIN c, p >= k PROVE \E i \in DOMAIN n : i > m /\ c[p] = n[i]
    <3>1. PICK i \in DOMAIN n : c[p] = n[i] /\ i # m
      BY <2>2
    <3>2. CASE m > 1
      <4>1. k - 1 \in DOMAIN c /\ m - 1 \in DOMAIN n /\ k - 1 < p /\ c[k - 1] = n[m - 1]
        BY <1>0, <1>3, <2>5, <3>2
      <4>2. PICK i1 \in DOMAIN n, j1 \in DOMAIN n : i1 < j1 /\ c[k - 1] = n[i1] /\ c[p] = n[j1]
        BY <2>1, <4>1 DEF InOrder
      <4>3. i1 = m - 1 /\ j1 = i
        BY <1>i, <3>1, <4>1, <4>2
      <4> QED BY <1>0, <3>1, <4>2, <4>3
    <3>3. CASE m = 1
      BY <1>0, <3>1, <3>3
    <3> QED BY <1>0, <3>2, <3>3
  <2>6. InOrder(r, n)
    <3>1. /\ \A p \in DOMAIN c : p < k => \E i \in DOMAIN n : i < m /\ c[p] = n[i]
          /\ \A p \in DOMAIN c : p >= k => \E i \in DOMAIN n : i > m /\ c[p] = n[i]
      BY <2>4, <2>5
    <3>2. InOrder(InsertAt(c, k, n[m]), n)
      BY <1>i, <2>1, <3>1, InsertInOrder
    <3> QED BY <1>3, <3>2
  <2>7. ASSUME n[1] \notin ToSet(r) PROVE Lead(o, n) \cap ToSet(r) = {}
    <3>1. n[1] \notin ToSet(c) /\ m # 1
      BY <1>4, <2>7
    <3>2. Lead(o, n) \cap ToSet(c) = {}
      BY <2>1, <3>1
    <3>3. n[m] \notin Lead(o, n)
      <4>1. k - 1 \in DOMAIN c /\ c[k - 1] = n[m - 1] /\ m - 1 \in DOMAIN n
        BY <1>0, <1>3, <3>1
      <4>2. n[m - 1] \notin Lead(o, n)
        BY <1>0, <3>2, <4>1
      <4>3. PICK j \in 1..(m - 1) : n[j] \in ToSet(o)
        BY <4>1, <4>2 DEF Lead
      <4>4. \A l \in DOMAIN n : n[l] = n[m] => j \in 1..l
        BY <1>0, <4>3
      <4> QED BY <4>3, <4>4 DEF Lead
    <3> QED BY <1>4, <3>2, <3>3
  <2> QED BY <2>6, <2>7
<1>6. ToSet(d) \subseteq ToSet(r) /\ ToSet(r) \subseteq ToSet(d) \cup ToSet(n)
  BY <1>0, <1>4 DEF Growing
<1> QED BY <1>4, <1>5, <1>6 DEF Growing, r

\* When all labels are there, they are in their places.
LEMMA GrowEnd ==
    ASSUME NEW d, NEW o, NEW n, NEW c, Labels(n), Growing(d, o, n, c), ToSet(n) \subseteq ToSet(c)
    PROVE  \/ c = n
           \/ EnumDrift(d, n)
           \/ n[1] \notin ToSet(d) /\ ToSet(d) \ ToSet(o) # {}
<1> SUFFICES ASSUME ~EnumDrift(d, n), n[1] \in ToSet(d) \/ ToSet(d) \subseteq ToSet(o)
             PROVE  c = n
  OBVIOUS
<1>1. Labels(c) /\ InOrder(c, n) /\ ToSet(c) = ToSet(n)
  BY DEF Growing, EnumDrift
<1> QED BY <1>1, InOrderAll

--------------------------------------------------------------------------------
(* What Diff finds                                                            *)

\* Columns and constraints of a snapshot are listed.
Listed(t)   == IsSeq(t.cols) /\ IsSeq(t.cons)
Readable(o) == \A t \in DOMAIN o.tables : Listed(o.tables[t])

\* Changes that leave enums alone.
PlainKinds ==
    {"rename_table", "create_table", "drop_table", "rename_column", "add_column", "drop_column",
     "alter_column_type", "alter_column_nullable", "alter_column_default", "add_constraint",
     "drop_constraint", "create_view", "replace_view", "drop_view"}
PlainChange(c, n)  == c.kind \in PlainKinds /\ (c.kind = "create_table" => c.object \in DOMAIN n.tables)
PlainChanges(s, n) == IsSeq(s) /\ \A c \in ToSet(s) : PlainChange(c, n)

\* Such changes one after the other.
LEMMA PlainConcat ==
    ASSUME NEW n, NEW a, NEW b, PlainChanges(a, n), PlainChanges(b, n)
    PROVE  PlainChanges(a \o b, n)
BY ConcatElements DEF PlainChanges

\* None, and one.
LEMMA PlainSmall ==
    ASSUME NEW n
    PROVE  /\ PlainChanges(<<>>, n)
           /\ \A c : PlainChange(c, n) => PlainChanges(<<c>>, n)
<1>1. PlainChanges(<<>>, n)
  BY SmallSeqs DEF PlainChanges
<1>2. ASSUME NEW c, PlainChange(c, n) PROVE PlainChanges(<<c>>, n)
  <2>1. IsSeq(<<c>>) /\ ToSet(<<c>>) = {c}
    BY SmallSeqs
  <2> QED BY <1>2, <2>1 DEF PlainChanges
<1> QED BY <1>1, <1>2

\* Such changes for every element of a list.
LEMMA PlainFlat ==
    ASSUME NEW n, NEW s, IsSeq(s), NEW ss, ss = [i \in DOMAIN s |-> ss[i]],
           \A i \in DOMAIN s : PlainChanges(ss[i], n)
    PROVE  PlainChanges(FlattenSeq(ss), n)
<1>1. \A i \in DOMAIN s : IsSeq(ss[i])
  BY DEF PlainChanges
<1>2. IsSeq(FlattenSeq(ss)) /\ ToSet(FlattenSeq(ss)) = UNION {ToSet(ss[i]) : i \in DOMAIN s}
  BY <1>1, FlatElements
<1> QED BY <1>2 DEF PlainChanges

\* What changes of a column.
LEMMA DiffColumnPlain ==
    ASSUME NEW n, NEW t, NEW ot, NEW nt
    PROVE  PlainChanges(DiffColumn(t, ot, nt), n)
<1> DEFINE Alter(kind) == <<[kind |-> kind, object |-> t, col |-> nt]>>
           a == When(ot.type # nt.type, Alter("alter_column_type"))
           b == When(ot.notNull # nt.notNull, Alter("alter_column_nullable"))
           c == When(ot.default # nt.default, Alter("alter_column_default"))
<1>1. ASSUME NEW kind \in PlainKinds \ {"create_table"} PROVE PlainChanges(Alter(kind), n)
  BY PlainSmall DEF PlainChange
<1>2. PlainChanges(a, n)
  BY <1>1, PlainSmall DEF When, PlainKinds
<1>3. PlainChanges(b, n)
  BY <1>1, PlainSmall DEF When, PlainKinds
<1>4. PlainChanges(c, n)
  BY <1>1, PlainSmall DEF When, PlainKinds
<1>5. DiffColumn(t, ot, nt) = a \o b \o c
  BY DEF DiffColumn
<1> HIDE DEF a, b, c
<1>6. PlainChanges(a \o b, n)
  BY <1>2, <1>3, PlainConcat
<1> QED BY <1>4, <1>5, <1>6, PlainConcat

\* What changes of a table.
LEMMA DiffTablePlain ==
    ASSUME NEW n, NEW t, NEW ot, NEW nt, NEW r, Listed(ot), Listed(nt)
    PROVE  PlainChanges(DiffTable(t, ot, nt, r), n)
<1> DEFINE oldCons == [i \in DOMAIN ot.cons |->
                        NormalizeConstraintRefs(ot.cons[i], t, ColRenames(ot, nt), r)]
           a == [i \in DOMAIN nt.cols |-> ColumnChanges(t, ot, nt, nt.cols[i])]
           b == [i \in DOMAIN ot.cols |-> DropColumn(t, ot, nt, ot.cols[i])]
           c == [i \in DOMAIN nt.cons |-> When(SameKey(oldCons, nt.cons[i]) = {}, ConAdded(t, nt.cons[i]))]
           d == [i \in DOMAIN oldCons |-> ConstraintChanges(t, nt, oldCons[i])]
<1>1. DiffTable(t, ot, nt, r) = FlattenSeq(a) \o FlattenSeq(b) \o FlattenSeq(c) \o FlattenSeq(d)
  BY DEF DiffTable, FlatMap
<1>2. IsSeq(oldCons)
  <2>1. oldCons = [i \in DOMAIN ot.cons |-> oldCons[i]]
    OBVIOUS
  <2> HIDE DEF oldCons
  <2> QED BY <2>1, MappedSeq DEF Listed
<1> HIDE DEF oldCons
<1>3. ASSUME NEW k PROVE PlainChanges(ConAdded(t, k), n) /\ PlainChanges(ConDropped(t, k), n)
  <2>1. \A kind \in {"add_constraint", "drop_constraint"} :
          PlainChange([kind |-> kind, object |-> t, con |-> k], n)
    BY DEF PlainChange, PlainKinds
  <2> QED BY <2>1, PlainSmall DEF ConAdded, ConDropped
<1>4. ASSUME NEW k PROVE PlainChanges(ColumnChanges(t, ot, nt, k), n)
  <2> DEFINE source == CHOOSE o \in DOMAIN ColRenames(ot, nt) : ColRenames(ot, nt)[o] = k.name
             ren == [kind |-> "rename_column", object |-> t, old |-> source, col |-> k]
             add == [kind |-> "add_column", object |-> t, col |-> k]
  <2>1. PlainChange(ren, n) /\ PlainChange(add, n)
    BY DEF PlainChange, PlainKinds
  <2>2. \/ ColumnChanges(t, ot, nt, k) = DiffColumn(t, ColOf(ot, k.name), k)
        \/ ColumnChanges(t, ot, nt, k) = <<ren>> \o DiffColumn(t, ColOf(ot, source), k)
        \/ ColumnChanges(t, ot, nt, k) = <<add>>
    BY DEF ColumnChanges
  <2> HIDE DEF ren, add, source
  <2>3. PlainChanges(<<ren>>, n) /\ PlainChanges(<<add>>, n)
    BY <2>1, PlainSmall
  <2>4. PlainChanges(<<ren>> \o DiffColumn(t, ColOf(ot, source), k), n)
    BY <2>3, DiffColumnPlain, PlainConcat
  <2> QED BY <2>2, <2>3, <2>4, DiffColumnPlain
<1>5. ASSUME NEW k PROVE PlainChanges(DropColumn(t, ot, nt, k), n)
  <2>1. PlainChange([kind |-> "drop_column", object |-> t, col |-> k], n)
    BY DEF PlainChange, PlainKinds
  <2>2. PlainChanges(<<[kind |-> "drop_column", object |-> t, col |-> k]>>, n)
    BY <2>1, PlainSmall
  <2> QED BY <2>2, PlainSmall DEF DropColumn, When
<1>6. ASSUME NEW k PROVE PlainChanges(ConstraintChanges(t, nt, k), n)
  <2> DEFINE m == nt.cons[Max(SameKey(nt.cons, k))]
  <2>1. PlainChanges(ConDropped(t, k) \o ConAdded(t, m), n)
    BY <1>3, PlainConcat
  <2> QED BY <1>3, <2>1, PlainSmall DEF ConstraintChanges, When
<1>7. \A i \in DOMAIN nt.cols : a[i] = ColumnChanges(t, ot, nt, nt.cols[i])
  OBVIOUS
<1>8. \A i \in DOMAIN ot.cols : b[i] = DropColumn(t, ot, nt, ot.cols[i])
  OBVIOUS
<1>9. \A i \in DOMAIN nt.cons : c[i] = ConAdded(t, nt.cons[i]) \/ c[i] = <<>>
  BY DEF When
<1>10. \A i \in DOMAIN oldCons : d[i] = ConstraintChanges(t, nt, oldCons[i])
  OBVIOUS
<1>11. /\ a = [i \in DOMAIN nt.cols |-> a[i]] /\ b = [i \in DOMAIN ot.cols |-> b[i]]
       /\ c = [i \in DOMAIN nt.cons |-> c[i]] /\ d = [i \in DOMAIN oldCons |-> d[i]]
  OBVIOUS
<1> HIDE DEF a, b, c, d
<1>12. PlainChanges(FlattenSeq(a), n)
  BY <1>4, <1>7, <1>11, PlainFlat DEF Listed
<1>13. PlainChanges(FlattenSeq(b), n)
  BY <1>5, <1>8, <1>11, PlainFlat DEF Listed
<1>14. PlainChanges(FlattenSeq(c), n)
  <2>1. \A i \in DOMAIN nt.cons : PlainChanges(c[i], n)
    BY <1>3, <1>9, PlainSmall
  <2> QED BY <1>11, <2>1, PlainFlat DEF Listed
<1>15. PlainChanges(FlattenSeq(d), n)
  BY <1>2, <1>6, <1>10, <1>11, PlainFlat
<1>16. PlainChanges(FlattenSeq(a) \o FlattenSeq(b), n)
  BY <1>12, <1>13, PlainConcat
<1>17. PlainChanges(FlattenSeq(a) \o FlattenSeq(b) \o FlattenSeq(c), n)
  BY <1>14, <1>16, PlainConcat
<1> QED BY <1>1, <1>15, <1>17, PlainConcat

\* What there is of S in the alphabet, in its order.
LEMMA SortedFacts ==
    ASSUME NEW S
    PROVE  /\ IsSeq(Sorted(S)) /\ ToSet(Sorted(S)) \subseteq S
           /\ S \subseteq ToSet(Alphabet) => ToSet(Sorted(S)) = S
<1>1. IsSeq(Alphabet)
  BY SchemasAssumption DEF IsSeq
<1>2. IsSeq(Sorted(S)) /\ ToSet(Sorted(S)) = ToSet(Alphabet) \cap S
  BY <1>1, OnlyFacts DEF Sorted
<1> QED BY <1>2

\* The first in order is one of them.
LEMMA SortedHead ==
    ASSUME NEW S, S \subseteq ToSet(Alphabet), S # {}
    PROVE  Head(Sorted(S)) \in S
<1>1. IsSeq(Sorted(S)) /\ ToSet(Sorted(S)) = S
  BY SortedFacts
<1>2. Sorted(S) # <<>>
  BY <1>1, SmallSeqs
<1> QED BY <1>1, <1>2, HeadTailElements

\* New tables are created in some order, all of them.
LEMMA OrderedTables ==
    ASSUME NEW names, NEW tables, names \subseteq ToSet(Alphabet)
    PROVE  IsSeq(OrderNewTables(names, tables)) /\ ToSet(OrderNewTables(names, tables)) = names
<1> DEFINE Deps(m) == (References(tables[m]) \cap names) \ {m}
           ready(r) == {m \in names \ ToSet(r) : Deps(m) \subseteq ToSet(r)}
           Take(r) == IF ready(r) = {} THEN r ELSE Append(r, Head(Sorted(ready(r))))
           Good(r) == IsSeq(r) /\ ToSet(r) \subseteq names
           L == Len(Alphabet)
           Def(g, k) == g = [i \in 0..k |-> IF i = 0 THEN <<>> ELSE Take(g[i - 1])]
           S == {k \in Nat : \E g : Def(g, k)}
<1>0. L \in Nat
  BY SchemasAssumption
<1>1. 0 \in S
  <2>1. Def([i \in 0..0 |-> <<>>], 0)
    OBVIOUS
  <2> QED BY <2>1
<1> HIDE DEF Take, L
<1>2. ASSUME NEW k \in Nat, k \in S PROVE k + 1 \in S
  <2>1. PICK g : Def(g, k)
    BY <1>2
  <2> DEFINE h == [i \in 0..(k + 1) |-> IF i = k + 1 THEN Take(g[k]) ELSE g[i]]
  <2>2. ASSUME NEW i \in 0..(k + 1) PROVE h[i] = IF i = 0 THEN <<>> ELSE Take(h[i - 1])
    <3>1. CASE i = k + 1
      <4>1. i - 1 = k /\ k \in 0..(k + 1) /\ k # k + 1 /\ i # 0
        BY <3>1
      <4> QED BY <3>1, <4>1
    <3>2. CASE i # k + 1
      <4>1. i \in 0..k /\ (i # 0 => i - 1 \in 0..k /\ i - 1 # k + 1 /\ i - 1 \in 0..(k + 1))
        BY <3>2
      <4>2. g[i] = IF i = 0 THEN <<>> ELSE Take(g[i - 1])
        BY <2>1, <4>1
      <4> QED BY <3>2, <4>1, <4>2
    <3> QED BY <3>1, <3>2
  <2>3. Def(h, k + 1)
    BY <2>2
  <2>4. \E f : Def(f, k + 1)
    <3> HIDE DEF h, Def
    <3> QED BY <2>3
  <2> QED BY <2>4
<1>3. L \in S
  <2> HIDE DEF S
  <2> QED BY <1>0, <1>1, <1>2, NatSetInduction
<1> DEFINE taken == CHOOSE g : Def(g, L)
<1>4. Def(taken, L)
  <2>1. \E g : Def(g, L)
    BY <1>3
  <2> HIDE DEF Def
  <2> QED BY <2>1
<1>5. OrderNewTables(names, tables) = taken[L] \o Sorted(names \ ToSet(taken[L]))
  BY DEF OrderNewTables, Take, L
<1> HIDE DEF taken
\* Every table taken is one of them.
<1>6. ASSUME NEW r, Good(r) PROVE Good(Take(r))
  <2>1. CASE ready(r) = {}
    BY <1>6, <2>1 DEF Take
  <2>2. CASE ready(r) # {}
    <3>1. Head(Sorted(ready(r))) \in names
      BY <2>2, SortedHead
    <3> DEFINE x == Head(Sorted(ready(r)))
    <3>2. x \in names /\ Take(r) = Append(r, x)
      BY <2>2, <3>1 DEF Take
    <3> HIDE DEF x, ready
    <3> QED BY <1>6, <3>2, AppendElements
  <2> QED BY <2>1, <2>2
<1> DEFINE T == {k \in Nat : k <= L => Good(taken[k])}
<1>7. 0 \in T
  <2>1. taken[0] = <<>>
    BY <1>0, <1>4
  <2> QED BY <2>1, SmallSeqs
<1>8. ASSUME NEW k \in Nat, k \in T PROVE k + 1 \in T
  <2> SUFFICES ASSUME k + 1 <= L PROVE Good(taken[k + 1])
    OBVIOUS
  <2>1. k + 1 \in 0..L /\ k + 1 # 0 /\ (k + 1) - 1 = k /\ k <= L
    BY <1>0
  <2>2. taken[k + 1] = Take(taken[k])
    BY <1>4, <2>1
  <2> QED BY <1>6, <1>8, <2>1, <2>2
<1>9. Good(taken[L])
  <2>1. L \in T
    <3> HIDE DEF T
    <3> QED BY <1>0, <1>7, <1>8, NatSetInduction
  <2> QED BY <1>0, <2>1
<1>10. PICK r : r = taken[L]
  OBVIOUS
<1>11. IsSeq(r) /\ ToSet(r) \subseteq names /\ OrderNewTables(names, tables) = r \o Sorted(names \ ToSet(r))
  BY <1>5, <1>9, <1>10
<1>12. PICK q : q = Sorted(names \ ToSet(r))
  OBVIOUS
<1>13. names \ ToSet(r) \subseteq ToSet(Alphabet)
  OBVIOUS
<1>14. IsSeq(q) /\ ToSet(q) = names \ ToSet(r)
  BY <1>12, <1>13, SortedFacts
<1>15. IsSeq(r \o q) /\ ToSet(r \o q) = ToSet(r) \cup ToSet(q)
  BY <1>11, <1>14, ConcatElements
<1> QED BY <1>11, <1>12, <1>14, <1>15

\* ss has one change for each x of a list s that is in P.
Picks(s, P, f, ss) ==
    /\ IsSeq(s) /\ ss = [i \in DOMAIN s |-> ss[i]]
    /\ \A i \in DOMAIN s : ss[i] = IF s[i] \in P THEN <<f[s[i]]>> ELSE <<>>

\* These changes, one after the other.
LEMMA FlatSome ==
    ASSUME NEW s, NEW P, NEW f, NEW ss, Picks(s, P, f, ss)
    PROVE  /\ IsSeq(FlattenSeq(ss))
           /\ \A y : y \in ToSet(FlattenSeq(ss)) <=> \E x \in ToSet(s) : x \in P /\ y = f[x]
<1>0. /\ IsSeq(s) /\ ss = [i \in DOMAIN s |-> ss[i]]
      /\ \A i \in DOMAIN s : ss[i] = IF s[i] \in P THEN <<f[s[i]]>> ELSE <<>>
  BY DEF Picks
<1>1. ASSUME NEW i \in DOMAIN s
      PROVE  IsSeq(ss[i]) /\ ToSet(ss[i]) = {f[x] : x \in {s[i]} \cap P}
  <2>1. CASE s[i] \in P
    <3>1. ss[i] = <<f[s[i]]>> /\ {f[x] : x \in {s[i]} \cap P} = {f[s[i]]}
      BY <1>0, <2>1
    <3> QED BY <3>1, SmallSeqs
  <2>2. CASE s[i] \notin P
    <3>1. ss[i] = <<>> /\ {f[x] : x \in {s[i]} \cap P} = {}
      BY <1>0, <2>2
    <3> QED BY <3>1, SmallSeqs
  <2> QED BY <2>1, <2>2
<1>2. IsSeq(FlattenSeq(ss)) /\ ToSet(FlattenSeq(ss)) = UNION {ToSet(ss[i]) : i \in DOMAIN s}
  BY <1>0, <1>1, FlatElements
<1>3. UNION {ToSet(ss[i]) : i \in DOMAIN s} = {f[x] : x \in ToSet(s) \cap P}
  BY <1>0, <1>1 DEF ToSet
<1> QED BY <1>2, <1>3

\* The changes of enums.
NewEnum(e, n)       == [kind |-> "create_enum", object |-> e, new |-> n.enums[e]]
OldEnum(e)          == [kind |-> "drop_enum", object |-> e]
LongerEnum(e, o, n) == [kind |-> "alter_enum", object |-> e, old |-> o.enums[e], new |-> n.enums[e]]

\* An enum is created for every name.
LEMMA CreateEnumsFacts ==
    ASSUME NEW n, NEW names
    PROVE  /\ IsSeq(CreateEnums(n, names))
           /\ ToSet(CreateEnums(n, names)) = {NewEnum(e, n) : e \in ToSet(Sorted(names))}
<1> DEFINE s == Sorted(names)
           ss == [i \in DOMAIN s |-> <<[kind |-> "create_enum", object |-> s[i], new |-> n.enums[s[i]]]>>]
           f == [e \in ToSet(s) |-> NewEnum(e, n)]
<1>1. CreateEnums(n, names) = FlattenSeq(ss)
  BY DEF CreateEnums, FlatMap
<1>2. IsSeq(s) /\ \A i \in DOMAIN s : s[i] \in ToSet(s)
  BY SortedFacts, SeqDomain
<1>3. Picks(s, ToSet(s), f, ss)
  BY <1>2 DEF Picks, NewEnum
<1> HIDE DEF s, ss
<1>4. IsSeq(FlattenSeq(ss)) /\ \A y : y \in ToSet(FlattenSeq(ss)) <=> \E x \in ToSet(s) : x \in ToSet(s) /\ y = f[x]
  <2> HIDE DEF f
  <2> QED BY <1>3, FlatSome
<1>5. ToSet(FlattenSeq(ss)) = {NewEnum(e, n) : e \in ToSet(s)}
  BY <1>4
<1> QED BY <1>1, <1>4, <1>5 DEF s

\* An enum is dropped for every name the new schema does not have.
LEMMA DropEnumsFacts ==
    ASSUME NEW o, NEW n
    PROVE  /\ IsSeq(DropEnums(o, n))
           /\ ToSet(DropEnums(o, n)) = {OldEnum(e) : e \in ToSet(Sorted(DOMAIN o.enums \ DOMAIN n.enums))}
<1> DEFINE s == Sorted(DOMAIN o.enums \ DOMAIN n.enums)
           ss == [i \in DOMAIN s |-> <<[kind |-> "drop_enum", object |-> s[i]]>>]
           f == [e \in ToSet(s) |-> OldEnum(e)]
<1>1. DropEnums(o, n) = FlattenSeq(ss)
  BY DEF DropEnums, FlatMap
<1>2. IsSeq(s) /\ \A i \in DOMAIN s : s[i] \in ToSet(s)
  BY SortedFacts, SeqDomain
<1>3. Picks(s, ToSet(s), f, ss)
  BY <1>2 DEF Picks, OldEnum
<1> HIDE DEF s, ss
<1>4. IsSeq(FlattenSeq(ss)) /\ \A y : y \in ToSet(FlattenSeq(ss)) <=> \E x \in ToSet(s) : x \in ToSet(s) /\ y = f[x]
  <2> HIDE DEF f
  <2> QED BY <1>3, FlatSome
<1>5. ToSet(FlattenSeq(ss)) = {OldEnum(e) : e \in ToSet(s)}
  BY <1>4
<1> QED BY <1>1, <1>4, <1>5 DEF s

\* The labels that only the new enum has, with their anchors.
LEMMA AddedValuesFacts ==
    ASSUME NEW o, NEW n, IsSeq(n)
    PROVE  /\ IsSeq(EnumAddedValues(o, n))
           /\ ToSet(EnumAddedValues(o, n)) =
                {EnumAddition(o, n, i) : i \in {j \in DOMAIN n : n[j] \notin ToSet(o)}}
<1> DEFINE ss == [i \in DOMAIN n |-> When(n[i] \notin ToSet(o), <<EnumAddition(o, n, i)>>)]
<1>1. EnumAddedValues(o, n) = FlattenSeq(ss) /\ ss = [i \in DOMAIN n |-> ss[i]]
  BY DEF EnumAddedValues
<1>2. \A i \in DOMAIN n : ss[i] = IF n[i] \notin ToSet(o) THEN <<EnumAddition(o, n, i)>> ELSE <<>>
  BY DEF When
<1> HIDE DEF ss
<1>3. ASSUME NEW i \in DOMAIN n
      PROVE  /\ IsSeq(ss[i])
             /\ n[i] \notin ToSet(o) => ToSet(ss[i]) = {EnumAddition(o, n, i)}
             /\ n[i] \in ToSet(o) => ToSet(ss[i]) = {}
  <2> DEFINE x == EnumAddition(o, n, i)
  <2>1. ss[i] = IF n[i] \notin ToSet(o) THEN <<x>> ELSE <<>>
    BY <1>2
  <2> HIDE DEF x
  <2>2. CASE n[i] \in ToSet(o)
    BY <2>1, <2>2, SmallSeqs
  <2>3. CASE n[i] \notin ToSet(o)
    <3>1. ss[i] = <<x>>
      BY <2>1, <2>3
    <3>2. IsSeq(ss[i]) /\ ToSet(ss[i]) = {x}
      BY <3>1, SmallSeqs
    <3> QED BY <2>3, <3>2 DEF x
  <2> QED BY <2>2, <2>3
<1>4. IsSeq(FlattenSeq(ss)) /\ ToSet(FlattenSeq(ss)) = UNION {ToSet(ss[i]) : i \in DOMAIN n}
  BY <1>1, <1>3, FlatElements
<1>5. UNION {ToSet(ss[i]) : i \in DOMAIN n}
        = {EnumAddition(o, n, i) : i \in {j \in DOMAIN n : n[j] \notin ToSet(o)}}
  BY <1>3
<1> QED BY <1>1, <1>4, <1>5

\* An enum that both schemas have is altered when it gets labels.
LEMMA AlterEnumsFacts ==
    ASSUME NEW o, NEW n, \A e \in DOMAIN n.enums : IsSeq(n.enums[e])
    PROVE  LET both == ToSet(Sorted(DOMAIN n.enums \cap DOMAIN o.enums))
           IN  /\ IsSeq(AlterEnums(o, n))
               /\ ToSet(AlterEnums(o, n)) \subseteq {LongerEnum(e, o, n) : e \in both}
               /\ \A e \in both : ~(ToSet(n.enums[e]) \subseteq ToSet(o.enums[e])) =>
                    LongerEnum(e, o, n) \in ToSet(AlterEnums(o, n))
<1> DEFINE s == Sorted(DOMAIN n.enums \cap DOMAIN o.enums)
           P == {e \in ToSet(s) : \/ EnumAddedValues(o.enums[e], n.enums[e]) # <<>>
                                  \/ EnumDrift(o.enums[e], n.enums[e])}
           ss == [i \in DOMAIN s |-> When(\/ EnumAddedValues(o.enums[s[i]], n.enums[s[i]]) # <<>>
                                          \/ EnumDrift(o.enums[s[i]], n.enums[s[i]]),
                                          <<[kind |-> "alter_enum", object |-> s[i],
                                             old |-> o.enums[s[i]], new |-> n.enums[s[i]]]>>)]
           f == [e \in ToSet(s) |-> LongerEnum(e, o, n)]
<1>1. AlterEnums(o, n) = FlattenSeq(ss)
  BY DEF AlterEnums, FlatMap
<1>2. IsSeq(s) /\ \A i \in DOMAIN s : s[i] \in ToSet(s)
  BY SortedFacts, SeqDomain
<1>3. Picks(s, P, f, ss)
  BY <1>2 DEF Picks, LongerEnum, When
<1>4. \A e \in ToSet(s) : ~(ToSet(n.enums[e]) \subseteq ToSet(o.enums[e])) => e \in P
  <2> SUFFICES ASSUME NEW e \in ToSet(s), NEW v \in ToSet(n.enums[e]), v \notin ToSet(o.enums[e])
               PROVE  EnumAddedValues(o.enums[e], n.enums[e]) # <<>>
    OBVIOUS
  <2>1. e \in DOMAIN n.enums
    BY SortedFacts
  <2>2. PICK i \in DOMAIN n.enums[e] : n.enums[e][i] = v
    BY <2>1, SeqDomain
  <2>3. EnumAddition(o.enums[e], n.enums[e], i) \in ToSet(EnumAddedValues(o.enums[e], n.enums[e]))
    BY <2>1, <2>2, AddedValuesFacts
  <2> QED BY <2>3, SmallSeqs
<1> HIDE DEF s, ss, P
<1>5. IsSeq(FlattenSeq(ss)) /\ \A y : y \in ToSet(FlattenSeq(ss)) <=> \E x \in ToSet(s) : x \in P /\ y = f[x]
  <2> HIDE DEF f
  <2> QED BY <1>3, FlatSome
<1>6. ToSet(FlattenSeq(ss)) = {LongerEnum(e, o, n) : e \in ToSet(s) \cap P}
  BY <1>5
<1> QED BY <1>1, <1>4, <1>5, <1>6 DEF s

\* A snapshot whose names are of the alphabet.
Known(n) == DOMAIN n.tables \cup DOMAIN n.enums \subseteq ToSet(Alphabet)

\* One plain change for every name of a list.
LEMMA PlainList ==
    ASSUME NEW n, NEW s, IsSeq(s), NEW ss, NEW f, ss = [i \in DOMAIN s |-> <<f[i]>>],
           \A i \in DOMAIN s : PlainChange(f[i], n)
    PROVE  PlainChanges(FlattenSeq(ss), n)
<1>1. ss = [i \in DOMAIN s |-> ss[i]] /\ \A i \in DOMAIN s : PlainChanges(ss[i], n)
  BY PlainSmall
<1> QED BY <1>1, PlainFlat

\* Tables that are renamed, created and dropped; views.
LEMMA TablesPlain ==
    ASSUME NEW o, NEW n, Known(n)
    PROVE  /\ PlainChanges(RenameTables(o, n), n)
           /\ PlainChanges(CreateTables(o, n), n)
           /\ PlainChanges(DropTables(o, n), n)
<1>1. PlainChanges(RenameTables(o, n), n)
  <2> DEFINE s == Sorted(RenameTargets(o, n))
             f == [i \in DOMAIN s |-> [kind |-> "rename_table", object |-> RenamedTo(o, n, s[i]), target |-> s[i]]]
             ss == [i \in DOMAIN s |-> <<f[i]>>]
  <2>1. RenameTables(o, n) = FlattenSeq(ss)
    BY DEF RenameTables, FlatMap
  <2>2. \A i \in DOMAIN s : PlainChange(f[i], n)
    BY DEF PlainChange, PlainKinds
  <2>3. IsSeq(s)
    BY SortedFacts
  <2> HIDE DEF s, f
  <2> QED BY <2>1, <2>2, <2>3, PlainList
<1>2. PlainChanges(CreateTables(o, n), n)
  <2> DEFINE names == (DOMAIN n.tables \ DOMAIN o.tables) \ RenameTargets(o, n)
             s == OrderNewTables(names, n.tables)
             f == [i \in DOMAIN s |-> [kind |-> "create_table", object |-> s[i]]]
             ss == [i \in DOMAIN s |-> <<f[i]>>]
  <2>1. CreateTables(o, n) = FlattenSeq(ss)
    BY DEF CreateTables, FlatMap
  <2>2. IsSeq(s) /\ \A i \in DOMAIN s : s[i] \in DOMAIN n.tables
    <3>1. names \subseteq ToSet(Alphabet) /\ names \subseteq DOMAIN n.tables
      BY DEF Known
    <3> HIDE DEF names
    <3> QED BY <3>1, OrderedTables, SeqDomain
  <2>3. \A i \in DOMAIN s : PlainChange(f[i], n)
    BY <2>2 DEF PlainChange, PlainKinds
  <2> HIDE DEF s, f
  <2> QED BY <2>1, <2>2, <2>3, PlainList
<1>3. PlainChanges(DropTables(o, n), n)
  <2> DEFINE s == Sorted(Dropped(o, n))
             f == [i \in DOMAIN s |-> [kind |-> "drop_table", object |-> s[i]]]
             ss == [i \in DOMAIN s |-> <<f[i]>>]
  <2>1. DropTables(o, n) = FlattenSeq(ss)
    BY DEF DropTables, FlatMap
  <2>2. \A i \in DOMAIN s : PlainChange(f[i], n)
    BY DEF PlainChange, PlainKinds
  <2>3. IsSeq(s)
    BY SortedFacts
  <2> HIDE DEF s, f
  <2> QED BY <2>1, <2>2, <2>3, PlainList
<1> QED BY <1>1, <1>2, <1>3

\* Views that are put or dropped.
LEMMA ViewsPlain ==
    ASSUME NEW o, NEW n
    PROVE  /\ \A kind \in {"create_view", "replace_view"} : \A names : PlainChanges(PutViews(kind, n, names), n)
           /\ PlainChanges(DropViews(o, n), n)
<1>1. ASSUME NEW kind \in {"create_view", "replace_view"}, NEW names
      PROVE  PlainChanges(PutViews(kind, n, names), n)
  <2> DEFINE s == Sorted(names)
             f == [i \in DOMAIN s |-> [kind |-> kind, object |-> s[i], view |-> n.views[s[i]]]]
             ss == [i \in DOMAIN s |-> <<f[i]>>]
  <2>1. PutViews(kind, n, names) = FlattenSeq(ss)
    BY DEF PutViews, FlatMap
  <2>2. \A i \in DOMAIN s : PlainChange(f[i], n)
    BY DEF PlainChange, PlainKinds
  <2>3. IsSeq(s)
    BY SortedFacts
  <2> HIDE DEF s, f
  <2> QED BY <2>1, <2>2, <2>3, PlainList
<1>2. PlainChanges(DropViews(o, n), n)
  <2> DEFINE s == Sorted(DOMAIN o.views \ DOMAIN n.views)
             f == [i \in DOMAIN s |-> [kind |-> "drop_view", object |-> s[i]]]
             ss == [i \in DOMAIN s |-> <<f[i]>>]
  <2>1. DropViews(o, n) = FlattenSeq(ss)
    BY DEF DropViews, FlatMap
  <2>2. \A i \in DOMAIN s : PlainChange(f[i], n)
    BY DEF PlainChange, PlainKinds
  <2>3. IsSeq(s)
    BY SortedFacts
  <2> HIDE DEF s, f
  <2> QED BY <2>1, <2>2, <2>3, PlainList
<1> QED BY <1>1, <1>2

\* A renamed table is one of the old and becomes one of the new.
LEMMA RenamesKnown ==
    ASSUME NEW o, NEW n, Known(n)
    PROVE  \A t \in RenameTargets(o, n) : t \in DOMAIN n.tables /\ RenamedTo(o, n, t) \in DOMAIN o.tables
<1> DEFINE r == TableRenames(o, n)
           claims(u) == {m \in DOMAIN n.tables \ DOMAIN o.tables : n.tables[m].prev = u}
<1>1. /\ DOMAIN r = {u \in DOMAIN o.tables \ DOMAIN n.tables : claims(u) # {}}
      /\ \A u \in DOMAIN r : r[u] = Head(Sorted(claims(u)))
  BY DEF TableRenames
<1> HIDE DEF r
<1> SUFFICES ASSUME NEW t \in RenameTargets(o, n)
             PROVE  t \in DOMAIN n.tables /\ RenamedTo(o, n, t) \in DOMAIN o.tables
  OBVIOUS
<1>2. PICK u \in DOMAIN r : t = r[u]
  BY DEF RenameTargets, r
<1>3. t \in claims(u)
  <2>1. claims(u) \subseteq ToSet(Alphabet) /\ claims(u) # {}
    BY <1>1, <1>2 DEF Known
  <2> QED BY <1>1, <1>2, <2>1, SortedHead
<1>4. RenamedTo(o, n, t) \in DOMAIN r
  BY <1>2 DEF RenamedTo, r
<1> QED BY <1>1, <1>3, <1>4

\* What changes inside the tables that stay.
LEMMA AlterTablesPlain ==
    ASSUME NEW o, NEW n, Known(n), Readable(o), Readable(n)
    PROVE  PlainChanges(AlterTables(o, n), n)
<1> DEFINE targets == RenameTargets(o, n)
           s == Sorted((DOMAIN n.tables \cap DOMAIN o.tables) \cup targets)
           was(t) == IF t \in targets THEN RenamedTo(o, n, t) ELSE t
           ss == [i \in DOMAIN s |-> DiffTable(s[i], o.tables[was(s[i])], n.tables[s[i]], TableRenames(o, n))]
<1>1. AlterTables(o, n) = FlattenSeq(ss)
  BY DEF AlterTables, FlatMap
<1>2. IsSeq(s) /\ ToSet(s) \subseteq (DOMAIN n.tables \cap DOMAIN o.tables) \cup targets
  BY SortedFacts
<1>3. ss = [i \in DOMAIN s |-> ss[i]]
  OBVIOUS
<1>4. ASSUME NEW i \in DOMAIN s PROVE PlainChanges(ss[i], n)
  <2> DEFINE t == s[i]
  <2>1. t \in (DOMAIN n.tables \cap DOMAIN o.tables) \cup targets
    BY <1>2, SeqDomain
  <2> HIDE DEF s
  <2>2. ss[i] = DiffTable(t, o.tables[was(t)], n.tables[t], TableRenames(o, n))
    OBVIOUS
  <2> HIDE DEF t, ss
  <2>3. t \in DOMAIN n.tables /\ was(t) \in DOMAIN o.tables
    BY <2>1, RenamesKnown
  <2>4. Listed(o.tables[was(t)]) /\ Listed(n.tables[t])
    BY <2>3 DEF Readable
  <2> QED BY <2>2, <2>4, DiffTablePlain
<1> HIDE DEF s, ss
<1> QED BY <1>1, <1>2, <1>3, <1>4, PlainFlat

\* Four parts more.
LEMMA ConcatFour ==
    ASSUME NEW a, NEW b, NEW c, NEW d, NEW e, IsSeq(a), IsSeq(b), IsSeq(c), IsSeq(d), IsSeq(e)
    PROVE  /\ IsSeq(a \o b \o c \o d \o e)
           /\ ToSet(a \o b \o c \o d \o e) = ToSet(a) \cup ToSet(b) \cup ToSet(c) \cup ToSet(d) \cup ToSet(e)
<1>1. IsSeq(a \o b) /\ ToSet(a \o b) = ToSet(a) \cup ToSet(b)
  BY ConcatElements
<1>2. IsSeq(a \o b \o c) /\ ToSet(a \o b \o c) = ToSet(a \o b) \cup ToSet(c)
  BY <1>1, ConcatElements
<1>3. IsSeq(a \o b \o c \o d) /\ ToSet(a \o b \o c \o d) = ToSet(a \o b \o c) \cup ToSet(d)
  BY <1>2, ConcatElements
<1>4. IsSeq(a \o b \o c \o d \o e) /\ ToSet(a \o b \o c \o d \o e) = ToSet(a \o b \o c \o d) \cup ToSet(e)
  BY <1>3, ConcatElements
<1> QED BY <1>1, <1>2, <1>3, <1>4

\* As many parts as Diff has.
LEMMA ConcatParts ==
    ASSUME NEW p1, NEW p2, NEW p3, NEW p4, NEW p5, NEW p6, NEW p7, NEW p8, NEW p9, NEW p10, NEW p11, NEW p12,
           NEW p13, NEW p14, IsSeq(p1), IsSeq(p2), IsSeq(p3), IsSeq(p4), IsSeq(p5), IsSeq(p6), IsSeq(p7),
           IsSeq(p8), IsSeq(p9), IsSeq(p10), IsSeq(p11), IsSeq(p12), IsSeq(p13), IsSeq(p14)
    PROVE  LET p == p1 \o p2 \o p3 \o p4 \o p5 \o p6 \o p7 \o p8 \o p9 \o p10 \o p11 \o p12 \o p13 \o p14
           IN  /\ IsSeq(p)
               /\ ToSet(p) = ToSet(p1) \cup ToSet(p2) \cup ToSet(p3) \cup ToSet(p4) \cup ToSet(p5)
                             \cup ToSet(p6) \cup ToSet(p7) \cup ToSet(p8) \cup ToSet(p9) \cup ToSet(p10)
                             \cup ToSet(p11) \cup ToSet(p12) \cup ToSet(p13) \cup ToSet(p14)
<1> DEFINE q1 == p1 \o p2 \o p3 \o p4 \o p5
           q2 == q1 \o p6 \o p7 \o p8 \o p9
           q3 == q2 \o p10 \o p11 \o p12 \o p13
           p  == p1 \o p2 \o p3 \o p4 \o p5 \o p6 \o p7 \o p8 \o p9 \o p10 \o p11 \o p12 \o p13 \o p14
<1>1. IsSeq(q1) /\ ToSet(q1) = ToSet(p1) \cup ToSet(p2) \cup ToSet(p3) \cup ToSet(p4) \cup ToSet(p5)
  BY ConcatFour
<1>2. p = q3 \o p14
  OBVIOUS
<1> HIDE DEF q1, p
<1>3. IsSeq(q2) /\ ToSet(q2) = ToSet(q1) \cup ToSet(p6) \cup ToSet(p7) \cup ToSet(p8) \cup ToSet(p9)
  BY <1>1, ConcatFour
<1> HIDE DEF q2
<1>4. IsSeq(q3) /\ ToSet(q3) = ToSet(q2) \cup ToSet(p10) \cup ToSet(p11) \cup ToSet(p12) \cup ToSet(p13)
  BY <1>3, ConcatFour
<1> HIDE DEF q3
<1>5. IsSeq(p) /\ ToSet(p) = ToSet(q3) \cup ToSet(p14)
  BY <1>2, <1>4, ConcatElements
<1> QED BY <1>1, <1>3, <1>4, <1>5 DEF p

\* A change of Diff.
ChangeShape(c, o, n) ==
    \/ PlainChange(c, n)
    \/ \E e \in DOMAIN n.enums \ DOMAIN o.enums : c = NewEnum(e, n)
    \/ \E e \in DOMAIN o.enums \ DOMAIN n.enums : c = OldEnum(e)
    \/ \E e \in DOMAIN o.enums \cap DOMAIN n.enums : c = LongerEnum(e, o, n)

\* Diff lists these changes only; it creates the enums that are new, drops those that
\* are gone and alters those that got a label.
LEMMA DiffFacts ==
    ASSUME NEW o, NEW n, Known(n), DOMAIN o.enums \subseteq ToSet(Alphabet), Readable(o), Readable(n),
           \A e \in DOMAIN n.enums : IsSeq(n.enums[e])
    PROVE  /\ IsSeq(Diff(o, n)) /\ \A c \in ToSet(Diff(o, n)) : ChangeShape(c, o, n)
           /\ \A e \in DOMAIN n.enums \ DOMAIN o.enums : NewEnum(e, n) \in ToSet(Diff(o, n))
           /\ \A e \in DOMAIN o.enums \ DOMAIN n.enums : OldEnum(e) \in ToSet(Diff(o, n))
           /\ \A e \in DOMAIN o.enums \cap DOMAIN n.enums :
                ~(ToSet(n.enums[e]) \subseteq ToSet(o.enums[e])) => LongerEnum(e, o, n) \in ToSet(Diff(o, n))
<1> DEFINE gone     == Dropped(o, n)
           renamed  == DOMAIN TableRenames(o, n)
           newEnums == DOMAIN n.enums \ DOMAIN o.enums
           oldEnums == DOMAIN o.enums \ DOMAIN n.enums
           p1  == CreateEnums(n, newEnums \ (gone \cup renamed))
           p2  == AlterEnums(o, n)
           p3  == RenameTables(o, n)
           p4  == CreateEnums(n, newEnums \cap renamed)
           p5  == CreateTables(o, n)
           p6  == AlterTables(o, n)
           p7  == PutViews("create_view", n, NewViews(o, n) \ gone)
           p8  == PutViews("replace_view", n, ChangedViews(o, n) \ gone)
           p9  == DropViews(o, n)
           p10 == DropTables(o, n)
           p11 == CreateEnums(n, newEnums \cap gone)
           p12 == PutViews("create_view", n, NewViews(o, n) \cap gone)
           p13 == PutViews("replace_view", n, ChangedViews(o, n) \cap gone)
           p14 == DropEnums(o, n)
           Shaped(p) == IsSeq(p) /\ \A c \in ToSet(p) : ChangeShape(c, o, n)
<1>1. Diff(o, n) = p1 \o p2 \o p3 \o p4 \o p5 \o p6 \o p7 \o p8 \o p9 \o p10 \o p11 \o p12 \o p13 \o p14
  BY DEF Diff
<1>2. /\ PlainChanges(p3, n) /\ PlainChanges(p5, n) /\ PlainChanges(p6, n) /\ PlainChanges(p7, n)
      /\ PlainChanges(p8, n) /\ PlainChanges(p9, n) /\ PlainChanges(p10, n) /\ PlainChanges(p12, n)
      /\ PlainChanges(p13, n)
  BY TablesPlain, ViewsPlain, AlterTablesPlain
<1>3. /\ Shaped(p3) /\ Shaped(p5) /\ Shaped(p6) /\ Shaped(p7) /\ Shaped(p8) /\ Shaped(p9)
      /\ Shaped(p10) /\ Shaped(p12) /\ Shaped(p13)
  <2>1. ASSUME NEW p, PlainChanges(p, n) PROVE Shaped(p)
    BY <2>1 DEF PlainChanges, ChangeShape
  <2> HIDE DEF p3, p5, p6, p7, p8, p9, p10, p12, p13, Shaped
  <2> QED BY <1>2, <2>1
<1>4. ASSUME NEW names, names \subseteq newEnums
      PROVE  Shaped(CreateEnums(n, names)) /\ \A e \in names : NewEnum(e, n) \in ToSet(CreateEnums(n, names))
  <2>1. names \subseteq ToSet(Alphabet)
    BY <1>4 DEF Known
  <2>2. IsSeq(CreateEnums(n, names)) /\ ToSet(CreateEnums(n, names)) = {NewEnum(e, n) : e \in names}
    BY <2>1, SortedFacts, CreateEnumsFacts
  <2> QED BY <1>4, <2>2 DEF ChangeShape
<1>5. /\ Shaped(p1) /\ \A e \in newEnums \ (gone \cup renamed) : NewEnum(e, n) \in ToSet(p1)
      /\ Shaped(p4) /\ \A e \in newEnums \cap renamed : NewEnum(e, n) \in ToSet(p4)
      /\ Shaped(p11) /\ \A e \in newEnums \cap gone : NewEnum(e, n) \in ToSet(p11)
  <2> HIDE DEF Shaped, gone, renamed, newEnums
  <2> QED BY <1>4
<1>6. /\ Shaped(p2)
      /\ \A e \in DOMAIN o.enums \cap DOMAIN n.enums :
           ~(ToSet(n.enums[e]) \subseteq ToSet(o.enums[e])) => LongerEnum(e, o, n) \in ToSet(p2)
  <2> DEFINE both == DOMAIN n.enums \cap DOMAIN o.enums
  <2>1. ToSet(Sorted(both)) = both
    <3>1. both \subseteq ToSet(Alphabet)
      BY DEF Known
    <3> QED BY <3>1, SortedFacts
  <2>2. /\ IsSeq(AlterEnums(o, n))
        /\ ToSet(AlterEnums(o, n)) \subseteq {LongerEnum(e, o, n) : e \in ToSet(Sorted(both))}
        /\ \A e \in ToSet(Sorted(both)) : ~(ToSet(n.enums[e]) \subseteq ToSet(o.enums[e])) =>
             LongerEnum(e, o, n) \in ToSet(AlterEnums(o, n))
    BY AlterEnumsFacts
  <2> QED BY <2>1, <2>2 DEF ChangeShape
<1>7. Shaped(p14) /\ \A e \in oldEnums : OldEnum(e) \in ToSet(p14)
  <2>1. ToSet(Sorted(oldEnums)) = oldEnums
    <3>1. oldEnums \subseteq ToSet(Alphabet)
      OBVIOUS
    <3> QED BY <3>1, SortedFacts
  <2>2. IsSeq(p14) /\ ToSet(p14) = {OldEnum(e) : e \in oldEnums}
    BY <2>1, DropEnumsFacts
  <2> QED BY <2>2 DEF ChangeShape
<1>8. newEnums = (newEnums \ (gone \cup renamed)) \cup (newEnums \cap renamed) \cup (newEnums \cap gone)
  OBVIOUS
<1> HIDE DEF gone, renamed, newEnums, oldEnums, p1, p2, p3, p4, p5, p6, p7, p8, p9, p10, p11, p12, p13, p14
<1>13. /\ IsSeq(Diff(o, n))
       /\ ToSet(Diff(o, n)) = ToSet(p1) \cup ToSet(p2) \cup ToSet(p3) \cup ToSet(p4) \cup ToSet(p5)
                              \cup ToSet(p6) \cup ToSet(p7) \cup ToSet(p8) \cup ToSet(p9) \cup ToSet(p10)
                              \cup ToSet(p11) \cup ToSet(p12) \cup ToSet(p13) \cup ToSet(p14)
  BY <1>1, <1>3, <1>5, <1>6, <1>7, ConcatParts
<1>14. \A c \in ToSet(Diff(o, n)) : ChangeShape(c, o, n)
  BY <1>3, <1>5, <1>6, <1>7, <1>13
<1>15. \A e \in newEnums : NewEnum(e, n) \in ToSet(Diff(o, n))
  BY <1>5, <1>8, <1>13
<1>16. \A e \in oldEnums : OldEnum(e) \in ToSet(Diff(o, n))
  BY <1>7, <1>13
<1>17. \A e \in DOMAIN o.enums \cap DOMAIN n.enums :
         ~(ToSet(n.enums[e]) \subseteq ToSet(o.enums[e])) => LongerEnum(e, o, n) \in ToSet(Diff(o, n))
  BY <1>6, <1>13
<1> QED BY <1>13, <1>14, <1>15, <1>16, <1>17 DEF newEnums, oldEnums

--------------------------------------------------------------------------------
(* The statements                                                             *)

\* A statement that leaves enums alone.
PlainStatement(s) ==
    /\ s.op \in Operations \ {"create_type", "add_value", "drop_type"}
    /\ s.op = "create_table" => IsSeq(s.cols) /\ IsSeq(s.cons)
PlainStatements(a) == IsSeq(a) /\ \A s \in ToSet(a) : PlainStatement(s)

\* None, one, and one after the other.
LEMMA PlainStatementsSmall ==
    /\ PlainStatements(<<>>)
    /\ \A s : PlainStatement(s) => PlainStatements(<<s>>)
    /\ \A a, b : PlainStatements(a) /\ PlainStatements(b) => PlainStatements(a \o b)
<1>1. PlainStatements(<<>>)
  BY SmallSeqs DEF PlainStatements
<1>2. ASSUME NEW s, PlainStatement(s) PROVE PlainStatements(<<s>>)
  <2>1. IsSeq(<<s>>) /\ ToSet(<<s>>) = {s}
    BY SmallSeqs
  <2> QED BY <1>2, <2>1 DEF PlainStatements
<1>3. ASSUME NEW a, NEW b, PlainStatements(a), PlainStatements(b) PROVE PlainStatements(a \o b)
  BY <1>3, ConcatElements DEF PlainStatements
<1> QED BY <1>1, <1>2, <1>3

\* A new table with its indexes.
LEMMA CreateTablePlain ==
    ASSUME NEW t, NEW n, Listed(n.tables[t])
    PROVE  PlainStatements(CreateTable(t, n))
<1> DEFINE cons == n.tables[t].cons
           kept == [i \in DOMAIN cons |-> When(cons[i].kind \notin IndexKinds, <<cons[i]>>)]
           idx  == [i \in DOMAIN cons |-> When(cons[i].kind \in IndexKinds, CreateIndex(t, cons[i]))]
           s == [op |-> "create_table", table |-> t, cols |-> n.tables[t].cols, cons |-> FlattenSeq(kept)]
<1>1. CreateTable(t, n) = <<s>> \o FlattenSeq(idx)
  BY DEF CreateTable, FlatMap
<1>2. IsSeq(cons) /\ IsSeq(n.tables[t].cols)
  BY DEF Listed
<1>3. kept = [i \in DOMAIN cons |-> kept[i]] /\ \A i \in DOMAIN cons : IsSeq(kept[i])
  BY SmallSeqs DEF When
<1>4. idx = [i \in DOMAIN cons |-> idx[i]] /\ \A i \in DOMAIN cons : PlainStatements(idx[i])
  <2>1. idx = [i \in DOMAIN cons |-> idx[i]]
    OBVIOUS
  <2>2. ASSUME NEW i \in DOMAIN cons PROVE PlainStatements(idx[i])
    <3> DEFINE c == [op |-> "create_index", table |-> t, con |-> cons[i]]
    <3>1. PlainStatement(c)
      BY DEF PlainStatement, Operations
    <3>2. idx[i] = <<c>> \/ idx[i] = <<>>
      BY DEF When, CreateIndex
    <3> HIDE DEF c, idx
    <3> QED BY <3>1, <3>2, PlainStatementsSmall
  <2> QED BY <2>1, <2>2
<1> HIDE DEF kept, idx
<1>5. IsSeq(FlattenSeq(kept))
  BY <1>2, <1>3, FlatElements
<1>6. PlainStatements(FlattenSeq(idx))
  <2>1. \A i \in DOMAIN cons : IsSeq(idx[i])
    BY <1>4 DEF PlainStatements
  <2>2. IsSeq(FlattenSeq(idx)) /\ ToSet(FlattenSeq(idx)) = UNION {ToSet(idx[i]) : i \in DOMAIN cons}
    BY <1>2, <1>4, <2>1, FlatElements
  <2> QED BY <1>4, <2>2 DEF PlainStatements
<1>7. PlainStatement(s)
  BY <1>2, <1>5 DEF PlainStatement, Operations
<1> HIDE DEF s
<1> QED BY <1>1, <1>6, <1>7, PlainStatementsSmall

\* What a change that leaves enums alone is executed by.
LEMMA GeneratePlain ==
    ASSUME NEW n, NEW c, Readable(n), PlainChange(c, n)
    PROVE  PlainStatements(GenerateChangeSQL(n, c))
<1> DEFINE t == c.object
           drop == [op |-> "drop_view", name |-> t]
           view(r) == [op |-> "create_view", name |-> t, view |-> c.view, replace |-> r]
           column(op) == [op |-> op, table |-> t, col |-> c.col]
<1>1. CASE c.kind = "create_table"
  <2>1. GenerateChangeSQL(n, c) = CreateTable(t, n)
    BY <1>1 DEF GenerateChangeSQL
  <2>2. Listed(n.tables[t])
    BY <1>1 DEF PlainChange, Readable
  <2> QED BY <2>1, <2>2, CreateTablePlain
<1>2. CASE c.kind = "drop_table"
  <2> DEFINE s == [op |-> "drop_table", table |-> t]
  <2>1. GenerateChangeSQL(n, c) = <<s>>
    BY <1>2 DEF GenerateChangeSQL
  <2>2. PlainStatement(s)
    BY DEF PlainStatement, Operations
  <2> QED BY <2>1, <2>2, PlainStatementsSmall
<1>3. CASE c.kind = "rename_table"
  <2> DEFINE s == [op |-> "rename_table", table |-> t, to |-> c.target]
  <2>1. GenerateChangeSQL(n, c) = <<s>>
    BY <1>3 DEF GenerateChangeSQL
  <2>2. PlainStatement(s)
    BY DEF PlainStatement, Operations
  <2> QED BY <2>1, <2>2, PlainStatementsSmall
<1>4. CASE c.kind = "rename_column"
  <2> DEFINE s == [op |-> "rename_column", table |-> t, from |-> c.old, to |-> c.col.name]
  <2>1. GenerateChangeSQL(n, c) = <<s>>
    BY <1>4 DEF GenerateChangeSQL
  <2>2. PlainStatement(s)
    BY DEF PlainStatement, Operations
  <2> QED BY <2>1, <2>2, PlainStatementsSmall
<1>5. CASE c.kind = "add_constraint"
  <2>1. GenerateChangeSQL(n, c) = AddConstraint(t, c.con)
    BY <1>5 DEF GenerateChangeSQL
  <2>2. \A op \in {"create_index", "add_constraint"} : PlainStatement([op |-> op, table |-> t, con |-> c.con])
    BY DEF PlainStatement, Operations
  <2> QED BY <2>1, <2>2, PlainStatementsSmall DEF AddConstraint, CreateIndex, When
<1>6. CASE c.kind = "drop_constraint"
  <2>1. GenerateChangeSQL(n, c) = DropConstraint(t, c.con)
    BY <1>6 DEF GenerateChangeSQL
  <2>2. /\ PlainStatement([op |-> "drop_index", name |-> c.con.name])
        /\ PlainStatement([op |-> "drop_constraint", table |-> t, name |-> c.con.name])
    BY DEF PlainStatement, Operations
  <2> QED BY <2>1, <2>2, PlainStatementsSmall DEF DropConstraint
<1>7. PlainStatement(drop) /\ \A r : PlainStatement(view(r))
  BY DEF PlainStatement, Operations
<1>8. CASE c.kind = "create_view"
  <2>1. GenerateChangeSQL(n, c) = <<view(TRUE)>>
    BY <1>8 DEF GenerateChangeSQL
  <2> HIDE DEF view
  <2> QED BY <1>7, <2>1, PlainStatementsSmall
<1>9. CASE c.kind = "replace_view"
  <2>1. GenerateChangeSQL(n, c) = <<drop>> \o <<view(FALSE)>>
    BY <1>9 DEF GenerateChangeSQL
  <2> HIDE DEF view, drop
  <2> QED BY <1>7, <2>1, PlainStatementsSmall
<1>10. CASE c.kind = "drop_view"
  <2>1. GenerateChangeSQL(n, c) = <<drop>>
    BY <1>10 DEF GenerateChangeSQL
  <2> HIDE DEF drop
  <2> QED BY <1>7, <2>1, PlainStatementsSmall
<1>11. CASE c.kind \in {"add_column", "drop_column", "alter_column_type", "alter_column_nullable",
                        "alter_column_default"}
  <2>1. GenerateChangeSQL(n, c) = <<column(c.kind)>>
    BY <1>11 DEF GenerateChangeSQL
  <2>2. PlainStatement(column(c.kind))
    BY <1>11 DEF PlainStatement, Operations
  <2> QED BY <2>1, <2>2, PlainStatementsSmall
<1> QED BY <1>1, <1>2, <1>3, <1>4, <1>5, <1>6, <1>8, <1>9, <1>10, <1>11 DEF PlainChange, PlainKinds

\* The labels an enum gets, one statement each.
LEMMA AlterEnumFacts ==
    ASSUME NEW e, NEW o, NEW n, IsSeq(n)
    PROVE  /\ IsSeq(AlterEnum(e, o, n))
           /\ \A s \in ToSet(AlterEnum(e, o, n)) :
                /\ s.op = "add_value" /\ s.type = e
                /\ \E i \in DOMAIN n :
                     /\ n[i] \notin ToSet(o) /\ s.value = EnumAddition(o, n, i).value
                     /\ s.after = EnumAddition(o, n, i).after /\ s.before = EnumAddition(o, n, i).before
           /\ \A v \in ToSet(n) \ ToSet(o) : \E s \in ToSet(AlterEnum(e, o, n)) :
                s.op = "add_value" /\ s.type = e /\ s.value = v
<1> DEFINE added == EnumAddedValues(o, n)
           a == AlterEnum(e, o, n)
<1>1. /\ IsSeq(added)
      /\ \A x \in ToSet(added) : \E i \in DOMAIN n : n[i] \notin ToSet(o) /\ x = EnumAddition(o, n, i)
      /\ \A i \in DOMAIN n : n[i] \notin ToSet(o) => EnumAddition(o, n, i) \in ToSet(added)
  BY AddedValuesFacts
<1>2. /\ a = [i \in DOMAIN added |-> a[i]]
      /\ \A i \in DOMAIN added : a[i] = [op |-> "add_value", type |-> e, value |-> added[i].value,
                                         after |-> added[i].after, before |-> added[i].before]
  BY DEF AlterEnum
<1> HIDE DEF added, a
<1>3. IsSeq(a) /\ DOMAIN a = DOMAIN added
  BY <1>1, <1>2, MappedSeq
<1>4. ASSUME NEW s \in ToSet(a)
      PROVE  /\ s.op = "add_value" /\ s.type = e
             /\ \E i \in DOMAIN n :
                  /\ n[i] \notin ToSet(o) /\ s.value = EnumAddition(o, n, i).value
                  /\ s.after = EnumAddition(o, n, i).after /\ s.before = EnumAddition(o, n, i).before
  <2>1. PICK j \in DOMAIN added : a[j] = s
    BY <1>3, SeqDomain
  <2>2. added[j] \in ToSet(added)
    BY <1>1, SeqDomain
  <2>3. PICK i \in DOMAIN n : n[i] \notin ToSet(o) /\ added[j] = EnumAddition(o, n, i)
    BY <1>1, <2>2
  <2>4. s = [op |-> "add_value", type |-> e, value |-> added[j].value,
             after |-> added[j].after, before |-> added[j].before]
    BY <1>2, <2>1
  <2> QED BY <2>3, <2>4
<1>5. ASSUME NEW v \in ToSet(n) \ ToSet(o)
      PROVE  \E s \in ToSet(a) : s.op = "add_value" /\ s.type = e /\ s.value = v
  <2>1. PICK i \in DOMAIN n : n[i] = v
    BY SeqDomain
  <2>2. PICK j \in DOMAIN added : added[j] = EnumAddition(o, n, i)
    BY <1>1, <2>1, SeqDomain
  <2>3. added[j].value = v
    BY <2>1, <2>2 DEF EnumAddition
  <2>4. a[j] \in ToSet(a)
    BY <1>3, SeqDomain
  <2> QED BY <1>2, <2>3, <2>4
<1> QED BY <1>3, <1>4, <1>5 DEF a

\* What the changes of enums are executed by.
LEMMA GenerateEnum ==
    ASSUME NEW o, NEW n, NEW e
    PROVE  /\ GenerateChangeSQL(n, NewEnum(e, n)) = <<[op |-> "create_type", name |-> e, labels |-> n.enums[e]]>>
           /\ GenerateChangeSQL(n, OldEnum(e)) = <<[op |-> "drop_type", name |-> e]>>
           /\ GenerateChangeSQL(n, LongerEnum(e, o, n)) = AlterEnum(e, o.enums[e], n.enums[e])
<1>1. GenerateChangeSQL(n, NewEnum(e, n)) = <<[op |-> "create_type", name |-> e, labels |-> n.enums[e]]>>
  BY DEF GenerateChangeSQL, NewEnum
<1>2. GenerateChangeSQL(n, OldEnum(e)) = <<[op |-> "drop_type", name |-> e]>>
  BY DEF GenerateChangeSQL, OldEnum
<1>3. GenerateChangeSQL(n, LongerEnum(e, o, n)) = AlterEnum(e, o.enums[e], n.enums[e])
  BY DEF GenerateChangeSQL, LongerEnum
<1> QED BY <1>1, <1>2, <1>3

\* The statements of one change.
LEMMA GenerateShape ==
    ASSUME NEW o, NEW n, Readable(n), \A e \in DOMAIN n.enums : IsSeq(n.enums[e]),
           NEW c, ChangeShape(c, o, n)
    PROVE  /\ IsSeq(GenerateChangeSQL(n, c))
           /\ \A s \in ToSet(GenerateChangeSQL(n, c)) : StatementShape(s, o, n)
<1>1. CASE PlainChange(c, n)
  <2>1. PlainStatements(GenerateChangeSQL(n, c))
    BY <1>1, GeneratePlain
  <2> QED BY <2>1 DEF PlainStatements, PlainStatement, StatementShape, Operations
<1>2. ASSUME NEW e \in DOMAIN n.enums \ DOMAIN o.enums, c = NewEnum(e, n)
      PROVE  /\ IsSeq(GenerateChangeSQL(n, c))
             /\ \A s \in ToSet(GenerateChangeSQL(n, c)) : StatementShape(s, o, n)
  <2> DEFINE x == [op |-> "create_type", name |-> e, labels |-> n.enums[e]]
  <2>1. StatementShape(x, o, n)
    BY DEF StatementShape, Operations
  <2>2. GenerateChangeSQL(n, c) = <<x>>
    BY <1>2, GenerateEnum
  <2> HIDE DEF x
  <2> QED BY <2>1, <2>2, SmallSeqs
<1>3. ASSUME NEW e \in DOMAIN o.enums \ DOMAIN n.enums, c = OldEnum(e)
      PROVE  /\ IsSeq(GenerateChangeSQL(n, c))
             /\ \A s \in ToSet(GenerateChangeSQL(n, c)) : StatementShape(s, o, n)
  <2> DEFINE x == [op |-> "drop_type", name |-> e]
  <2>1. StatementShape(x, o, n)
    BY DEF StatementShape, Operations
  <2>2. GenerateChangeSQL(n, c) = <<x>>
    BY <1>3, GenerateEnum
  <2> HIDE DEF x
  <2> QED BY <2>1, <2>2, SmallSeqs
<1>4. ASSUME NEW e \in DOMAIN o.enums \cap DOMAIN n.enums, c = LongerEnum(e, o, n)
      PROVE  /\ IsSeq(GenerateChangeSQL(n, c))
             /\ \A s \in ToSet(GenerateChangeSQL(n, c)) : StatementShape(s, o, n)
  <2>1. GenerateChangeSQL(n, c) = AlterEnum(e, o.enums[e], n.enums[e])
    BY <1>4, GenerateEnum
  <2>2. /\ IsSeq(AlterEnum(e, o.enums[e], n.enums[e]))
        /\ \A s \in ToSet(AlterEnum(e, o.enums[e], n.enums[e])) :
             /\ s.op = "add_value" /\ s.type = e
             /\ \E i \in DOMAIN n.enums[e] :
                  LET x == EnumAddition(o.enums[e], n.enums[e], i)
                  IN  /\ n.enums[e][i] \notin ToSet(o.enums[e]) /\ s.value = x.value
                      /\ s.after = x.after /\ s.before = x.before
    BY AlterEnumFacts
  <2> QED BY <2>1, <2>2 DEF StatementShape, Operations
<1> QED BY <1>1, <1>2, <1>3, <1>4 DEF ChangeShape

\* The statements that lead from schema o to schema n.
LEMMA StatementsFacts ==
    ASSUME NEW o, NEW n, Known(n), DOMAIN o.enums \subseteq ToSet(Alphabet), Readable(o), Readable(n),
           \A e \in DOMAIN n.enums : IsSeq(n.enums[e])
    PROVE  LET a == AllChangeSQL(n, Diff(o, n))
           IN  /\ IsSeq(a) /\ \A s \in ToSet(a) : StatementShape(s, o, n)
               /\ \A e \in DOMAIN n.enums \ DOMAIN o.enums :
                    \E s \in ToSet(a) : s.op = "create_type" /\ s.name = e
               /\ \A e \in DOMAIN o.enums \ DOMAIN n.enums :
                    \E s \in ToSet(a) : s.op = "drop_type" /\ s.name = e
               /\ \A e \in DOMAIN o.enums \cap DOMAIN n.enums : \A v \in ToSet(n.enums[e]) \ ToSet(o.enums[e]) :
                    \E s \in ToSet(a) : s.op = "add_value" /\ s.type = e /\ s.value = v
<1> DEFINE d == Diff(o, n)
           g == [i \in DOMAIN d |-> GenerateChangeSQL(n, d[i])]
           a == AllChangeSQL(n, d)
<1>1. /\ IsSeq(d) /\ \A c \in ToSet(d) : ChangeShape(c, o, n)
      /\ \A e \in DOMAIN n.enums \ DOMAIN o.enums : NewEnum(e, n) \in ToSet(d)
      /\ \A e \in DOMAIN o.enums \ DOMAIN n.enums : OldEnum(e) \in ToSet(d)
      /\ \A e \in DOMAIN o.enums \cap DOMAIN n.enums :
           ~(ToSet(n.enums[e]) \subseteq ToSet(o.enums[e])) => LongerEnum(e, o, n) \in ToSet(d)
  BY DiffFacts
<1>2. a = FlattenSeq(g) /\ g = [i \in DOMAIN d |-> g[i]]
  BY DEF AllChangeSQL, FlatMap
<1>3. \A i \in DOMAIN d : g[i] = GenerateChangeSQL(n, d[i])
  OBVIOUS
<1> HIDE DEF d, g, a
<1>4. \A c \in ToSet(d) : /\ IsSeq(GenerateChangeSQL(n, c))
                          /\ \A s \in ToSet(GenerateChangeSQL(n, c)) : StatementShape(s, o, n)
  BY <1>1, GenerateShape
<1>5. IsSeq(a) /\ ToSet(a) = UNION {ToSet(g[i]) : i \in DOMAIN d}
  <2>1. \A i \in DOMAIN d : IsSeq(g[i])
    BY <1>1, <1>3, <1>4, SeqDomain
  <2> QED BY <1>1, <1>2, <2>1, FlatElements
<1>6. \A s \in ToSet(a) : StatementShape(s, o, n)
  BY <1>1, <1>3, <1>4, <1>5, SeqDomain
<1>7. \A c \in ToSet(d) : \A s : s \in ToSet(GenerateChangeSQL(n, c)) => s \in ToSet(a)
  BY <1>1, <1>3, <1>5, SeqDomain
<1>8. ASSUME NEW e \in DOMAIN n.enums \ DOMAIN o.enums
      PROVE  \E s \in ToSet(a) : s.op = "create_type" /\ s.name = e
  <2> DEFINE x == [op |-> "create_type", name |-> e, labels |-> n.enums[e]]
  <2>1. GenerateChangeSQL(n, NewEnum(e, n)) = <<x>> /\ x.op = "create_type" /\ x.name = e
    BY GenerateEnum
  <2> HIDE DEF x
  <2>2. x \in ToSet(a)
    BY <1>1, <1>7, <2>1, SmallSeqs
  <2> QED BY <2>1, <2>2
<1>9. ASSUME NEW e \in DOMAIN o.enums \ DOMAIN n.enums
      PROVE  \E s \in ToSet(a) : s.op = "drop_type" /\ s.name = e
  <2> DEFINE x == [op |-> "drop_type", name |-> e]
  <2>1. GenerateChangeSQL(n, OldEnum(e)) = <<x>> /\ x.op = "drop_type" /\ x.name = e
    BY GenerateEnum
  <2> HIDE DEF x
  <2>2. x \in ToSet(a)
    BY <1>1, <1>7, <2>1, SmallSeqs
  <2> QED BY <2>1, <2>2
<1>10. ASSUME NEW e \in DOMAIN o.enums \cap DOMAIN n.enums, NEW v \in ToSet(n.enums[e]) \ ToSet(o.enums[e])
       PROVE  \E s \in ToSet(a) : s.op = "add_value" /\ s.type = e /\ s.value = v
  <2>1. LongerEnum(e, o, n) \in ToSet(d)
    BY <1>1
  <2>2. \E s \in ToSet(AlterEnum(e, o.enums[e], n.enums[e])) : s.op = "add_value" /\ s.type = e /\ s.value = v
    BY AlterEnumFacts
  <2> QED BY <1>7, <2>1, <2>2, GenerateEnum
<1> QED BY <1>5, <1>6, <1>8, <1>9, <1>10 DEF a, d

--------------------------------------------------------------------------------
(* What a statement leaves of the catalog                                     *)

ColumnFields == {"name", "type", "notNull", "default", "data"}
\* Columns of a table.
CatalogColumns(cols) ==
    /\ IsSeq(cols) /\ \A i \in DOMAIN cols : DOMAIN cols[i] = ColumnFields
    /\ \A i, j \in DOMAIN cols : cols[i].name = cols[j].name => i = j

\* A table is its columns and constraints.
LEMMA TableParts ==
    ASSUME NEW t
    PROVE  CatalogTable(t) <=> DOMAIN t = {"cols", "cons"} /\ CatalogColumns(t.cols) /\ IsFiniteSet(t.cons)
BY DEF CatalogTable, CatalogColumns, ColumnFields

\* A catalog with another table of the name n.
LEMMA PutTable ==
    ASSUME NEW cat, CatalogShape(cat), NEW n, NEW t, CatalogTable(t)
    PROVE  LET r == [cat EXCEPT !.tables = With(cat.tables, n, t)]
           IN  CatalogShape(r) /\ r.enums = cat.enums
BY DEF CatalogShape, With

\* The columns of a new table.
LEMMA NewColumns ==
    ASSUME NEW cols, IsSeq(cols), \A i, j \in DOMAIN cols : cols[i].name = cols[j].name => i = j,
           NEW d
    PROVE  CatalogColumns([i \in DOMAIN cols |-> Column(cols[i], d[i])])
<1> DEFINE r == [i \in DOMAIN cols |-> Column(cols[i], d[i])]
<1>1. r = [i \in DOMAIN cols |-> r[i]]
  OBVIOUS
<1>2. \A i \in DOMAIN cols : DOMAIN r[i] = ColumnFields /\ r[i].name = cols[i].name
  BY DEF Column, ColumnFields
<1> HIDE DEF r
<1>3. IsSeq(r) /\ DOMAIN r = DOMAIN cols
  BY <1>1, MappedSeq
<1> QED BY <1>2, <1>3 DEF CatalogColumns, r

\* The columns, each with a field changed or not, but not the names.
LEMMA ChangedColumns ==
    ASSUME NEW cols, CatalogColumns(cols), NEW r, r = [i \in DOMAIN cols |-> r[i]],
           \A i \in DOMAIN cols : DOMAIN r[i] = ColumnFields /\ r[i].name = cols[i].name
    PROVE  CatalogColumns(r)
<1>1. IsSeq(r) /\ DOMAIN r = DOMAIN cols
  BY MappedSeq DEF CatalogColumns
<1> QED BY <1>1 DEF CatalogColumns

\* A column more.
LEMMA AddedColumn ==
    ASSUME NEW cols, CatalogColumns(cols), NEW c, NEW data, \A i \in DOMAIN cols : cols[i].name # c.name
    PROVE  CatalogColumns(Append(cols, Column(c, data)))
<1> DEFINE x == Column(c, data)
           r == Append(cols, x)
<1>1. /\ IsSeq(cols) /\ Len(cols) \in Nat /\ DOMAIN cols = 1..Len(cols)
      /\ \A i \in DOMAIN cols : DOMAIN cols[i] = ColumnFields /\ cols[i].name # c.name
      /\ \A i, j \in DOMAIN cols : cols[i].name = cols[j].name => i = j
  BY SeqDomain DEF CatalogColumns
<1>2. DOMAIN x = ColumnFields /\ x.name = c.name
  BY DEF Column, ColumnFields
<1> HIDE DEF x
<1>3. IsSeq(r) /\ DOMAIN r = 1..(Len(cols) + 1) /\ r[Len(cols) + 1] = x /\ \A i \in DOMAIN cols : r[i] = cols[i]
  <2>1. IsSeq(r)
    BY <1>1, AppendElements
  <2> DEFINE A == ToSet(cols) \cup {x}
  <2>2. cols \in Seq(A) /\ x \in A
    BY <1>1, SeqElements
  <2> HIDE DEF A
  <2> QED BY <1>1, <2>1, <2>2
<1> HIDE DEF r
<1>4. \A i \in DOMAIN r : i = Len(cols) + 1 \/ i \in DOMAIN cols
  BY <1>1, <1>3
<1>5. \A i \in DOMAIN r : DOMAIN r[i] = ColumnFields
  BY <1>1, <1>2, <1>3, <1>4
<1>6. ASSUME NEW i \in DOMAIN r, NEW j \in DOMAIN r, r[i].name = r[j].name PROVE i = j
  BY <1>1, <1>2, <1>3, <1>4, <1>6
<1> QED BY <1>3, <1>5, <1>6 DEF CatalogColumns, r, x

\* Some of the columns, in their order.
LEMMA FewerColumns ==
    ASSUME NEW cols, CatalogColumns(cols), NEW ss, ss = [i \in DOMAIN cols |-> ss[i]],
           \A i \in DOMAIN cols : ss[i] = <<>> \/ ss[i] = <<cols[i]>>
    PROVE  CatalogColumns(FlattenSeq(ss))
<1> DEFINE r == FlattenSeq(ss)
<1>1. /\ IsSeq(cols) /\ \A i \in DOMAIN cols : DOMAIN cols[i] = ColumnFields
      /\ \A i, j \in DOMAIN cols : cols[i].name = cols[j].name => i = j
      /\ DOMAIN cols = 1..Len(cols) /\ Len(cols) \in Nat
  BY SeqDomain DEF CatalogColumns
<1>2. \A i \in DOMAIN cols : IsSeq(ss[i]) /\ ToSet(ss[i]) \subseteq {cols[i]}
  <2> SUFFICES ASSUME NEW i \in DOMAIN cols PROVE IsSeq(ss[i]) /\ ToSet(ss[i]) \subseteq {cols[i]}
    OBVIOUS
  <2>1. CASE ss[i] = <<>>
    BY <2>1, SmallSeqs
  <2>2. CASE ss[i] = <<cols[i]>>
    BY <2>2, SmallSeqs
  <2> QED BY <2>1, <2>2
<1>3. IsSeq(r) /\ ToSet(r) = UNION {ToSet(ss[i]) : i \in DOMAIN cols}
  BY <1>1, <1>2, FlatElements
<1>4. \A p, q \in DOMAIN r : p < q => \E i, j \in DOMAIN cols : i < j /\ r[p] = cols[i] /\ r[q] = cols[j]
  <2> SUFFICES ASSUME NEW p \in DOMAIN FlattenSeq(ss), NEW q \in DOMAIN FlattenSeq(ss), p < q
               PROVE  \E i, j \in DOMAIN cols : i < j /\ FlattenSeq(ss)[p] = cols[i] /\ FlattenSeq(ss)[q] = cols[j]
    OBVIOUS
  <2>1. IsSeq(cols)
    BY <1>1
  <2> QED BY <2>1, FlattenOrder
<1> HIDE DEF r
<1>5. DOMAIN r = 1..Len(r) /\ Len(r) \in Nat /\ \A p \in DOMAIN r : \E i \in DOMAIN cols : r[p] = cols[i]
  <2>1. DOMAIN r = 1..Len(r) /\ Len(r) \in Nat /\ \A p \in DOMAIN r : r[p] \in ToSet(r)
    BY <1>3, SeqDomain
  <2>2. \A x \in ToSet(r) : \E i \in DOMAIN cols : x = cols[i]
    BY <1>2, <1>3
  <2> QED BY <2>1, <2>2
<1>6. ASSUME NEW p \in DOMAIN r, NEW q \in DOMAIN r, r[p].name = r[q].name PROVE p = q
  <2>1. CASE p < q
    BY <1>1, <1>4, <1>6, <2>1
  <2>2. CASE q < p
    BY <1>1, <1>4, <1>6, <2>2
  <2> QED BY <1>5, <2>1, <2>2
<1>7. CatalogColumns(r)
  BY <1>1, <1>3, <1>5, <1>6 DEF CatalogColumns
<1> QED BY <1>7 DEF r

\* A column under another name.
LEMMA RenamedColumn ==
    ASSUME NEW cols, CatalogColumns(cols), NEW a, NEW b, \A i \in DOMAIN cols : cols[i].name # b
    PROVE  CatalogColumns([i \in DOMAIN cols |->
                             IF cols[i].name = a THEN [cols[i] EXCEPT !.name = b] ELSE cols[i]])
<1> DEFINE r == [i \in DOMAIN cols |-> IF cols[i].name = a THEN [cols[i] EXCEPT !.name = b] ELSE cols[i]]
<1>1. r = [i \in DOMAIN cols |-> r[i]]
  OBVIOUS
<1>2. \A i \in DOMAIN cols : DOMAIN cols[i] = ColumnFields /\ "name" \in ColumnFields
  BY DEF CatalogColumns, ColumnFields
<1>3. \A i \in DOMAIN cols : /\ DOMAIN r[i] = ColumnFields
                             /\ r[i].name = IF cols[i].name = a THEN b ELSE cols[i].name
  BY <1>2
<1> HIDE DEF r
<1>4. IsSeq(r) /\ DOMAIN r = DOMAIN cols
  BY <1>1, MappedSeq DEF CatalogColumns
<1>5. ASSUME NEW i \in DOMAIN r, NEW j \in DOMAIN r, r[i].name = r[j].name PROVE i = j
  <2>1. cols[i].name = cols[j].name
    BY <1>3, <1>4, <1>5
  <2> QED BY <1>4, <2>1 DEF CatalogColumns
<1> QED BY <1>3, <1>4, <1>5 DEF CatalogColumns, r

\* The foreign keys that columns declare are finitely many.
LEMMA InlineFinite ==
    ASSUME NEW t, NEW cols, IsSeq(cols)
    PROVE  IsFiniteSet(InlineKeys(t, cols))
<1> DEFINE D == {j \in DOMAIN cols : cols[j].ref # <<>>}
           f == [i \in D |-> InlineKey(t, cols[i])]
<1>1. IsFiniteSet(D)
  <2>1. D \in SUBSET DOMAIN cols
    OBVIOUS
  <2> QED BY <2>1, FiniteSeq, FS_Subset
<1>2. InlineKeys(t, cols) = {f[i] : i \in D}
  BY DEF InlineKeys
<1> HIDE DEF D, f
<1> QED BY <1>1, <1>2, FiniteImage

\* What RENAME does to the constraints of all tables keeps their form.
LEMMA MappedConstraints ==
    ASSUME NEW t, CatalogTable(t), NEW f
    PROVE  CatalogTable([t EXCEPT !.cons = {f[c] : c \in t.cons}])
<1> DEFINE S == t.cons
           r == [t EXCEPT !.cons = {f[c] : c \in S}]
<1>1. /\ r.cons = {f[c] : c \in S} /\ DOMAIN r = {"cols", "cons"} /\ r.cols = t.cols
      /\ IsFiniteSet(S)
  BY TableParts
<1> HIDE DEF S, r
<1>2. IsFiniteSet(r.cons)
  BY <1>1, FiniteImage
<1>3. CatalogTable(r)
  BY <1>1, <1>2, TableParts
<1> QED BY <1>3 DEF r, S

\* The operations that give one table other columns or constraints.
TableOperations ==
    {"create_table", "create_index", "add_constraint", "add_column", "drop_column", "alter_column_type",
     "alter_column_nullable", "alter_column_default", "drop_constraint"}

\* One table changes and keeps its form, if the server executes the statement.
LEMMA TableEffect ==
    ASSUME NEW cat, CatalogShape(cat), NEW s, NEW data, s.op \in TableOperations, Allowed(cat, s),
           s.op = "create_table" => IsSeq(s.cols) /\ IsSeq(s.cons)
    PROVE  \/ Effect(cat, s, data) = cat
           \/ \E t : CatalogTable(t) /\ Effect(cat, s, data) = [cat EXCEPT !.tables = With(cat.tables, s.table, t)]
<1> DEFINE own == cat.tables[s.table]
<1>1. CASE s.op = "create_table"
  <2> SUFFICES ASSUME s.table \notin Relations(cat)
               PROVE  \E t : /\ CatalogTable(t)
                             /\ Effect(cat, s, data) = [cat EXCEPT !.tables = With(cat.tables, s.table, t)]
    BY <1>1 DEF Effect
  <2> DEFINE d == [i \in DOMAIN s.cols |-> <<s.table, s.cols[i].name, data>>]
             S == ToSet(s.cons)
             f == [c \in S |-> Stored(c)]
             t == [cols |-> [i \in DOMAIN s.cols |-> Column(s.cols[i], d[i])],
                   cons |-> {f[c] : c \in S} \cup InlineKeys(s.table, s.cols)]
  <2>1. Effect(cat, s, data) = [cat EXCEPT !.tables = With(cat.tables, s.table, t)]
    BY <1>1 DEF Effect
  <2>2. IsSeq(s.cols) /\ IsSeq(s.cons) /\ \A i, j \in DOMAIN s.cols : s.cols[i].name = s.cols[j].name => i = j
    BY <1>1 DEF Allowed
  <2>3. CatalogColumns(t.cols)
    <3> HIDE DEF d
    <3> QED BY <2>2, NewColumns
  <2>4. IsFiniteSet(t.cons)
    <3> DEFINE T == {f[c] : c \in S}
    <3>1. IsFiniteSet(S)
      BY <2>2, FiniteSeq
    <3>2. IsFiniteSet(T)
      <4> HIDE DEF S, f
      <4> QED BY <3>1, FiniteImage
    <3>3. t.cons = T \cup InlineKeys(s.table, s.cols)
      OBVIOUS
    <3> HIDE DEF T, t
    <3> QED BY <2>2, <3>2, <3>3, InlineFinite, FS_Union, ZenonT(60)
  <2>5. DOMAIN t = {"cols", "cons"}
    OBVIOUS
  <2> HIDE DEF t
  <2> QED BY <2>1, <2>3, <2>4, <2>5, TableParts
<1>2. CASE s.op \in {"create_index", "add_constraint"}
  <2> DEFINE t == [own EXCEPT !.cons = @ \cup {Stored(s.con)}]
  <2>1. Effect(cat, s, data) = [cat EXCEPT !.tables = With(cat.tables, s.table, t)]
    BY <1>2 DEF Effect
  <2>2. CatalogTable(own)
    BY <1>2 DEF Allowed, CatalogShape
  <2>3. DOMAIN t = {"cols", "cons"} /\ t.cols = own.cols /\ t.cons = own.cons \cup {Stored(s.con)}
    BY <2>2, TableParts
  <2> HIDE DEF t, own
  <2>4. IsFiniteSet(t.cons)
    BY <2>2, <2>3, TableParts, FS_AddElement
  <2> QED BY <2>1, <2>2, <2>3, <2>4, TableParts
<1>3. CASE s.op = "add_column"
  <2> DEFINE x == <<s.table, s.col.name, data>>
             t == [cols |-> Append(own.cols, Column(s.col, x)),
                   cons |-> own.cons \cup InlineKeys(s.table, <<s.col>>)]
  <2>1. Effect(cat, s, data) = [cat EXCEPT !.tables = With(cat.tables, s.table, t)]
    BY <1>3 DEF Effect
  <2>2. CatalogTable(own) /\ \A i \in DOMAIN own.cols : own.cols[i].name # s.col.name
    BY <1>3 DEF Allowed, CatalogShape, HasColumn, ColNames
  <2> HIDE DEF own, x
  <2>3. CatalogColumns(t.cols)
    BY <2>2, TableParts, AddedColumn
  <2>4. IsFiniteSet(t.cons)
    <3>1. IsFiniteSet(own.cons) /\ IsFiniteSet(InlineKeys(s.table, <<s.col>>))
      BY <2>2, TableParts, SmallSeqs, InlineFinite
    <3> QED BY <3>1, FS_Union
  <2> QED BY <2>1, <2>3, <2>4, TableParts
<1>4. CASE s.op = "drop_column"
  <2> DEFINE cols == own.cols
             ss == [i \in DOMAIN cols |-> When(cols[i].name # s.col.name, <<cols[i]>>)]
             t == [cols |-> FlattenSeq(ss), cons |-> {c \in own.cons : s.col.name \notin ToSet(c.cols)}]
  <2>1. Effect(cat, s, data) = [cat EXCEPT !.tables = With(cat.tables, s.table, t)]
    BY <1>4 DEF Effect, FlatMap
  <2>2. CatalogTable(own)
    BY <1>4 DEF Allowed, CatalogShape, HasColumn
  <2> HIDE DEF own
  <2>3. CatalogColumns(t.cols)
    <3>1. CatalogColumns(cols)
      BY <2>2, TableParts
    <3>2. ss = [i \in DOMAIN cols |-> ss[i]] /\ \A i \in DOMAIN cols : ss[i] = <<>> \/ ss[i] = <<cols[i]>>
      BY DEF When
    <3> HIDE DEF cols, ss
    <3> QED BY <3>1, <3>2, FewerColumns
  <2>4. IsFiniteSet(t.cons)
    <3>1. t.cons \in SUBSET own.cons
      OBVIOUS
    <3> QED BY <2>2, <3>1, TableParts, FS_Subset
  <2> QED BY <2>1, <2>3, <2>4, TableParts
<1>5. ASSUME s.op \in {"alter_column_type", "alter_column_nullable", "alter_column_default"}
      PROVE  \E t : CatalogTable(t) /\ Effect(cat, s, data) = [cat EXCEPT !.tables = With(cat.tables, s.table, t)]
  <2> DEFINE set(c) == CASE s.op = "alter_column_type"     -> [c EXCEPT !.type = s.col.type]
                         [] s.op = "alter_column_nullable" -> [c EXCEPT !.notNull = s.col.notNull]
                         [] s.op = "alter_column_default"  -> [c EXCEPT !.default = s.col.default]
             cols == own.cols
             r == [i \in DOMAIN cols |-> IF cols[i].name = s.col.name THEN set(cols[i]) ELSE cols[i]]
             t == [own EXCEPT !.cols = r]
  <2>1. CatalogTable(own)
    BY <1>5 DEF Allowed, CatalogShape, HasColumn
  <2>2. Effect(cat, s, data) = [cat EXCEPT !.tables = With(cat.tables, s.table, t)]
    BY <1>5 DEF Effect
  <2> HIDE DEF own
  <2>3. CatalogColumns(cols)
    BY <2>1, TableParts
  <2>4. \A i \in DOMAIN cols : DOMAIN r[i] = ColumnFields /\ r[i].name = cols[i].name
    BY <1>5, <2>3 DEF CatalogColumns, ColumnFields
  <2> HIDE DEF set
  <2>5. r = [i \in DOMAIN cols |-> r[i]]
    OBVIOUS
  <2> HIDE DEF r, cols
  <2>6. CatalogColumns(r)
    BY <2>3, <2>4, <2>5, ChangedColumns
  <2>7. DOMAIN t = {"cols", "cons"} /\ t.cols = r /\ t.cons = own.cons
    BY <2>1, TableParts
  <2> QED BY <2>1, <2>2, <2>6, <2>7, TableParts
<1>6. CASE s.op = "drop_constraint"
  <2> DEFINE S == {c \in own.cons : c.name # s.name \/ c.kind \in IndexKinds}
             t == [own EXCEPT !.cons = S]
  <2>1. Effect(cat, s, data) = [cat EXCEPT !.tables = With(cat.tables, s.table, t)]
    BY <1>6 DEF Effect
  <2>2. CatalogTable(own)
    BY <1>6 DEF Allowed, CatalogShape
  <2> HIDE DEF own
  <2>3. DOMAIN t = {"cols", "cons"} /\ t.cols = own.cols /\ t.cons = S
    BY <2>2, TableParts
  <2>4. IsFiniteSet(S)
    <3>1. S \in SUBSET own.cons
      OBVIOUS
    <3> QED BY <2>2, <3>1, TableParts, FS_Subset
  <2> QED BY <2>1, <2>2, <2>3, <2>4, TableParts
<1> QED BY <1>1, <1>2, <1>3, <1>4, <1>5, <1>6 DEF TableOperations

\* A renamed table or column: references follow, tables keep their form.
LEMMA RenameEffect ==
    ASSUME NEW cat, CatalogShape(cat), NEW s, NEW data, s.op \in {"rename_table", "rename_column"},
           Allowed(cat, s)
    PROVE  CatalogShape(Effect(cat, s, data)) /\ Effect(cat, s, data).enums = cat.enums
<1> DEFINE own == cat.tables[s.table]
<1>1. CASE s.op = "rename_table"
  <2> DEFINE base == [cat EXCEPT !.tables = With(Without(@, s.table), s.to, own)]
             To(t) == IF t = s.table THEN s.to ELSE t
             Ref(c) == IF c.kind = "foreign_key" THEN [c EXCEPT !.refCols = @, !.table = To(@)] ELSE c
             tabs == [u \in DOMAIN base.tables |->
                        WithCons(base.tables[u], {Ref(c) : c \in base.tables[u].cons})]
             views == [v \in DOMAIN base.views |->
                         [on |-> To(base.views[v].on), uses |-> ToSet(SetToSeq(base.views[v].uses))]]
             r == Effect(cat, s, data)
  <2>1. CatalogTable(own)
    BY <1>1 DEF Allowed, CatalogShape
  <2>2. CatalogShape(base) /\ base.enums = cat.enums
    <3> HIDE DEF own
    <3> QED BY <2>1 DEF CatalogShape, With, Without
  <2>3. r = [base EXCEPT !.tables = tabs, !.views = views]
    BY <1>1 DEF Effect, RenameRefs
  <2>4. \A u \in DOMAIN base.tables : tabs[u] = [base.tables[u] EXCEPT !.cons = {Ref(c) : c \in base.tables[u].cons}]
    <3> HIDE DEF base, To
    <3>1. ASSUME NEW u \in DOMAIN base.tables
          PROVE  tabs[u] = [base.tables[u] EXCEPT !.cons = {Ref(c) : c \in base.tables[u].cons}]
      BY DEF WithCons
    <3> HIDE DEF tabs, Ref
    <3> QED BY <3>1
  <2>5. DOMAIN tabs = DOMAIN base.tables
    OBVIOUS
  <2> HIDE DEF base, r, tabs, views, Ref
  <2>6. ASSUME NEW u \in DOMAIN base.tables PROVE CatalogTable(tabs[u])
    <3> DEFINE t == base.tables[u]
               S == t.cons
               f == [c \in S |-> Ref(c)]
    <3>1. CatalogTable(t)
      BY <2>2 DEF CatalogShape
    <3>2. {Ref(c) : c \in S} = {f[c] : c \in S}
      OBVIOUS
    <3>3. tabs[u] = [t EXCEPT !.cons = {f[c] : c \in S}]
      BY <2>4, <3>2
    <3> HIDE DEF f, t
    <3> QED BY <3>1, <3>3, MappedConstraints
  <2>7. DOMAIN r = {"tables", "views", "enums", "fresh"} /\ r.tables = tabs /\ r.enums = base.enums
    BY <2>2, <2>3 DEF CatalogShape
  <2> QED BY <2>2, <2>5, <2>6, <2>7 DEF CatalogShape, r
<1>2. CASE s.op = "rename_column"
  <2> DEFINE cols == own.cols
             To(t, cs) == IF t = s.table THEN Swap(cs, s.from, s.to) ELSE cs
             named == [i \in DOMAIN cols |-> IF cols[i].name = s.from THEN [cols[i] EXCEPT !.name = s.to]
                                             ELSE cols[i]]
             g == [c \in own.cons |-> [c EXCEPT !.cols = Swap(@, s.from, s.to)]]
             t == [cols |-> named, cons |-> {[c EXCEPT !.cols = Swap(@, s.from, s.to)] : c \in own.cons}]
             base == [cat EXCEPT !.tables = With(cat.tables, s.table, t)]
             Ref(c) == IF c.kind = "foreign_key" THEN [c EXCEPT !.refCols = To(c.table, @), !.table = @] ELSE c
             tabs == [u \in DOMAIN base.tables |->
                        WithCons(base.tables[u], {Ref(c) : c \in base.tables[u].cons})]
             views == [v \in DOMAIN base.views |->
                         [on |-> base.views[v].on, uses |-> ToSet(To(base.views[v].on, SetToSeq(base.views[v].uses)))]]
             r == Effect(cat, s, data)
  <2>1. CatalogTable(own) /\ \A i \in DOMAIN own.cols : own.cols[i].name # s.to
    BY <1>2 DEF Allowed, CatalogShape, HasColumn, ColNames
  <2>2. CatalogTable(t)
    <3>1. CatalogColumns(named)
      <4>1. CatalogColumns(cols) /\ \A i \in DOMAIN cols : cols[i].name # s.to
        BY <2>1, TableParts
      <4> HIDE DEF cols
      <4> QED BY <4>1, RenamedColumn
    <3>2. IsFiniteSet(t.cons)
      <4> DEFINE S == own.cons
      <4>1. t.cons = {g[c] : c \in S} /\ IsFiniteSet(S)
        BY <2>1, TableParts
      <4> HIDE DEF S, g, t
      <4> QED BY <4>1, FiniteImage
    <3> HIDE DEF named, own
    <3> QED BY <3>1, <3>2, TableParts
  <2>3. CatalogShape(base) /\ base.enums = cat.enums
    <3> HIDE DEF t
    <3> QED BY <2>2, PutTable
  <2>4. r = [base EXCEPT !.tables = tabs, !.views = views]
    BY <1>2 DEF Effect, RenameRefs
  <2>5. \A u \in DOMAIN base.tables : tabs[u] = [base.tables[u] EXCEPT !.cons = {Ref(c) : c \in base.tables[u].cons}]
    <3> HIDE DEF base, To
    <3>1. ASSUME NEW u \in DOMAIN base.tables
          PROVE  tabs[u] = [base.tables[u] EXCEPT !.cons = {Ref(c) : c \in base.tables[u].cons}]
      BY DEF WithCons
    <3> HIDE DEF tabs, Ref
    <3> QED BY <3>1
  <2>6. DOMAIN tabs = DOMAIN base.tables
    OBVIOUS
  <2> HIDE DEF base, r, tabs, views, Ref
  <2>7. ASSUME NEW u \in DOMAIN base.tables PROVE CatalogTable(tabs[u])
    <3> DEFINE tab == base.tables[u]
               S == tab.cons
               f == [c \in S |-> Ref(c)]
    <3>1. CatalogTable(tab)
      BY <2>3 DEF CatalogShape
    <3>2. {Ref(c) : c \in S} = {f[c] : c \in S}
      OBVIOUS
    <3>3. tabs[u] = [tab EXCEPT !.cons = {f[c] : c \in S}]
      BY <2>5, <3>2
    <3> HIDE DEF f, tab
    <3> QED BY <3>1, <3>3, MappedConstraints
  <2>8. DOMAIN r = {"tables", "views", "enums", "fresh"} /\ r.tables = tabs /\ r.enums = base.enums
    BY <2>3, <2>4 DEF CatalogShape
  <2> QED BY <2>3, <2>6, <2>7, <2>8 DEF CatalogShape, r
<1> QED BY <1>1, <1>2

\* Tables and indexes that go, and views.
LEMMA OtherEffect ==
    ASSUME NEW cat, CatalogShape(cat), NEW s, NEW data,
           s.op \in {"drop_table", "drop_index", "create_view", "drop_view"}
    PROVE  CatalogShape(Effect(cat, s, data)) /\ Effect(cat, s, data).enums = cat.enums
<1>1. CASE s.op = "drop_table"
  <2>1. Effect(cat, s, data) = [cat EXCEPT !.tables = Without(@, s.table)]
    BY <1>1 DEF Effect
  <2> QED BY <2>1 DEF CatalogShape, Without
<1>2. CASE s.op = "drop_index"
  <2> DEFINE kept(t) == {c \in cat.tables[t].cons : c.name # s.name \/ c.kind \notin IndexKinds}
             r == Effect(cat, s, data)
             tabs == [t \in DOMAIN cat.tables |-> WithCons(cat.tables[t], kept(t))]
  <2>1. r = [cat EXCEPT !.tables = tabs]
    BY <1>2 DEF Effect
  <2>2. /\ DOMAIN r = DOMAIN cat /\ r.enums = cat.enums /\ DOMAIN r.tables = DOMAIN cat.tables
        /\ \A t \in DOMAIN cat.tables : r.tables[t] = [cat.tables[t] EXCEPT !.cons = kept(t)]
    <3>1. /\ DOMAIN tabs = DOMAIN cat.tables
          /\ \A t \in DOMAIN cat.tables : tabs[t] = [cat.tables[t] EXCEPT !.cons = kept(t)]
      <4>1. ASSUME NEW t \in DOMAIN cat.tables PROVE tabs[t] = [cat.tables[t] EXCEPT !.cons = kept(t)]
        BY DEF WithCons
      <4> HIDE DEF tabs, kept
      <4>2. DOMAIN tabs = DOMAIN cat.tables
        BY DEF tabs
      <4> QED BY <4>1, <4>2
    <3> HIDE DEF r, tabs
    <3>2. DOMAIN r = DOMAIN cat /\ r.enums = cat.enums /\ r.tables = tabs
      BY <2>1 DEF CatalogShape
    <3> QED BY <3>1, <3>2
  <2> HIDE DEF r
  <2>3. ASSUME NEW t \in DOMAIN cat.tables PROVE CatalogTable(r.tables[t])
    <3> DEFINE own == cat.tables[t]
    <3>1. CatalogTable(own) /\ r.tables[t] = [own EXCEPT !.cons = kept(t)]
      BY <2>2 DEF CatalogShape
    <3>2. kept(t) \in SUBSET own.cons
      OBVIOUS
    <3> HIDE DEF own, kept
    <3>3. IsFiniteSet(kept(t))
      BY <3>1, <3>2, TableParts, FS_Subset
    <3> QED BY <3>1, <3>3, TableParts
  <2> QED BY <2>2, <2>3 DEF CatalogShape, r
<1>3. CASE s.op = "create_view"
  <2>1. Effect(cat, s, data) = [cat EXCEPT !.views = With(@, s.name, [on |-> s.view.on, uses |-> s.view.uses])]
    BY <1>3 DEF Effect
  <2> QED BY <2>1 DEF CatalogShape
<1>4. CASE s.op = "drop_view"
  <2>1. Effect(cat, s, data) = [cat EXCEPT !.views = Without(@, s.name)]
    BY <1>4 DEF Effect
  <2> QED BY <2>1 DEF CatalogShape
<1> QED BY <1>1, <1>2, <1>3, <1>4

\* Enums that come, grow and go.
LEMMA EnumEffect ==
    ASSUME NEW cat, CatalogShape(cat), NEW s, NEW data
    PROVE  LET r == Effect(cat, s, data)
           IN  /\ s.op = "create_type" => CatalogShape(r) /\ r.enums = With(cat.enums, s.name, s.labels)
               /\ s.op = "add_value" => /\ CatalogShape(r)
                                        /\ r.enums = With(cat.enums, s.type, InsertLabel(cat.enums[s.type], s))
               /\ s.op = "drop_type" => CatalogShape(r) /\ r.enums = Without(cat.enums, s.name)
<1>1. ASSUME s.op = "create_type"
      PROVE  /\ CatalogShape(Effect(cat, s, data))
             /\ Effect(cat, s, data).enums = With(cat.enums, s.name, s.labels)
  <2>1. Effect(cat, s, data) = [cat EXCEPT !.enums = With(@, s.name, s.labels)]
    BY <1>1 DEF Effect
  <2> QED BY <2>1 DEF CatalogShape
<1>2. ASSUME s.op = "add_value"
      PROVE  /\ CatalogShape(Effect(cat, s, data))
             /\ Effect(cat, s, data).enums = With(cat.enums, s.type, InsertLabel(cat.enums[s.type], s))
  <2>1. Effect(cat, s, data) =
          [cat EXCEPT !.enums = With(@, s.type, InsertLabel(@[s.type], s)),
                      !.fresh = IF s.value \in ToSet(cat.enums[s.type]) THEN @ ELSE @ \cup {<<s.type, s.value>>}]
    BY <1>2 DEF Effect
  <2> QED BY <2>1 DEF CatalogShape
<1>3. ASSUME s.op = "drop_type"
      PROVE  CatalogShape(Effect(cat, s, data)) /\ Effect(cat, s, data).enums = Without(cat.enums, s.name)
  <2>1. Effect(cat, s, data) = [cat EXCEPT !.enums = Without(@, s.name)]
    BY <1>3 DEF Effect
  <2> QED BY <2>1 DEF CatalogShape
<1> QED BY <1>1, <1>2, <1>3

\* What every statement does, if the server executes it.
LEMMA EffectFacts ==
    ASSUME NEW cat, CatalogShape(cat), NEW o, NEW n, NEW s, StatementShape(s, o, n), NEW data, Allowed(cat, s)
    PROVE  LET r == Effect(cat, s, data)
           IN  /\ CatalogShape(r)
               /\ s.op \notin {"create_type", "add_value", "drop_type"} => r.enums = cat.enums
               /\ s.op = "create_type" => r.enums = With(cat.enums, s.name, s.labels)
               /\ s.op = "add_value" => r.enums = With(cat.enums, s.type, InsertLabel(cat.enums[s.type], s))
               /\ s.op = "drop_type" => r.enums = Without(cat.enums, s.name)
<1> DEFINE r == Effect(cat, s, data)
<1>1. CASE s.op \in TableOperations
  <2>1. \/ r = cat
        \/ \E t : CatalogTable(t) /\ r = [cat EXCEPT !.tables = With(cat.tables, s.table, t)]
    BY <1>1, TableEffect DEF StatementShape
  <2> HIDE DEF r
  <2>2. CatalogShape(r) /\ r.enums = cat.enums
    <3>1. ASSUME NEW t, CatalogTable(t), r = [cat EXCEPT !.tables = With(cat.tables, s.table, t)]
          PROVE  CatalogShape(r) /\ r.enums = cat.enums
      BY <3>1, PutTable
    <3> QED BY <2>1, <3>1
  <2> QED BY <1>1, <2>2 DEF TableOperations, r
<1>2. CASE s.op \in {"rename_table", "rename_column"}
  BY <1>2, RenameEffect
<1>3. CASE s.op \in {"drop_table", "drop_index", "create_view", "drop_view"}
  BY <1>3, OtherEffect
<1>4. CASE s.op \in {"create_type", "add_value", "drop_type"}
  BY <1>4, EnumEffect
<1>5. s.op \in TableOperations \cup {"rename_table", "rename_column"}
        \cup {"drop_table", "drop_index", "create_view", "drop_view"} \cup {"create_type", "add_value", "drop_type"}
  BY DEF StatementShape, Operations, TableOperations
<1> QED BY <1>1, <1>2, <1>3, <1>4, <1>5

--------------------------------------------------------------------------------
(* What the migrations diff                                                   *)

\* What is known of a schema of the code.
LEMMA SchemaFacts ==
    ASSUME NEW n \in Schemas
    PROVE  /\ DOMAIN n = {"tables", "views", "enums"} /\ Known(n) /\ Readable(n)
           /\ \A e \in DOMAIN n.enums : Labels(n.enums[e]) /\ n.enums[e] # <<>>
<1>1. SnapshotShape(n)
  BY SchemasAssumption
<1>2. DOMAIN n = {"tables", "views", "enums"} /\ Known(n) /\ Readable(n)
  BY <1>1 DEF SnapshotShape, Known, Readable, Listed, IsSeq
<1>3. ASSUME NEW e \in DOMAIN n.enums PROVE Labels(n.enums[e]) /\ n.enums[e] # <<>>
  <2> DEFINE l == n.enums[e]
  <2>1. /\ l \in Seq(ToSet(l) \ {Blank}) /\ l # <<>>
        /\ \A i, j \in DOMAIN l : l[i] = l[j] => i = j
    BY <1>1 DEF SnapshotShape
  <2> HIDE DEF l
  <2>2. IsSeq(l) /\ ToSet(l) \subseteq ToSet(l) \ {Blank}
    BY <2>1, SeqElements
  <2>3. Labels(l) /\ l # <<>>
    BY <2>1, <2>2 DEF Labels
  <2> QED BY <2>3 DEF l
<1> QED BY <1>2, <1>3

\* The snapshot of a schema has its enums, and can be read.
LEMMA SavedFacts ==
    ASSUME NEW o, SavedSchema(o)
    PROVE  /\ Readable(o) /\ DOMAIN o.enums \subseteq ToSet(Alphabet)
           /\ \A n \in Schemas : o = Saved(n) => o.enums = n.enums
<1>1. CASE o = EmptySnapshot
  <2>1. DOMAIN o.tables = {} /\ DOMAIN o.enums = {} /\ o.enums = <<>>
    BY <1>1 DEF EmptySnapshot
  <2>2. ASSUME NEW n \in Schemas, o = Saved(n) PROVE o.enums = n.enums
    BY <2>2, SchemaFacts DEF Saved
  <2> QED BY <2>1, <2>2 DEF Readable
<1>2. ASSUME NEW n \in Schemas, o = Saved(n)
      PROVE  Readable(o) /\ DOMAIN o.enums \subseteq ToSet(Alphabet) /\ o.enums = n.enums
  <2>1. DOMAIN n = {"tables", "views", "enums"} /\ Known(n) /\ Readable(n)
    BY SchemaFacts
  <2>2. /\ o.enums = n.enums
        /\ DOMAIN o.tables = DOMAIN n.tables
        /\ \A t \in DOMAIN n.tables :
             o.tables[t] = [n.tables[t] EXCEPT !.prev = Blank,
                                               !.cols = [i \in DOMAIN @ |-> [@[i] EXCEPT !.prev = Blank]]]
    BY <1>2, <2>1 DEF Saved
  <2>3. ASSUME NEW t \in DOMAIN n.tables PROVE Listed(o.tables[t])
    <3> DEFINE cols == n.tables[t].cols
               f    == [i \in DOMAIN cols |-> [cols[i] EXCEPT !.prev = Blank]]
    <3>1. DOMAIN n.tables[t] = {"cols", "cons", "prev"} /\ IsSeq(cols) /\ IsSeq(n.tables[t].cons)
      BY SchemasAssumption DEF SnapshotShape, IsSeq
    <3>2. o.tables[t].cols = f /\ o.tables[t].cons = n.tables[t].cons
      BY <2>2, <3>1
    <3>3. f = [i \in DOMAIN cols |-> f[i]]
      OBVIOUS
    <3> HIDE DEF cols, f
    <3>4. IsSeq(f)
      BY <3>1, <3>3, MappedSeq
    <3> QED BY <3>1, <3>2, <3>4 DEF Listed
  <2> QED BY <2>1, <2>2, <2>3 DEF Readable, Known
<1> QED BY <1>1, <1>2 DEF SavedSchema

\* Constraints by their names, if there are finitely many.
LEMMA ByNameListed ==
    ASSUME NEW cons, IsFiniteSet(cons)
    PROVE  IsSeq(ByName(cons))
<1> DEFINE names == SetToSeq({c.name : c \in cons})
           ss    == [i \in DOMAIN names |-> SetToSeq({c \in cons : c.name = names[i]})]
<1>1. ByName(cons) = FlattenSeq(ss)
  BY DEF ByName, FlatMap
<1>2. IsSeq(names)
  <2> DEFINE f == [c \in cons |-> c.name]
             S == {c.name : c \in cons}
  <2>1. S = {f[c] : c \in cons}
    OBVIOUS
  <2> HIDE DEF f, S
  <2>2. IsFiniteSet(S)
    BY <2>1, FiniteImage
  <2>3. IsSeq(SetToSeq(S))
    BY <2>2, ListedSet
  <2> QED BY <2>3 DEF S
<1>3. ASSUME NEW i \in DOMAIN names PROVE IsSeq(ss[i])
  <2> DEFINE S == {c \in cons : c.name = names[i]}
  <2>1. S \in SUBSET cons /\ ss[i] = SetToSeq(S)
    OBVIOUS
  <2> HIDE DEF S, ss
  <2>2. IsFiniteSet(S)
    BY <2>1, FS_Subset
  <2> QED BY <2>1, <2>2, ListedSet
<1>4. ss = [i \in DOMAIN names |-> ss[i]]
  OBVIOUS
<1> HIDE DEF names, ss
<1> QED BY <1>1, <1>2, <1>3, <1>4, FlatElements

\* A table of the catalog, introspected.
LEMMA IntrospectedTable ==
    ASSUME NEW t, CatalogTable(t)
    PROVE  Listed(IntrospectTable(t))
<1> DEFINE Of(kinds) == {c \in t.cons : c.kind \in kinds}
           indexes   == {[c EXCEPT !.kind = IF @ = "index" THEN @ ELSE "unique_index"]
                         : c \in Of(IndexKinds \cup {"unique"})}
           own       == {[c EXCEPT !.cols = <<>>] : c \in Of({"check"})}
           notNulls  == {NotNullCheck(t.cols[i].name) : i \in {j \in DOMAIN t.cols : t.cols[j].notNull}}
           Col(c)    == [name |-> c.name, type |-> c.type, notNull |-> c.notNull,
                         default |-> c.default, ref |-> <<>>, prev |-> Blank]
           f         == [i \in DOMAIN t.cols |-> Col(t.cols[i])]
           r         == IntrospectTable(t)
<1>1. r.cols = f /\ r.cons = ByName(indexes) \o ByName(own \cup notNulls) \o ByName(Of({"foreign_key"}))
  BY DEF IntrospectTable
<1>2. IsSeq(t.cols) /\ IsFiniteSet(t.cons)
  BY DEF CatalogTable
<1>3. \A kinds : IsFiniteSet(Of(kinds))
  <2> SUFFICES ASSUME NEW kinds PROVE IsFiniteSet(Of(kinds))
    OBVIOUS
  <2>1. Of(kinds) \in SUBSET t.cons
    OBVIOUS
  <2> HIDE DEF Of
  <2> QED BY <1>2, <2>1, FS_Subset
<1>4. IsFiniteSet(indexes)
  <2> DEFINE S == Of(IndexKinds \cup {"unique"})
             g == [c \in S |-> [c EXCEPT !.kind = IF @ = "index" THEN @ ELSE "unique_index"]]
  <2>1. indexes = {g[c] : c \in S} /\ IsFiniteSet(S)
    BY <1>3
  <2> HIDE DEF S, g, indexes
  <2> QED BY <2>1, FiniteImage
<1>5. IsFiniteSet(own)
  <2> DEFINE S == Of({"check"})
             g == [c \in S |-> [c EXCEPT !.cols = <<>>]]
  <2>1. own = {g[c] : c \in S} /\ IsFiniteSet(S)
    BY <1>3
  <2> HIDE DEF S, g, own
  <2> QED BY <2>1, FiniteImage
<1>6. IsFiniteSet(notNulls)
  <2> DEFINE S == {j \in DOMAIN t.cols : t.cols[j].notNull}
             g == [i \in S |-> NotNullCheck(t.cols[i].name)]
  <2>1. notNulls = {g[i] : i \in S} /\ S \in SUBSET DOMAIN t.cols
    OBVIOUS
  <2> HIDE DEF S, g, notNulls
  <2>2. IsFiniteSet(S)
    BY <1>2, <2>1, FiniteSeq, FS_Subset
  <2> QED BY <2>1, <2>2, FiniteImage
<1>7. IsSeq(r.cons)
  <2> DEFINE keys == Of({"foreign_key"})
             a == ByName(indexes)
             b == ByName(own \cup notNulls)
             c == ByName(keys)
  <2>1. IsFiniteSet(keys) /\ IsFiniteSet(own \cup notNulls)
    BY <1>3, <1>5, <1>6, FS_Union
  <2>2. r.cons = a \o b \o c
    BY <1>1
  <2> HIDE DEF keys, indexes, own, notNulls
  <2>3. IsSeq(a) /\ IsSeq(b) /\ IsSeq(c)
    BY <1>4, <2>1, ByNameListed
  <2> HIDE DEF a, b, c
  <2>4. IsSeq(a \o b)
    BY <2>3, ConcatElements
  <2> QED BY <2>2, <2>3, <2>4, ConcatElements
<1>8. IsSeq(r.cols)
  <2> DEFINE cols == t.cols
  <2>1. f = [i \in DOMAIN cols |-> f[i]]
    OBVIOUS
  <2> HIDE DEF f, cols
  <2>2. IsSeq(f)
    BY <1>2, <2>1, MappedSeq DEF cols
  <2> QED BY <1>1, <2>2
<1> HIDE DEF r
<1> QED BY <1>7, <1>8 DEF Listed, r

\* The database, introspected: no enums.
LEMMA LiveFacts ==
    ASSUME NEW cat, CatalogShape(cat)
    PROVE  Readable(LiveSnapshot(cat)) /\ DOMAIN LiveSnapshot(cat).enums = {}
<1> DEFINE r == LiveSnapshot(cat)
<1>1. /\ DOMAIN r.tables = DOMAIN cat.tables /\ DOMAIN r.enums = {}
      /\ \A t \in DOMAIN cat.tables : r.tables[t] = IntrospectTable(cat.tables[t])
  BY DEF LiveSnapshot, EmptySnapshot
<1> HIDE DEF r
<1>2. \A t \in DOMAIN cat.tables : Listed(r.tables[t])
  BY <1>1, IntrospectedTable DEF CatalogShape
<1> QED BY <1>1, <1>2 DEF Readable, r

--------------------------------------------------------------------------------
(* The steps of the program                                                   *)

\* A migration starts with statements that lead from the last schema to the new one.
LEMMA StartKeepsInv ==
    ASSUME Inv, status = "idle", NEW target \in Offered, Start(target)
    PROVE  Inv'
<1>1. target \in Schemas /\ (flow = "live" => DOMAIN target.enums = {})
  BY DEF Offered
<1>2. /\ done < MaxMigrations
      /\ new' = target /\ todo' = AllChangeSQL(target, Diff(Baseline, target)) /\ status' = "running"
      /\ UNCHANGED <<flow, saved, catalog, before, done>>
  BY DEF Start
<1>3. /\ Known(target) /\ Readable(target)
      /\ \A e \in DOMAIN target.enums : Labels(target.enums[e])
  BY <1>1, SchemaFacts
<1>4. /\ SavedSchema(saved) /\ CatalogShape(catalog) /\ catalog = before
      /\ flow \in {"snapshot", "live"} /\ (flow = "live" => DOMAIN saved.enums = {})
  BY DEF Inv, Stages, LiveHasNoEnums
<1>5. Readable(Baseline) /\ DOMAIN Baseline.enums \subseteq ToSet(Alphabet)
      /\ (flow = "live" => DOMAIN Baseline.enums = {}) /\ (flow # "live" => Baseline = saved)
  BY <1>4, LiveFacts, SavedFacts DEF Baseline
<1>6. PICK o : o = Baseline
  OBVIOUS
<1>7. /\ IsSeq(todo') /\ \A s \in ToSet(todo') : StatementShape(s, o, target)
      /\ \A e \in DOMAIN target.enums \ DOMAIN o.enums :
           \E s \in ToSet(todo') : s.op = "create_type" /\ s.name = e
      /\ \A e \in DOMAIN o.enums \ DOMAIN target.enums :
           \E s \in ToSet(todo') : s.op = "drop_type" /\ s.name = e
      /\ \A e \in DOMAIN o.enums \cap DOMAIN target.enums : \A v \in ToSet(target.enums[e]) \ ToSet(o.enums[e]) :
           \E s \in ToSet(todo') : s.op = "add_value" /\ s.type = e /\ s.value = v
  <2>1. \A e \in DOMAIN target.enums : IsSeq(target.enums[e])
    BY <1>3 DEF Labels
  <2>2. todo' = AllChangeSQL(target, Diff(o, target)) /\ Readable(o) /\ DOMAIN o.enums \subseteq ToSet(Alphabet)
    BY <1>2, <1>5, <1>6
  <2> QED BY <1>3, <2>1, <2>2, StatementsFacts
<1>8. \/ o = saved
      \/ flow = "live" /\ DOMAIN o.enums = {} /\ DOMAIN saved.enums = {} /\ DOMAIN target.enums = {}
  BY <1>1, <1>4, <1>5, <1>6
<1>9. \A s \in ToSet(todo') : StatementShape(s, saved, target)
  BY <1>7, <1>8 DEF StatementShape
<1>10. TodoShape'
  BY <1>2, <1>7, <1>9 DEF TodoShape
<1>11. EnumsUnderWay'
  <2>1. DOMAIN catalog.enums = DOMAIN saved.enums
    BY <1>4 DEF Inv, EnumsThere
  <2>2. \A e \in DOMAIN saved.enums \ DOMAIN target.enums :
          \E s \in ToSet(todo') : s.op = "drop_type" /\ s.name = e
    BY <1>7, <1>8
  <2>3. \A e \in DOMAIN target.enums \ DOMAIN saved.enums :
          \E s \in ToSet(todo') : s.op = "create_type" /\ s.name = e
    BY <1>7, <1>8
  <2>4. ASSUME NEW e \in DOMAIN target.enums \cap DOMAIN saved.enums
        PROVE  /\ Growing(before.enums[e], saved.enums[e], target.enums[e], catalog.enums[e])
               /\ \A v \in ToSet(target.enums[e]) \ ToSet(catalog.enums[e]) :
                    \E s \in ToSet(todo') : s.op = "add_value" /\ s.type = e /\ s.value = v
    <3>1. Labels(before.enums[e]) /\ ToSet(saved.enums[e]) \subseteq ToSet(catalog.enums[e])
      BY <1>4 DEF Inv, EnumsThere
    <3>2. Growing(before.enums[e], saved.enums[e], target.enums[e], catalog.enums[e])
      BY <1>3, <1>4, <3>1, GrowStart
    <3> QED BY <1>7, <1>8, <3>1, <3>2
  <2>5. \A e \in DOMAIN target.enums \ DOMAIN saved.enums : e \notin DOMAIN catalog.enums
    BY <2>1
  <2>6. \A e \in DOMAIN target.enums \cap DOMAIN saved.enums : e \in DOMAIN catalog.enums
    BY <2>1
  <2> QED BY <1>2, <2>1, <2>2, <2>3, <2>4, <2>5, <2>6 DEF EnumsUnderWay
<1>12. Stages'
  BY <1>1, <1>2 DEF Inv, Stages, LiveHasNoEnums, SavedSchema
<1>13. (CatalogShape(catalog) /\ CatalogShape(before) /\ EnumsThere)'
  BY <1>2 DEF Inv, EnumsThere
<1> QED BY <1>10, <1>11, <1>12, <1>13 DEF Inv

\* A statement runs: what the enums still lack is in the statements that are left.
LEMMA ExecuteKeepsInv ==
    ASSUME Inv, Execute
    PROVE  Inv'
<1> DEFINE s == Head(todo)
<1>1. /\ status = "running" /\ todo # <<>> /\ Allowed(catalog, s)
      /\ catalog' = Effect(catalog, s, done) /\ todo' = Tail(todo)
      /\ UNCHANGED <<flow, saved, new, before, status, done>>
  BY DEF Execute
<1>2. /\ CatalogShape(catalog) /\ CatalogShape(before) /\ TodoShape /\ EnumsThere /\ EnumsUnderWay
      /\ Stages /\ new \in Schemas
  BY <1>1 DEF Inv, Stages
<1>3. s \in ToSet(todo) /\ IsSeq(todo') /\ ToSet(todo) = {s} \cup ToSet(todo')
  BY <1>1, <1>2, HeadTailElements DEF TodoShape
<1>4. StatementShape(s, saved, new)
  BY <1>2, <1>3 DEF TodoShape
<1>5. /\ CatalogShape(catalog')
      /\ s.op \notin {"create_type", "add_value", "drop_type"} => catalog'.enums = catalog.enums
      /\ s.op = "create_type" => catalog'.enums = With(catalog.enums, s.name, s.labels)
      /\ s.op = "add_value" => catalog'.enums = With(catalog.enums, s.type, InsertLabel(catalog.enums[s.type], s))
      /\ s.op = "drop_type" => catalog'.enums = Without(catalog.enums, s.name)
  <2> HIDE DEF s
  <2> QED BY <1>1, <1>2, <1>4, EffectFacts
<1> HIDE DEF s
<1>6. PICK was : was = catalog.enums
  OBVIOUS
<1>7. PICK is : is = catalog'.enums
  OBVIOUS
<1>8. /\ DOMAIN was \subseteq DOMAIN saved.enums \cup DOMAIN new.enums
      /\ \A e \in DOMAIN saved.enums \ DOMAIN new.enums :
           e \in DOMAIN was => \E t \in ToSet(todo) : t.op = "drop_type" /\ t.name = e
      /\ \A e \in DOMAIN new.enums \ DOMAIN saved.enums :
           IF e \in DOMAIN was THEN was[e] = new.enums[e]
           ELSE \E t \in ToSet(todo) : t.op = "create_type" /\ t.name = e
      /\ \A e \in DOMAIN new.enums \cap DOMAIN saved.enums :
           /\ e \in DOMAIN was
           /\ Growing(before.enums[e], saved.enums[e], new.enums[e], was[e])
           /\ \A v \in ToSet(new.enums[e]) \ ToSet(was[e]) :
                \E t \in ToSet(todo) : t.op = "add_value" /\ t.type = e /\ t.value = v
  BY <1>2, <1>6 DEF EnumsUnderWay
<1>9. /\ DOMAIN is \subseteq DOMAIN saved.enums \cup DOMAIN new.enums
      /\ \A e \in DOMAIN saved.enums \ DOMAIN new.enums :
           e \in DOMAIN is => \E t \in ToSet(todo') : t.op = "drop_type" /\ t.name = e
      /\ \A e \in DOMAIN new.enums \ DOMAIN saved.enums :
           IF e \in DOMAIN is THEN is[e] = new.enums[e]
           ELSE \E t \in ToSet(todo') : t.op = "create_type" /\ t.name = e
      /\ \A e \in DOMAIN new.enums \cap DOMAIN saved.enums :
           /\ e \in DOMAIN is
           /\ Growing(before.enums[e], saved.enums[e], new.enums[e], is[e])
           /\ \A v \in ToSet(new.enums[e]) \ ToSet(is[e]) :
                \E t \in ToSet(todo') : t.op = "add_value" /\ t.type = e /\ t.value = v
  <2>1. CASE s.op \notin {"create_type", "add_value", "drop_type"}
    <3>1. is = was /\ \A t \in ToSet(todo) : t.op \in {"create_type", "add_value", "drop_type"} => t \in ToSet(todo')
      BY <1>3, <1>5, <1>6, <1>7, <2>1
    <3> QED BY <1>8, <3>1
  <2>2. CASE s.op = "create_type"
    <3>1. /\ s.name \in DOMAIN new.enums \ DOMAIN saved.enums
          /\ DOMAIN is = DOMAIN was \cup {s.name} /\ is[s.name] = new.enums[s.name]
          /\ \A e \in DOMAIN was : e # s.name => is[e] = was[e]
      BY <1>4, <1>5, <1>6, <1>7, <2>2 DEF StatementShape, With
    <3>2. /\ \A t \in ToSet(todo) : t.op \in {"add_value", "drop_type"} => t \in ToSet(todo')
          /\ \A t \in ToSet(todo) : t.op = "create_type" /\ t.name # s.name => t \in ToSet(todo')
      BY <1>3, <2>2
    <3> QED BY <1>8, <3>1, <3>2
  <2>3. CASE s.op = "drop_type"
    <3>1. /\ s.name \in DOMAIN saved.enums \ DOMAIN new.enums
          /\ DOMAIN is = DOMAIN was \ {s.name} /\ \A e \in DOMAIN is : is[e] = was[e]
      BY <1>4, <1>5, <1>6, <1>7, <2>3 DEF StatementShape, Without
    <3>2. /\ \A t \in ToSet(todo) : t.op \in {"add_value", "create_type"} => t \in ToSet(todo')
          /\ \A t \in ToSet(todo) : t.op = "drop_type" /\ t.name # s.name => t \in ToSet(todo')
      BY <1>3, <2>3
    <3> QED BY <1>8, <3>1, <3>2
  <2>4. CASE s.op = "add_value"
    <3> DEFINE e0 == s.type
    <3>1. e0 \in DOMAIN new.enums \cap DOMAIN saved.enums
      BY <1>4, <2>4 DEF StatementShape
    <3>2. PICK m \in DOMAIN new.enums[e0] :
            /\ new.enums[e0][m] \notin ToSet(saved.enums[e0])
            /\ s.value = EnumAddition(saved.enums[e0], new.enums[e0], m).value
            /\ s.after = EnumAddition(saved.enums[e0], new.enums[e0], m).after
            /\ s.before = EnumAddition(saved.enums[e0], new.enums[e0], m).before
      BY <1>4, <2>4 DEF StatementShape
    <3>3. s.value = new.enums[e0][m]
      BY <3>2 DEF EnumAddition
    <3>4. /\ e0 \in DOMAIN was /\ DOMAIN is = DOMAIN was /\ is[e0] = InsertLabel(was[e0], s)
          /\ \A e \in DOMAIN was : e # e0 => is[e] = was[e]
      <4>1. e0 \in DOMAIN was
        BY <1>8, <3>1
      <4>2. is = With(was, e0, InsertLabel(was[e0], s))
        BY <1>5, <1>6, <1>7, <2>4
      <4> HIDE DEF e0
      <4> QED BY <4>1, <4>2 DEF With
    <3>5. /\ \A t \in ToSet(todo) : t.op \in {"drop_type", "create_type"} => t \in ToSet(todo')
          /\ \A t \in ToSet(todo) : t.op = "add_value" /\ (t.type # e0 \/ t.value # s.value) => t \in ToSet(todo')
      BY <1>3, <2>4
    <3> HIDE DEF e0
    <3>6. Growing(before.enums[e0], saved.enums[e0], new.enums[e0], is[e0])
          /\ ToSet(was[e0]) \cup {s.value} = ToSet(is[e0])
      <4>1. CASE s.value \in ToSet(was[e0])
        <5>1. is[e0] = was[e0]
          BY <3>4, <4>1 DEF InsertLabel
        <5> QED BY <1>8, <3>1, <4>1, <5>1
      <4>2. CASE s.value \notin ToSet(was[e0])
        <5>1. Labels(new.enums[e0])
          BY <1>2, <3>1, SchemaFacts
        <5>2. {s.after, s.before} \subseteq ToSet(was[e0]) \cup {Blank}
          BY <1>1, <1>6, <2>4 DEF Allowed, e0
        <5>3. PICK d, o, n, c : /\ d = before.enums[e0] /\ o = saved.enums[e0]
                                /\ n = new.enums[e0] /\ c = was[e0]
          OBVIOUS
        <5>4. /\ Labels(n) /\ Growing(d, o, n, c) /\ m \in DOMAIN n /\ n[m] \notin ToSet(o) /\ n[m] \notin ToSet(c)
              /\ s.value = EnumAddition(o, n, m).value /\ s.after = EnumAddition(o, n, m).after
              /\ s.before = EnumAddition(o, n, m).before /\ {s.after, s.before} \subseteq ToSet(c) \cup {Blank}
          BY <1>8, <3>1, <3>2, <3>3, <4>2, <5>1, <5>2, <5>3
        <5>5. Growing(d, o, n, InsertLabel(c, s)) /\ ToSet(InsertLabel(c, s)) = ToSet(c) \cup {n[m]}
          BY <5>4, GrowStep
        <5> QED BY <3>3, <3>4, <5>3, <5>5
      <4> QED BY <4>1, <4>2
    <3>7. ASSUME NEW e \in DOMAIN new.enums \cap DOMAIN saved.enums
          PROVE  /\ e \in DOMAIN is
                 /\ Growing(before.enums[e], saved.enums[e], new.enums[e], is[e])
                 /\ \A v \in ToSet(new.enums[e]) \ ToSet(is[e]) :
                      \E t \in ToSet(todo') : t.op = "add_value" /\ t.type = e /\ t.value = v
      <4>1. CASE e = e0
        BY <1>8, <3>1, <3>4, <3>5, <3>6, <4>1
      <4>2. CASE e # e0
        BY <1>8, <3>4, <3>5, <4>2
      <4> QED BY <4>1, <4>2
    <3> QED BY <1>8, <3>1, <3>4, <3>5, <3>7
  <2> QED BY <2>1, <2>2, <2>3, <2>4
<1>10. EnumsUnderWay'
  <2>1. saved' = saved /\ new' = new /\ before' = before /\ catalog'.enums = is
    BY <1>1, <1>7
  <2> QED BY <1>9, <2>1 DEF EnumsUnderWay
<1>11. TodoShape'
  BY <1>1, <1>2, <1>3 DEF TodoShape
<1>12. (Stages /\ CatalogShape(before) /\ EnumsThere)'
  BY <1>1, <1>2 DEF Stages, EnumsThere, LiveHasNoEnums, SavedSchema
<1> QED BY <1>5, <1>10, <1>11, <1>12 DEF Inv

\* A migration is given up.
LEMMA RollbackKeepsInv ==
    ASSUME Inv, Rollback
    PROVE  Inv'
<1>1. /\ catalog' = before /\ new' = saved /\ todo' = <<>> /\ status' = "idle"
      /\ UNCHANGED <<flow, saved, before, done>>
  BY DEF Rollback
<1>2. TodoShape'
  BY <1>1, SmallSeqs DEF TodoShape
<1> QED BY <1>1, <1>2 DEF Inv, Stages, LiveHasNoEnums, SavedSchema, EnumsThere

\* A migration is done: the database has the enums of the snapshot.
LEMMA CommitKeepsInv ==
    ASSUME Inv, Commit
    PROVE  Inv'
<1>1. /\ status = "running" /\ todo = <<>>
      /\ catalog' = [catalog EXCEPT !.fresh = {}] /\ before' = catalog'
      /\ saved' = Saved(new) /\ new' = saved' /\ status' = "idle" /\ done' = done + 1
      /\ UNCHANGED <<flow, todo>>
  BY DEF Commit
<1>2. new \in Schemas /\ CatalogShape(catalog) /\ EnumsThere /\ EnumsUnderWay
  BY <1>1 DEF Inv, Stages
<1>3. SavedSchema(saved') /\ saved'.enums = new.enums
  BY <1>1, <1>2, SavedFacts DEF SavedSchema
<1>4. CatalogShape(catalog') /\ catalog'.enums = catalog.enums
  BY <1>1, <1>2 DEF CatalogShape
<1>5. TodoShape'
  BY <1>1, SmallSeqs DEF TodoShape
<1>6. EnumsThere'
  <2>1. \A x \in ToSet(todo) : FALSE
    BY <1>1, SmallSeqs
  <2>2. DOMAIN catalog.enums = DOMAIN new.enums
    BY <1>2, <2>1 DEF EnumsUnderWay
  <2>3. ASSUME NEW e \in DOMAIN new.enums
        PROVE  Labels(catalog.enums[e]) /\ ToSet(new.enums[e]) \subseteq ToSet(catalog.enums[e])
    <3>1. CASE e \in DOMAIN saved.enums
      BY <1>2, <2>1, <3>1 DEF EnumsUnderWay, Growing
    <3>2. CASE e \notin DOMAIN saved.enums
      <4>1. catalog.enums[e] = new.enums[e]
        BY <1>2, <2>2, <3>2 DEF EnumsUnderWay
      <4> QED BY <1>2, <4>1, SchemaFacts
    <3> QED BY <3>1, <3>2
  <2> QED BY <1>1, <1>3, <1>4, <2>2, <2>3 DEF EnumsThere
<1>7. Stages'
  BY <1>1, <1>3, MigrationsAssumption DEF Inv, Stages, LiveHasNoEnums
<1> QED BY <1>1, <1>4, <1>5, <1>6, <1>7 DEF Inv

\* The invariant holds initially and always.
THEOREM Invariance == Spec => []Inv
<1>1. Init => Inv
  <2> SUFFICES ASSUME Init PROVE Inv
    OBVIOUS
  <2>1. /\ DOMAIN EmptySnapshot.enums = {}
        /\ CatalogShape(EmptyCatalog) /\ DOMAIN EmptyCatalog.enums = {}
    BY DEF EmptySnapshot, EmptyCatalog, CatalogShape
  <2>2. Stages
    BY <2>1, MigrationsAssumption DEF Init, Stages, SavedSchema, LiveHasNoEnums
  <2>3. TodoShape
    BY SmallSeqs DEF Init, TodoShape
  <2>4. EnumsThere
    BY <2>1 DEF Init, EnumsThere
  <2> QED BY <2>1, <2>2, <2>3, <2>4 DEF Init, Inv
<1>2. Inv /\ [Next]_vars => Inv'
  <2> SUFFICES ASSUME Inv, [Next]_vars PROVE Inv'
    OBVIOUS
  <2>1. ASSUME status = "idle", NEW target \in Offered, Start(target) PROVE Inv'
    BY <2>1, StartKeepsInv
  <2>2. CASE Execute
    BY <2>2, ExecuteKeepsInv
  <2>3. CASE Rollback
    BY <2>3, RollbackKeepsInv
  <2>4. CASE Commit
    BY <2>4, CommitKeepsInv
  <2>5. CASE UNCHANGED vars
    <3>1. /\ flow' = flow /\ saved' = saved /\ new' = new /\ catalog' = catalog /\ before' = before
          /\ todo' = todo /\ status' = status /\ done' = done
      BY <2>5 DEF vars
    <3>2. Stages' /\ TodoShape' /\ EnumsThere'
      BY <3>1 DEF Inv, Stages, LiveHasNoEnums, SavedSchema, TodoShape, EnumsThere
    <3>3. EnumsUnderWay' <=> EnumsUnderWay
      BY <3>1 DEF EnumsUnderWay
    <3> QED BY <3>1, <3>2, <3>3 DEF Inv
  <2> QED BY <2>1, <2>2, <2>3, <2>4, <2>5 DEF Next
<1> QED BY <1>1, <1>2, PTL DEF Spec

--------------------------------------------------------------------------------
(* What follows                                                               *)

\* Whatever the schemas and the order they come in, a table of the database never gets two
\* columns of one name, and statements wait only in an open transaction.
\* (kit.Diff, kit.AllChangeSQL, the transaction of the caller)
THEOREM TypeCorrect == Spec => []TypeOK
<1>1. Inv => TypeOK
  <2> SUFFICES ASSUME Inv PROVE TypeOK
    OBVIOUS
  <2>1. Stages /\ CatalogShape(catalog)
    BY DEF Inv
  <2>2. /\ saved \in {EmptySnapshot} \cup {Saved(s) : s \in Schemas}
        /\ new \in {EmptySnapshot} \cup Schemas \cup {Saved(s) : s \in Schemas}
    BY <2>1 DEF Stages, SavedSchema
  <2>3. \A t \in DOMAIN catalog.tables : \A i, j \in DOMAIN catalog.tables[t].cols :
          i # j => catalog.tables[t].cols[i].name # catalog.tables[t].cols[j].name
    BY <2>1 DEF CatalogShape, CatalogTable
  <2> QED BY <2>1, <2>2, <2>3 DEF TypeOK, Stages
<1> QED BY <1>1, Invariance, PTL

\* Whatever the schemas, and with however many migrations before: when the statements of one
\* have run the database has the enums of the code, each with all its labels, in their order
\* unless labels were given up or reordered, or a new first one met labels that the database
\* had to keep.  (enumAddedValues, generateChangeSQL)
THEOREM EnumsEnd == Spec => []EnumsConverge
<1>1. Inv => EnumsConverge
  <2> SUFFICES ASSUME Inv, status = "running", todo = <<>>
               PROVE  /\ DOMAIN catalog.enums = DOMAIN new.enums
                      /\ \A e \in DOMAIN new.enums :
                           /\ ToSet(new.enums[e]) \subseteq ToSet(catalog.enums[e])
                           /\ \/ catalog.enums[e] = new.enums[e]
                              \/ /\ e \in DOMAIN before.enums
                                 /\ \/ EnumDrift(before.enums[e], new.enums[e])
                                    \/ new.enums[e][1] \notin ToSet(before.enums[e]) /\ Leftover(e) # {}
    BY DEF EnumsConverge
  <2>1. /\ EnumsUnderWay /\ DOMAIN before.enums = DOMAIN saved.enums
        /\ \A e \in DOMAIN new.enums : Labels(new.enums[e])
    BY SchemaFacts DEF Inv, Stages, EnumsThere
  <2>2. \A x \in ToSet(todo) : FALSE
    BY SmallSeqs
  <2>3. DOMAIN catalog.enums = DOMAIN new.enums
    BY <2>1, <2>2 DEF EnumsUnderWay
  <2>4. ASSUME NEW e \in DOMAIN new.enums \ DOMAIN saved.enums PROVE catalog.enums[e] = new.enums[e]
    BY <2>1, <2>2 DEF EnumsUnderWay
  <2>5. ASSUME NEW e \in DOMAIN new.enums \cap DOMAIN saved.enums
        PROVE  /\ ToSet(new.enums[e]) \subseteq ToSet(catalog.enums[e])
               /\ \/ catalog.enums[e] = new.enums[e]
                  \/ EnumDrift(before.enums[e], new.enums[e])
                  \/ new.enums[e][1] \notin ToSet(before.enums[e]) /\ Leftover(e) # {}
    <3>1. PICK d, o, n, c : /\ d = before.enums[e] /\ o = saved.enums[e]
                            /\ n = new.enums[e] /\ c = catalog.enums[e]
      OBVIOUS
    <3>2. Labels(n) /\ Growing(d, o, n, c) /\ ToSet(n) \subseteq ToSet(c)
      BY <2>1, <2>2, <3>1 DEF EnumsUnderWay
    <3>3. \/ c = n
          \/ EnumDrift(d, n)
          \/ n[1] \notin ToSet(d) /\ ToSet(d) \ ToSet(o) # {}
      BY <3>2, GrowEnd
    <3> QED BY <3>1, <3>2, <3>3 DEF Leftover
  <2> QED BY <2>1, <2>3, <2>4, <2>5
<1> QED BY <1>1, Invariance, PTL

================================================================================
