------------------------------ MODULE SequenceLemmas ------------------------------
(***************************************************************************)
(* Facts about numbers and sequences that the proofs of several components  *)
(* use: induction over the natural numbers, what a concatenation and a      *)
(* flattened sequence of sequences consist of, and in which order.          *)
(*                                                                         *)
(* The induction theorems of the library are about an arbitrary operator;   *)
(* NatSetInduction says the same of a set, which is first-order.            *)
(***************************************************************************)
EXTENDS Naturals, Sequences, SequencesExt, FiniteSets, TLAPS, FiniteSetTheorems

\* Induction over the natural numbers, for a set: it has no least number outside.
LEMMA NatSetInduction ==
    ASSUME NEW S, 0 \in S, \A n \in Nat : n \in S => n + 1 \in S
    PROVE  \A n \in Nat : n \in S
<1> DEFINE R == {ss \in Nat \X Nat : ss[1] < ss[2]}
           T == Nat \ S
<1>1. IsWellFoundedOn(R, Nat)
  BY NatLessThanWellFounded DEF OpToRel
<1>2. SUFFICES ASSUME T # {} PROVE FALSE
  OBVIOUS
<1>3. PICK x \in T : \A y \in T : ~(<<y, x>> \in R)
  <2> HIDE DEF R
  <2> QED BY <1>1, <1>2, WFMin
<1>4. x \in Nat /\ x # 0 /\ x - 1 \in Nat /\ x - 1 < x /\ (x - 1) + 1 = x
  BY <1>3
<1>5. <<x - 1, x>> \in R
  BY <1>4
<1>6. x - 1 \in S
  BY <1>3, <1>4, <1>5
<1> QED BY <1>3, <1>4, <1>6

\* A place among the first n + 1 is among the first n or is the last.
LEMMA EarlierOrLast ==
    ASSUME NEW n \in Nat, NEW i \in 1..(n + 1)
    PROVE  i \in 1..n \/ i = n + 1
OBVIOUS

\* A sequence without its first element.
LEMMA TailFacts ==
    ASSUME NEW A, NEW a \in Seq(A), a # <<>>
    PROVE  /\ Len(a) \in Nat /\ Len(a) # 0 /\ Len(Tail(a)) = Len(a) - 1
           /\ Head(a) = a[1] /\ 1 \in 1..Len(a)
           /\ \A i \in 1..Len(Tail(a)) : Tail(a)[i] = a[i + 1] /\ i + 1 \in 1..Len(a)
OBVIOUS

\* A set of natural numbers has a least one.
LEMMA LeastNumber ==
    ASSUME NEW S, S \subseteq Nat, NEW x \in S
    PROVE  \E y \in S : \A j \in S : y <= j
<1> DEFINE U == {n \in Nat : \A j \in S : n <= j}
<1>1. SUFFICES ASSUME \A y \in S : y \notin U PROVE FALSE
  OBVIOUS
<1>2. 0 \in U
  OBVIOUS
<1>3. ASSUME NEW n \in Nat, n \in U PROVE n + 1 \in U
  BY <1>1, <1>3
<1>4. x + 1 \in U
  <2> HIDE DEF U
  <2> QED BY <1>2, <1>3, NatSetInduction
<1> QED BY <1>4

--------------------------------------------------------------------------------
(* Sequences and their elements                                              *)

\* A sequence, whatever it is of.
IsSeq(s) == s \in Seq(ToSet(s))

\* To be a sequence of elements of A is to be a sequence and to have elements of A only.
LEMMA SeqElements ==
    ASSUME NEW s, NEW A
    PROVE  s \in Seq(A) <=> IsSeq(s) /\ ToSet(s) \subseteq A
<1>1. ASSUME s \in Seq(A) PROVE IsSeq(s) /\ ToSet(s) \subseteq A
  <2>1. ToSet(s) \subseteq A
    BY <1>1 DEF ToSet
  <2>2. \A i \in 1..Len(s) : s[i] \in ToSet(s)
    BY <1>1 DEF ToSet
  <2> HIDE DEF ToSet
  <2>3. s \in Seq(ToSet(s))
    BY <1>1, <2>2
  <2> QED BY <2>1, <2>3 DEF IsSeq
<1>2. ASSUME IsSeq(s), ToSet(s) \subseteq A PROVE s \in Seq(A)
  BY <1>2 DEF IsSeq
<1> QED BY <1>1, <1>2

\* A sequence by its length and its elements.
LEMMA SeqDomain ==
    ASSUME NEW s, IsSeq(s)
    PROVE  /\ Len(s) \in Nat /\ DOMAIN s = 1..Len(s)
           /\ \A i \in DOMAIN s : s[i] \in ToSet(s)
           /\ \A x \in ToSet(s) : \E i \in DOMAIN s : s[i] = x
BY DEF IsSeq, ToSet

\* The empty sequence, and one element.
LEMMA SmallSeqs ==
    /\ IsSeq(<<>>) /\ ToSet(<<>>) = {}
    /\ \A x : IsSeq(<<x>>) /\ ToSet(<<x>>) = {x}
BY DEF IsSeq, ToSet

\* The parts of a concatenation.
LEMMA ConcatElements ==
    ASSUME NEW a, NEW b, IsSeq(a), IsSeq(b)
    PROVE  IsSeq(a \o b) /\ ToSet(a \o b) = ToSet(a) \cup ToSet(b)
<1> DEFINE A == ToSet(a) \cup ToSet(b)
<1>0. a \in Seq(A) /\ b \in Seq(A)
  BY SeqElements
<1> HIDE DEF A
<1>1. ToSet(a) \subseteq ToSet(a \o b)
  <2>1. ASSUME NEW k \in DOMAIN a PROVE k \in DOMAIN (a \o b) /\ (a \o b)[k] = a[k]
    BY <1>0
  <2> QED BY <2>1 DEF ToSet
<1>2. ToSet(b) \subseteq ToSet(a \o b)
  <2>1. ASSUME NEW k \in DOMAIN b
        PROVE  k + Len(a) \in DOMAIN (a \o b) /\ (a \o b)[k + Len(a)] = b[k]
    BY <1>0
  <2> QED BY <2>1 DEF ToSet
<1>3. a \o b \in Seq(A)
  BY <1>0
<1> QED BY <1>1, <1>2, <1>3, SeqElements DEF A

\* To append nothing, or one element.
LEMMA ConcatSmall ==
    ASSUME NEW A, NEW r \in Seq(A), NEW x
    PROVE  r \o <<>> = r /\ r \o <<x>> = Append(r, x)
OBVIOUS

\* A sequence that is appended to, and one without its first element.
LEMMA AppendElements ==
    ASSUME NEW s, NEW x, IsSeq(s)
    PROVE  IsSeq(Append(s, x)) /\ ToSet(Append(s, x)) = ToSet(s) \cup {x}
<1>1. Append(s, x) = s \o <<x>>
  BY DEF IsSeq
<1> QED BY <1>1, SmallSeqs, ConcatElements

\* The first element and the others are all there is.
LEMMA HeadTailElements ==
    ASSUME NEW s, IsSeq(s), s # <<>>
    PROVE  /\ Head(s) \in ToSet(s) /\ IsSeq(Tail(s))
           /\ ToSet(s) = {Head(s)} \cup ToSet(Tail(s))
<1>1. s = <<Head(s)>> \o Tail(s) /\ Tail(s) \in Seq(ToSet(s))
  BY DEF IsSeq
<1> DEFINE h == <<Head(s)>>
           t == Tail(s)
<1>2. IsSeq(t) /\ IsSeq(h) /\ ToSet(h) = {Head(s)} /\ s = h \o t
  BY <1>1, SeqElements, SmallSeqs
<1> HIDE DEF h, t
<1>3. ToSet(s) = ToSet(h) \cup ToSet(t)
  BY <1>2, ConcatElements
<1> QED BY <1>2, <1>3 DEF h, t

\* A finite set is listed by SetToSeq.
LEMMA ListedSet ==
    ASSUME NEW S, IsFiniteSet(S)
    PROVE  IsSeq(SetToSeq(S)) /\ ToSet(SetToSeq(S)) = S
<1>1. \E f \in [1..Cardinality(S) -> S] : IsInjective(f)
  <2>1. PICK f : f \in Bijection(1..Cardinality(S), S)
    BY FS_CardinalityType DEF ExistsBijection
  <2> QED BY <2>1 DEF Bijection, Injection, IsInjective
<1>2. /\ SetToSeq(S) \in [1..Cardinality(S) -> S] /\ IsInjective(SetToSeq(S))
      /\ Cardinality(S) \in Nat
  BY <1>1, FS_CardinalityType DEF SetToSeq
<1> DEFINE f == SetToSeq(S)
           n == Cardinality(S)
<1>3. f \in Injection(1..n, S)
  BY <1>2 DEF Injection, IsInjective
<1> HIDE DEF f
<1>4. Cardinality(1..n) = n
  <2> HIDE DEF n
  <2>1. n \in Nat
    BY <1>2 DEF n
  <2> QED BY <2>1, FS_Interval
<1>5. f \in Surjection(1..n, S)
  BY <1>3, <1>4, FS_Injection
<1> HIDE DEF n
<1>6. f \in Seq(S) /\ DOMAIN f = 1..n
  BY <1>2 DEF f, n
<1>7. S \subseteq ToSet(f)
  BY <1>5, <1>6 DEF Surjection, ToSet
<1> QED BY <1>6, <1>7, SeqElements DEF f

\* The image of a finite set.
LEMMA FiniteImage ==
    ASSUME NEW S, IsFiniteSet(S), NEW f
    PROVE  IsFiniteSet({f[x] : x \in S})
<1> DEFINE g == [x \in S |-> f[x]]
           T == {f[x] : x \in S}
<1>1. g \in Surjection(S, T)
  BY DEF Surjection
<1> HIDE DEF g, T
<1>2. IsFiniteSet(T)
  BY <1>1, FS_Surjection
<1> QED BY <1>2 DEF T

\* A sequence has finitely many elements.
LEMMA FiniteSeq ==
    ASSUME NEW s, IsSeq(s)
    PROVE  IsFiniteSet(DOMAIN s) /\ IsFiniteSet(ToSet(s))
<1>1. IsFiniteSet(DOMAIN s)
  BY SeqDomain, FS_Interval
<1>2. ToSet(s) = {s[i] : i \in DOMAIN s}
  BY DEF ToSet
<1> QED BY <1>1, <1>2, FiniteImage

\* A sequence mapped element by element.
LEMMA MappedSeq ==
    ASSUME NEW s, IsSeq(s), NEW f, f = [i \in DOMAIN s |-> f[i]]
    PROVE  IsSeq(f) /\ DOMAIN f = DOMAIN s
<1> DEFINE P == {f[i] : i \in DOMAIN s}
<1>1. DOMAIN s = 1..Len(s) /\ Len(s) \in Nat
  BY SeqDomain
<1>2. f \in [1..Len(s) -> P]
  BY <1>1
<1>3. f \in Seq(P)
  BY <1>1, <1>2
<1> QED BY <1>3, SeqElements

--------------------------------------------------------------------------------
(* Flattened sequences                                                       *)

\* The recursive definition inside FlattenSeq defines a function.
LEMMA FlattenDef ==
    ASSUME NEW ss, Len(ss) \in Nat, Len(ss) # 0
    PROVE  \E f : /\ f = [i \in 1..Len(ss) |-> IF i = 1 THEN ss[i] ELSE f[i - 1] \o ss[i]]
                  /\ FlattenSeq(ss) = f[Len(ss)]
<1> DEFINE Def(g, n) == g = [i \in 1..n |-> IF i = 1 THEN ss[i] ELSE g[i - 1] \o ss[i]]
           S == {n \in Nat : \E g : Def(g, n)}
<1>1. 0 \in S
  <2>1. Def([i \in 1..0 |-> {}], 0)
    OBVIOUS
  <2> QED BY <2>1
<1>2. ASSUME NEW n \in Nat, n \in S PROVE n + 1 \in S
  <2>1. PICK g : Def(g, n)
    BY <1>2
  <2> DEFINE Rest == g[n] \o ss[n + 1]
             h == [i \in 1..(n + 1) |-> IF i = n + 1 /\ i # 1 THEN Rest
                                        ELSE IF i = 1 THEN ss[i] ELSE g[i]]
  <2>2. ASSUME NEW i \in 1..(n + 1)
        PROVE  h[i] = IF i = 1 THEN ss[i] ELSE h[i - 1] \o ss[i]
    <3>0. (1 \in 1..n => g[1] = ss[1]) /\ (n \in 1..(n + 1) => h[n] = g[n])
      <4>1. 1 \in 1..n => g[1] = ss[1]
        BY <2>1
      <4> QED BY <4>1
    <3>1. CASE i = n + 1 /\ i # 1
      <4>1. n \in 1..(n + 1) /\ i - 1 = n
        BY <3>1
      <4> QED BY <3>0, <3>1, <4>1
    <3>2. CASE i = 1
      BY <3>2
    <3>3. CASE i # n + 1 /\ i # 1
      <4>1. i \in 1..n /\ i - 1 \in 1..n /\ i - 1 # n + 1 /\ i - 1 \in 1..(n + 1)
        BY <3>3
      <4>2. g[i] = g[i - 1] \o ss[i]
        BY <2>1, <3>3, <4>1
      <4>3. h[i] = g[i] /\ h[i - 1] = g[i - 1]
        BY <3>0, <3>3, <4>1
      <4> QED BY <3>3, <4>2, <4>3
    <3> QED BY <3>1, <3>2, <3>3
  <2>3. Def(h, n + 1)
    BY <2>2
  <2>4. \E k : Def(k, n + 1)
    <3> HIDE DEF h, Def
    <3> QED BY <2>3
  <2> HIDE DEF h, Def
  <2> QED BY <2>4
<1>3. Len(ss) \in S
  <2> HIDE DEF S
  <2> QED BY <1>1, <1>2, NatSetInduction
<1>4. \E g : Def(g, Len(ss))
  BY <1>3
<1> DEFINE f == CHOOSE g : Def(g, Len(ss))
<1>5. Def(f, Len(ss))
  BY <1>4
<1>6. FlattenSeq(ss) = f[Len(ss)]
  BY DEF FlattenSeq
<1> HIDE DEF f
<1> QED BY <1>5, <1>6

\* The steps of flattening: f[i] is the concatenation of the first i sequences.
LEMMA FlattenSteps ==
    ASSUME NEW ss, IsSeq(ss), ss # <<>>
    PROVE  \E f : /\ f[1] = ss[1] /\ FlattenSeq(ss) = f[Len(ss)]
                  /\ \A i \in 1..Len(ss) : i # 1 => f[i] = f[i - 1] \o ss[i]
<1>1. Len(ss) \in Nat /\ Len(ss) # 0 /\ 1 \in 1..Len(ss)
  BY DEF IsSeq
<1>2. PICK f : /\ f = [i \in 1..Len(ss) |-> IF i = 1 THEN ss[i] ELSE f[i - 1] \o ss[i]]
               /\ FlattenSeq(ss) = f[Len(ss)]
  BY <1>1, FlattenDef
<1>3. ASSUME NEW i \in 1..Len(ss) PROVE f[i] = IF i = 1 THEN ss[i] ELSE f[i - 1] \o ss[i]
  BY <1>2
<1>4. f[1] = ss[1] /\ \A i \in 1..Len(ss) : i # 1 => f[i] = f[i - 1] \o ss[i]
  BY <1>1, <1>3
<1> QED BY <1>2, <1>4

\* Flattening gives a sequence of the elements, all of them and no other.
LEMMA FlattenElements ==
    ASSUME NEW ss, IsSeq(ss), \A i \in DOMAIN ss : IsSeq(ss[i])
    PROVE  /\ IsSeq(FlattenSeq(ss))
           /\ ToSet(FlattenSeq(ss)) = UNION {ToSet(ss[i]) : i \in DOMAIN ss}
<1>0. Len(ss) \in Nat /\ DOMAIN ss = 1..Len(ss)
  BY SeqDomain
<1>1. CASE ss = <<>>
  <2>1. FlattenSeq(ss) = <<>>
    BY <1>1 DEF FlattenSeq
  <2> QED BY <1>0, <1>1, <2>1, SmallSeqs
<1>2. CASE ss # <<>>
  <2>1. PICK f : /\ f[1] = ss[1] /\ FlattenSeq(ss) = f[Len(ss)]
                 /\ \A i \in 1..Len(ss) : i # 1 => f[i] = f[i - 1] \o ss[i]
    BY <1>2, FlattenSteps
  <2>2. Len(ss) # 0
    BY <1>2 DEF IsSeq
  <2> DEFINE S == {n \in Nat : n + 1 <= Len(ss) =>
                       /\ IsSeq(f[n + 1])
                       /\ ToSet(f[n + 1]) = UNION {ToSet(ss[i]) : i \in 1..(n + 1)}}
  <2>3. 0 \in S
    <3>1. 1..(0 + 1) = {1} /\ 1 \in DOMAIN ss
      BY <1>0, <2>2
    <3>2. UNION {ToSet(ss[i]) : i \in 1..(0 + 1)} = ToSet(ss[1])
      BY <3>1
    <3> QED BY <2>1, <3>1, <3>2
  <2>4. ASSUME NEW n \in Nat, n \in S PROVE n + 1 \in S
    <3> DEFINE m == n + 1
    <3>1. SUFFICES ASSUME m + 1 <= Len(ss)
                   PROVE  /\ IsSeq(f[m + 1])
                          /\ ToSet(f[m + 1]) = UNION {ToSet(ss[i]) : i \in 1..(m + 1)}
      OBVIOUS
    <3>2. IsSeq(f[m]) /\ ToSet(f[m]) = UNION {ToSet(ss[i]) : i \in 1..m}
      BY <1>0, <2>4, <3>1
    <3>3. m \in Nat /\ m + 1 \in DOMAIN ss /\ m + 1 # 1 /\ (m + 1) - 1 = m /\ 1..(m + 1) = (1..m) \cup {m + 1}
      BY <1>0, <3>1
    <3> HIDE DEF m
    <3>4. f[m + 1] = f[m] \o ss[m + 1]
      BY <1>0, <2>1, <3>3
    <3> QED BY <3>2, <3>3, <3>4, ConcatElements
  <2>5. \A n \in Nat : n \in S
    <3> HIDE DEF S
    <3> QED BY <2>3, <2>4, NatSetInduction
  <2>6. PICK n \in Nat : n + 1 = Len(ss)
    <3>1. Len(ss) - 1 \in Nat /\ (Len(ss) - 1) + 1 = Len(ss)
      BY <1>0, <2>2
    <3> QED BY <3>1
  <2>7. IsSeq(f[Len(ss)]) /\ ToSet(f[Len(ss)]) = UNION {ToSet(ss[i]) : i \in 1..Len(ss)}
    <3>1. n \in S
      <4> HIDE DEF S
      <4> QED BY <2>5
    <3>2. n + 1 <= Len(ss)
      BY <1>0, <2>6
    <3>3. IsSeq(f[n + 1]) /\ ToSet(f[n + 1]) = UNION {ToSet(ss[i]) : i \in 1..(n + 1)}
      BY <3>1, <3>2
    <3> QED BY <2>6, <3>3
  <2> QED BY <1>0, <2>1, <2>7
<1> QED BY <1>1, <1>2

\* What is listed of every element of s, one after the other.
LEMMA FlatElements ==
    ASSUME NEW s, IsSeq(s), NEW ss, ss = [i \in DOMAIN s |-> ss[i]], \A i \in DOMAIN s : IsSeq(ss[i])
    PROVE  /\ IsSeq(FlattenSeq(ss))
           /\ ToSet(FlattenSeq(ss)) = UNION {ToSet(ss[i]) : i \in DOMAIN s}
<1>1. DOMAIN s = 1..Len(s) /\ Len(s) \in Nat /\ DOMAIN ss = DOMAIN s
  BY SeqDomain
<1>2. IsSeq(ss)
  BY MappedSeq
<1> QED BY <1>1, <1>2, FlattenElements

\* Some elements of s, each as a sequence of its own: flattened they are in the order of s.
LEMMA FlattenOrder ==
    ASSUME NEW s, IsSeq(s), NEW ss, ss = [i \in DOMAIN s |-> ss[i]],
           \A i \in DOMAIN s : ss[i] = <<>> \/ ss[i] = <<s[i]>>,
           NEW p \in DOMAIN FlattenSeq(ss), NEW q \in DOMAIN FlattenSeq(ss), p < q
    PROVE  \E i, j \in DOMAIN s : i < j /\ FlattenSeq(ss)[p] = s[i] /\ FlattenSeq(ss)[q] = s[j]
<1>0. Len(s) \in Nat /\ DOMAIN s = 1..Len(s)
  BY SeqDomain
<1> DEFINE A == ToSet(s)
<1>1. ss \in Seq(Seq(A)) /\ Len(ss) = Len(s) /\ IsSeq(ss)
  <2>1. ASSUME NEW i \in DOMAIN s PROVE ss[i] \in Seq(A)
    <3>1. s[i] \in A
      BY SeqDomain
    <3> HIDE DEF A
    <3>2. <<>> \in Seq(A) /\ <<s[i]>> \in Seq(A)
      BY <3>1
    <3> QED BY <3>2
  <2>2. ss \in [1..Len(s) -> Seq(A)]
    BY <1>0, <2>1
  <2>3. ss \in Seq(Seq(A)) /\ Len(ss) = Len(s)
    BY <1>0, <2>2
  <2> QED BY <2>3, SeqElements
<1> HIDE DEF A
<1>2. ss # <<>>
  <2>1. ss = <<>> => FlattenSeq(ss) = <<>>
    BY DEF FlattenSeq
  <2> QED BY <2>1
<1>3. PICK f : /\ f[1] = ss[1] /\ FlattenSeq(ss) = f[Len(ss)]
               /\ \A i \in 1..Len(ss) : i # 1 => f[i] = f[i - 1] \o ss[i]
  BY <1>1, <1>2, FlattenSteps
<1> DEFINE Good(r, n) == /\ r \in Seq(A)
                         /\ \A k \in DOMAIN r : \E i \in 1..n : r[k] = s[i]
                         /\ \A k, l \in DOMAIN r : k < l =>
                              \E i, j \in 1..n : i < j /\ r[k] = s[i] /\ r[l] = s[j]
           S == {n \in Nat : n + 1 <= Len(s) => Good(f[n + 1], n + 1)}
<1>4. 0 \in S
  <2> SUFFICES ASSUME 1 <= Len(s) PROVE Good(f[1], 1)
    OBVIOUS
  <2>1. 1 \in DOMAIN s /\ f[1] \in Seq(A) /\ 1 \in 1..1
    BY <1>0, <1>1, <1>3
  <2>2. CASE ss[1] = <<>>
    BY <1>3, <2>1, <2>2
  <2>3. CASE ss[1] = <<s[1]>>
    BY <1>3, <2>1, <2>3
  <2> QED BY <2>1, <2>2, <2>3
<1>5. ASSUME NEW n \in Nat, n \in S PROVE n + 1 \in S
  <2> DEFINE m == n + 1
  <2>1. SUFFICES ASSUME m + 1 <= Len(s) PROVE Good(f[m + 1], m + 1)
    OBVIOUS
  <2>2. Good(f[m], m)
    BY <1>0, <1>5, <2>1
  <2>3. m \in Nat /\ m + 1 \in DOMAIN s /\ m + 1 # 1 /\ (m + 1) - 1 = m
    BY <1>0, <2>1
  <2> HIDE DEF m
  <2>4. f[m + 1] = f[m] \o ss[m + 1]
    BY <1>0, <1>1, <1>3, <2>3
  <2>5. CASE ss[m + 1] = <<>>
    <3>1. f[m + 1] = f[m]
      <4>1. f[m] \in Seq(A)
        BY <2>2
      <4> HIDE DEF Good
      <4> QED BY <2>4, <2>5, <4>1, ConcatSmall
    <3>2. \A i \in 1..m : i \in 1..(m + 1)
      BY <2>3
    <3> QED BY <2>2, <3>1, <3>2, SMTT(60)
  <2>6. CASE ss[m + 1] = <<s[m + 1]>>
    <3> DEFINE r == f[m]
    <3>1. f[m + 1] = Append(r, s[m + 1]) /\ r \in Seq(A) /\ s[m + 1] \in A
      <4>1. r \in Seq(A) /\ s[m + 1] \in A
        BY <2>2, <2>3, SeqDomain DEF A
      <4> HIDE DEF Good
      <4>2. f[m + 1] = r \o <<s[m + 1]>>
        BY <2>4, <2>6
      <4> HIDE DEF r
      <4> QED BY <4>1, <4>2, ConcatSmall
    <3>2. \A k \in DOMAIN r : r[k] = f[m + 1][k] /\ k < Len(r) + 1
      BY <3>1
    <3>3. f[m + 1][Len(r) + 1] = s[m + 1] /\ DOMAIN f[m + 1] = DOMAIN r \cup {Len(r) + 1}
      BY <3>1
    <3>4. \A i \in 1..m : i \in 1..(m + 1) /\ i < m + 1
      BY <2>3
    <3>5. m + 1 \in 1..(m + 1) /\ f[m + 1] \in Seq(A)
      BY <2>3, <3>1
    <3>6. ASSUME NEW k \in DOMAIN f[m + 1], NEW l \in DOMAIN f[m + 1], k < l
          PROVE  \E i, j \in 1..(m + 1) : i < j /\ f[m + 1][k] = s[i] /\ f[m + 1][l] = s[j]
      <4>1. k \in DOMAIN r
        BY <3>1, <3>3, <3>6
      <4>2. CASE l \in DOMAIN r
        BY <2>2, <3>2, <3>4, <3>6, <4>1, <4>2, SMTT(60)
      <4>3. CASE l = Len(r) + 1
        BY <2>2, <3>2, <3>3, <3>4, <3>5, <4>1, <4>3
      <4> QED BY <3>3, <4>2, <4>3
    <3>7. ASSUME NEW k \in DOMAIN f[m + 1] PROVE \E i \in 1..(m + 1) : f[m + 1][k] = s[i]
      BY <2>2, <3>2, <3>3, <3>4, <3>5
    <3> QED BY <3>5, <3>6, <3>7
  <2> QED BY <2>3, <2>5, <2>6
<1>6. \A n \in Nat : n \in S
  <2> HIDE DEF S
  <2> QED BY <1>4, <1>5, NatSetInduction
<1>7. PICK n \in Nat : n + 1 = Len(s)
  <2>1. Len(s) - 1 \in Nat /\ (Len(s) - 1) + 1 = Len(s)
    BY <1>0, <1>1, <1>2
  <2> QED BY <2>1
<1>8. Good(FlattenSeq(ss), Len(s))
  <2> HIDE DEF Good
  <2>0. n \in S /\ n + 1 <= Len(s)
    <3>1. n \in S
      <4> HIDE DEF S
      <4> QED BY <1>6
    <3> QED BY <1>0, <1>7, <3>1
  <2>1. Good(f[Len(s)], Len(s))
    BY <1>7, <2>0
  <2> QED BY <1>1, <1>3, <2>1
<1>9. \E i, j \in 1..Len(s) : i < j /\ FlattenSeq(ss)[p] = s[i] /\ FlattenSeq(ss)[q] = s[j]
  BY <1>8
<1> QED BY <1>0, <1>9

\* All elements of s, each as a sequence of its own: flattened they are s.
LEMMA FlattenSingles ==
    ASSUME NEW s, IsSeq(s), NEW ss, ss = [i \in DOMAIN s |-> ss[i]], \A i \in DOMAIN s : ss[i] = <<s[i]>>
    PROVE  FlattenSeq(ss) = s
<1>0. Len(s) \in Nat /\ DOMAIN s = 1..Len(s)
  BY SeqDomain
<1> DEFINE A == ToSet(s)
<1>1. ss \in Seq(Seq(A)) /\ Len(ss) = Len(s) /\ IsSeq(ss)
  <2>1. ASSUME NEW i \in DOMAIN s PROVE ss[i] \in Seq(A)
    <3>1. s[i] \in A
      BY SeqDomain
    <3> HIDE DEF A
    <3>2. <<s[i]>> \in Seq(A)
      BY <3>1
    <3> QED BY <3>2
  <2>2. ss \in [1..Len(s) -> Seq(A)]
    BY <1>0, <2>1
  <2>3. ss \in Seq(Seq(A)) /\ Len(ss) = Len(s)
    BY <1>0, <2>2
  <2> QED BY <2>3, SeqElements
<1>2. CASE ss = <<>>
  <2>1. Len(s) = 0 /\ FlattenSeq(ss) = <<>>
    BY <1>1, <1>2 DEF FlattenSeq
  <2> QED BY <2>1 DEF IsSeq
<1>3. CASE ss # <<>>
  <2>1. PICK f : /\ f[1] = ss[1] /\ FlattenSeq(ss) = f[Len(ss)]
                 /\ \A i \in 1..Len(ss) : i # 1 => f[i] = f[i - 1] \o ss[i]
    BY <1>1, <1>3, FlattenSteps
  <2> DEFINE Good(r, n) == r \in Seq(A) /\ Len(r) = n /\ \A i \in 1..n : r[i] = s[i]
             S == {n \in Nat : n + 1 <= Len(s) => Good(f[n + 1], n + 1)}
  <2> HIDE DEF A
  <2>2. 0 \in S
    <3> SUFFICES ASSUME 1 <= Len(s) PROVE Good(f[1], 1)
      OBVIOUS
    <3>1. 1 \in DOMAIN s /\ s[1] \in A
      BY <1>0, SeqDomain DEF A
    <3>2. f[1] = <<s[1]>>
      BY <2>1, <3>1
    <3>3. <<s[1]>> \in Seq(A) /\ Len(<<s[1]>>) = 1 /\ <<s[1]>>[1] = s[1]
      BY <3>1
    <3>4. \A i \in 1..1 : i = 1
      OBVIOUS
    <3> QED BY <3>2, <3>3, <3>4
  <2>3. ASSUME NEW n \in Nat, n \in S PROVE n + 1 \in S
    <3> DEFINE m == n + 1
    <3>1. SUFFICES ASSUME m + 1 <= Len(s) PROVE Good(f[m + 1], m + 1)
      OBVIOUS
    <3>2. Good(f[m], m)
      BY <1>0, <2>3, <3>1
    <3>3. m \in Nat /\ m + 1 \in DOMAIN s /\ m + 1 # 1 /\ (m + 1) - 1 = m /\ s[m + 1] \in A
      BY <1>0, <3>1, SeqDomain DEF A
    <3> HIDE DEF m
    <3>4. f[m + 1] = f[m] \o <<s[m + 1]>>
      BY <1>0, <1>1, <2>1, <3>3
    <3> DEFINE r == f[m]
               t == f[m + 1]
    <3>5. r \in Seq(A) /\ Len(r) = m /\ t = r \o <<s[m + 1]>> /\ \A i \in 1..m : r[i] = s[i]
      BY <3>2, <3>4
    <3> HIDE DEF r, t
    <3>6. t = Append(r, s[m + 1])
      BY <3>5, ConcatSmall
    <3>7. Good(t, m + 1)
      BY <3>3, <3>5, <3>6
    <3> QED BY <3>7 DEF t
  <2>4. \A n \in Nat : n \in S
    <3> HIDE DEF S
    <3> QED BY <2>2, <2>3, NatSetInduction
  <2>5. PICK n \in Nat : n + 1 = Len(s)
    <3>1. Len(s) - 1 \in Nat /\ (Len(s) - 1) + 1 = Len(s)
      BY <1>0, <1>1, <1>3
    <3> QED BY <3>1
  <2>6. Good(FlattenSeq(ss), Len(s))
    <3> HIDE DEF Good
    <3>1. n \in S
      <4> HIDE DEF S
      <4> QED BY <2>4
    <3>2. n + 1 <= Len(s)
      BY <1>0, <2>5
    <3> QED BY <1>1, <2>1, <2>5, <3>1, <3>2
  <2> QED BY <1>0, <2>6 DEF IsSeq
<1> QED BY <1>2, <1>3

\* An element more at place k: those from there on move up.
LEMMA InsertFacts ==
    ASSUME NEW c, IsSeq(c), NEW v, NEW k \in 1..(Len(c) + 1)
    PROVE  /\ IsSeq(InsertAt(c, k, v)) /\ Len(InsertAt(c, k, v)) = Len(c) + 1
           /\ \A i \in 1..(Len(c) + 1) :
                InsertAt(c, k, v)[i] = IF i < k THEN c[i] ELSE IF i = k THEN v ELSE c[i - 1]
           /\ ToSet(InsertAt(c, k, v)) = ToSet(c) \cup {v}
<1> DEFINE A == ToSet(c) \cup {v}
<1>0. c \in Seq(A) /\ Len(c) \in Nat /\ v \in A
  BY SeqElements, SeqDomain
<1> HIDE DEF A
<1> DEFINE r == InsertAt(c, k, v)
           a == SubSeq(c, 1, k - 1)
           b == SubSeq(c, k, Len(c))
<1>1. /\ a \in Seq(A) /\ Len(a) = k - 1 /\ \A i \in 1..(k - 1) : a[i] = c[i]
      /\ b \in Seq(A) /\ Len(b) = Len(c) + 1 - k /\ \A i \in 1..Len(b) : b[i] = c[k - 1 + i]
  BY <1>0
<1>2. r = (a \o <<v>>) \o b
  BY DEF InsertAt
<1> HIDE DEF r, a, b
<1>3. a \o <<v>> \in Seq(A) /\ Len(a \o <<v>>) = k
      /\ \A i \in 1..k : (a \o <<v>>)[i] = IF i < k THEN c[i] ELSE v
  BY <1>0, <1>1
<1>4. r \in Seq(A) /\ Len(r) = Len(c) + 1
  BY <1>0, <1>1, <1>2, <1>3
<1>5. ASSUME NEW i \in 1..(Len(c) + 1)
      PROVE  r[i] = IF i < k THEN c[i] ELSE IF i = k THEN v ELSE c[i - 1]
  <2>1. CASE i <= k
    BY <1>0, <1>1, <1>2, <1>3, <2>1
  <2>2. CASE i > k
    <3>1. i - k \in 1..Len(b) /\ k - 1 + (i - k) = i - 1
      BY <1>0, <1>1, <2>2
    <3>2. r[i] = b[i - k]
      BY <1>0, <1>1, <1>2, <1>3, <2>2
    <3> QED BY <1>1, <2>2, <3>1, <3>2, SMTT(60)
  <2> QED BY <1>0, <2>1, <2>2
<1>6. A \subseteq ToSet(r)
  <2>1. r[k] = v /\ k \in DOMAIN r
    BY <1>0, <1>4, <1>5
  <2>2. ASSUME NEW i \in 1..Len(c) PROVE \E j \in DOMAIN r : r[j] = c[i]
    <3>1. CASE i < k
      <4>1. i \in DOMAIN r /\ i \in 1..(Len(c) + 1)
        BY <1>0, <1>4
      <4>2. r[i] = c[i]
        BY <1>5, <3>1, <4>1
      <4> QED BY <4>1, <4>2
    <3>2. CASE i >= k
      <4>1. i + 1 \in DOMAIN r /\ i + 1 \in 1..(Len(c) + 1) /\ ~(i + 1 < k) /\ i + 1 # k /\ (i + 1) - 1 = i
        BY <1>0, <1>4, <3>2
      <4>2. r[i + 1] = c[i]
        <5> DEFINE j == i + 1
        <5>1. j \in 1..(Len(c) + 1) /\ ~(j < k) /\ j # k /\ j - 1 = i
          BY <4>1
        <5> HIDE DEF j
        <5>2. r[j] = c[j - 1]
          BY <1>5, <5>1
        <5> QED BY <5>1, <5>2 DEF j
      <4> QED BY <4>1, <4>2
    <3> QED BY <1>0, <3>1, <3>2
  <2> QED BY <2>1, <2>2, SeqDomain DEF A, ToSet
<1>7. IsSeq(r) /\ ToSet(r) = A
  BY <1>4, <1>6, SeqElements
<1> QED BY <1>4, <1>5, <1>7 DEF r, A

\* At the end, that is to append.
LEMMA InsertLast ==
    ASSUME NEW c, IsSeq(c), NEW v
    PROVE  InsertAt(c, Len(c) + 1, v) = Append(c, v)
<1> DEFINE r == InsertAt(c, Len(c) + 1, v)
           k == Len(c) + 1
           A == ToSet(c) \cup {v}
<1>0. Len(c) \in Nat /\ c \in Seq(A) /\ v \in A /\ k \in 1..(Len(c) + 1) /\ k = Len(c) + 1
  BY SeqDomain, SeqElements
<1> HIDE DEF A, k
<1>1. /\ IsSeq(InsertAt(c, k, v)) /\ Len(InsertAt(c, k, v)) = Len(c) + 1
      /\ ToSet(InsertAt(c, k, v)) = A
      /\ \A i \in 1..(Len(c) + 1) :
           InsertAt(c, k, v)[i] = IF i < k THEN c[i] ELSE IF i = k THEN v ELSE c[i - 1]
  BY <1>0, InsertFacts DEF A
<1>2. r = InsertAt(c, k, v)
  BY <1>0
<1> HIDE DEF r
<1>3. r \in Seq(A) /\ Len(r) = Len(c) + 1
  BY <1>1, <1>2, SeqElements
<1>4. \A i \in 1..(Len(c) + 1) : r[i] = IF i <= Len(c) THEN c[i] ELSE v
  BY <1>0, <1>1, <1>2
<1>5. r = Append(c, v)
  BY <1>0, <1>3, <1>4
<1> QED BY <1>5 DEF r

--------------------------------------------------------------------------------
(* Increasing functions                                                      *)

\* f is increasing, from 1..m onto 1..n.
IncreasesOnto(f, m, n) ==
    /\ f \in [1..m -> 1..n]
    /\ \A p, q \in 1..m : p < q => f[p] < f[q]
    /\ \A i \in 1..n : \E p \in 1..m : f[p] = i

\* An increasing function onto an interval is the identity.
LEMMA IncreasingOnto ==
    ASSUME NEW m \in Nat, NEW n \in Nat, NEW f, IncreasesOnto(f, m, n)
    PROVE  m = n /\ \A p \in 1..m : f[p] = p
<1>0. /\ f \in [1..m -> 1..n]
      /\ \A p, q \in 1..m : p < q => f[p] < f[q]
      /\ \A i \in 1..n : \E p \in 1..m : f[p] = i
  BY DEF IncreasesOnto
<1> DEFINE S == {k \in Nat : k <= m => k <= n /\ \A p \in 1..k : f[p] = p}
<1>1. 0 \in S
  OBVIOUS
<1>2. ASSUME NEW k \in Nat, k \in S PROVE k + 1 \in S
  <2> DEFINE l == k + 1
  <2>1. SUFFICES ASSUME l <= m PROVE l <= n /\ \A p \in 1..l : f[p] = p
    OBVIOUS
  <2>2. l \in 1..m /\ k <= m /\ \A p \in 1..k : f[p] = p /\ p \in 1..m /\ p < l
    BY <1>2, <2>1
  <2>3. f[l] \in 1..n /\ f[l] >= l
    <3>1. CASE k = 0
      BY <1>0, <2>2, <3>1
    <3>2. CASE k # 0
      <4>1. k \in 1..k
        BY <3>2
      <4>2. f[k] < f[l] /\ f[k] = k
        BY <1>0, <2>2, <4>1
      <4> QED BY <1>0, <2>2, <4>2
    <3> QED BY <3>1, <3>2
  <2>4. l \in 1..n
    BY <2>3
  <2>5. PICK p \in 1..m : f[p] = l
    BY <1>0, <2>4
  <2>6. p = l
    <3>1. CASE p < l
      BY <2>2, <2>5, <3>1
    <3>2. CASE p > l
      <4>1. f[l] < f[p]
        BY <1>0, <2>2, <3>2
      <4> QED BY <2>3, <2>4, <2>5, <4>1
    <3> QED BY <2>2, <3>1, <3>2
  <2>7. \A i \in 1..l : i \in 1..k \/ i = l
    OBVIOUS
  <2> QED BY <2>2, <2>4, <2>5, <2>6, <2>7
<1>3. m \in S
  <2> HIDE DEF S
  <2> QED BY <1>1, <1>2, NatSetInduction
<1>4. m <= n /\ \A p \in 1..m : f[p] = p
  BY <1>3
<1>5. n <= m
  <2>1. CASE n = 0
    BY <2>1
  <2>2. CASE n # 0
    <3>1. PICK p \in 1..m : f[p] = n
      BY <1>0, <2>2
    <3> QED BY <1>4, <3>1
  <2> QED BY <2>1, <2>2
<1> QED BY <1>4, <1>5

================================================================================
