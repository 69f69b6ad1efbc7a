---------------------------- MODULE ListingProofs ----------------------------
(***************************************************************************)
(* What printing and sorting promise of every list: the lemmas about the   *)
(* operators of Listings that the proofs about searches and `get` rest on. *)
(*                                                                         *)
(* FlattenSeq is defined by recursion over a sequence.  What it computes   *)
(* is proved by induction, which a least counterexample gives: Least.      *)
(***************************************************************************)
EXTENDS Listings, FiniteSetTheorems, WellFoundedInduction, TLAPS

-----------------------------------------------------------------------------
(***************************************************************************)
(* Induction.                                                              *)
(***************************************************************************)

LEMMA Least ==
  ASSUME NEW T \in SUBSET Nat, T # {}
  PROVE  \E x \in T : \A y \in T : x <= y
<1>1. PICK x \in T : \A y \in T : ~(<<y, x>> \in OpToRel(<, Nat))
  BY WFMin, NatLessThanWellFounded
<1>2. \A y \in T : ~(y < x)
  BY <1>1 DEF OpToRel
<1> QED
  BY <1>2

LEMMA Induction ==
  ASSUME NEW n \in Nat, NEW T, 0 \in T, \A m \in 0..(n - 1) : m \in T => m + 1 \in T
  PROVE  0..n \subseteq T
<1> SUFFICES ASSUME ~(0..n \subseteq T) PROVE FALSE
  OBVIOUS
<1> DEFINE U == {m \in 0..n : m \notin T}
<1>1. U \in SUBSET Nat /\ U # {}
  OBVIOUS
<1>2. PICK x \in U : \A y \in U : x <= y
  BY <1>1, Least
<1>3. x # 0 /\ x - 1 \in 0..(n - 1) /\ x - 1 \notin U
  BY <1>2
<1> QED
  BY <1>2, <1>3

-----------------------------------------------------------------------------
(***************************************************************************)
(* Lists.                                                                  *)
(***************************************************************************)

\* A sequence of elements of any set is a list.
LEMMA ListOf ==
  ASSUME NEW U, NEW s \in Seq(U)
  PROVE  IsList(s) /\ ToSet(s) \subseteq U /\ Len(s) \in Nat /\ DOMAIN s = 1..Len(s)
BY DEF IsList, ToSet

LEMMA ListFacts ==
  ASSUME NEW s, IsList(s)
  PROVE  Len(s) \in Nat /\ DOMAIN s = 1..Len(s) /\ \A i \in DOMAIN s : s[i] \in ToSet(s)
BY DEF IsList, ToSet

\* A function on 1..n is a list.
LEMMA ListFrom ==
  ASSUME NEW n \in Nat, NEW s, DOMAIN s = 1..n, s = [i \in 1..n |-> s[i]]
  PROVE  IsList(s) /\ Len(s) = n
<1>1. s \in [1..n -> ToSet(s)]
  BY DEF ToSet
<1> QED
  BY <1>1 DEF IsList

LEMMA SingleList ==
  ASSUME NEW x
  PROVE  IsList(<<x>>) /\ DOMAIN <<x>> = {1} /\ <<x>>[1] = x
<1>1. <<x>> \in Seq({x}) /\ DOMAIN <<x>> = {1} /\ <<x>>[1] = x
  OBVIOUS
<1> QED
  BY <1>1, ListOf

\* One list after the other.
LEMMA Concatenated ==
  ASSUME NEW s, NEW t, IsList(s), IsList(t)
  PROVE  /\ IsList(s \o t) /\ Len(s \o t) = Len(s) + Len(t)
         /\ \A i \in 1..Len(s) : (s \o t)[i] = s[i]
         /\ \A i \in 1..(Len(s) + Len(t)) : i > Len(s) => (s \o t)[i] = t[i - Len(s)]
<1> DEFINE U == ToSet(s) \cup ToSet(t)
<1>1. s \in Seq(U) /\ t \in Seq(U)
  BY DEF IsList
<1> HIDE DEF U
<1>2. s \o t \in Seq(U) /\ Len(s \o t) = Len(s) + Len(t) /\ Len(s) \in Nat /\ Len(t) \in Nat
  BY <1>1
<1>3. \A i \in 1..(Len(s) + Len(t)) : (s \o t)[i] = IF i <= Len(s) THEN s[i] ELSE t[i - Len(s)]
  BY <1>1
<1>4. IsList(s \o t)
  BY <1>2, ListOf
<1> QED
  BY <1>2, <1>3, <1>4

-----------------------------------------------------------------------------
(***************************************************************************)
(* FlattenSeq.                                                             *)
(***************************************************************************)

\* f[i] is the first i sequences of ss, one after the other.
Flattens(f, ss, n) ==
  /\ f = [i \in 1..n |-> f[i]]
  /\ \A i \in 1..n : f[i] = IF i = 1 THEN ss[1] ELSE f[i - 1] \o ss[i]

LEMMA FlattenExists ==
  ASSUME NEW ss, NEW n \in Nat
  PROVE  \E f : Flattens(f, ss, n)
<1> DEFINE T == {m \in 0..n : \E f : Flattens(f, ss, m)}
<1>1. 0 \in T
  <2>1. Flattens(<<>>, ss, 0)
    BY DEF Flattens
  <2> QED
    BY <2>1
<1>2. ASSUME NEW m \in 0..(n - 1), m \in T PROVE m + 1 \in T
  <2>1. PICK f : Flattens(f, ss, m)
    BY <1>2
  <2> DEFINE g == [i \in 1..(m + 1) |->
                    IF i <= m THEN f[i] ELSE IF i = 1 THEN ss[1] ELSE f[i - 1] \o ss[i]]
  <2>2. m \in Nat
    OBVIOUS
  <2>3. g = [i \in 1..(m + 1) |-> g[i]]
    OBVIOUS
  <2>4. \A i \in 1..m : g[i] = f[i]
    BY <2>2
  <2>5. g[m + 1] = IF m + 1 = 1 THEN ss[1] ELSE f[m] \o ss[m + 1]
    <3>1. m + 1 \in 1..(m + 1) /\ ~(m + 1 <= m) /\ (m + 1) - 1 = m
      BY <2>2
    <3> QED
      BY <3>1
  <2> HIDE DEF g
  <2>6. ASSUME NEW i \in 1..(m + 1)
        PROVE  g[i] = IF i = 1 THEN ss[1] ELSE g[i - 1] \o ss[i]
    <3>1. CASE i \in 1..m
      <4>1. i = 1 \/ i - 1 \in 1..m
        BY <2>2, <3>1
      <4> QED
        BY <2>1, <2>4, <3>1, <4>1 DEF Flattens
    <3>2. CASE i = m + 1
      <4>1. i = 1 \/ (i - 1 = m /\ m \in 1..m)
        BY <2>2, <3>2
      <4> QED
        BY <2>4, <2>5, <3>2, <4>1
    <3> QED
      BY <2>2, <3>1, <3>2
  <2>7. Flattens(g, ss, m + 1)
    BY <2>3, <2>6 DEF Flattens
  <2>8. m + 1 \in 0..n
    OBVIOUS
  <2> QED
    BY <2>7, <2>8
<1> HIDE DEF T
<1>3. 0..n \subseteq T
  BY <1>1, <1>2, Induction
<1> QED
  BY <1>3 DEF T

LEMMA FlattenIs ==
  ASSUME NEW ss, Len(ss) \in Nat \ {0}
  PROVE  \E f : Flattens(f, ss, Len(ss)) /\ FlattenSeq(ss) = f[Len(ss)]
<1> DEFINE n == Len(ss)
           Next(f) == [i \in 1..n |-> IF i = 1 THEN ss[i] ELSE f[i - 1] \o ss[i]]
           flatten == CHOOSE f : f = Next(f)
<1>1. \E f : f = Next(f)
  <2>1. PICK f : Flattens(f, ss, n)
    BY FlattenExists
  <2>2. f = [i \in 1..n |-> f[i]] /\ \A i \in 1..n : f[i] = IF i = 1 THEN ss[i] ELSE f[i - 1] \o ss[i]
    BY <2>1 DEF Flattens
  <2>3. f = Next(f)
    BY <2>2
  <2> QED
    BY <2>3
<1>2. flatten = Next(flatten)
  BY <1>1
<1>3. FlattenSeq(ss) = flatten[n]
  BY DEF FlattenSeq
<1> HIDE DEF flatten
<1> QED
  BY <1>2, <1>3 DEF Flattens

\* What is in s is, in this order, what is in the first n lists of ss.
Chains(s, ss, n) ==
  /\ IsList(s)
  /\ \A i \in DOMAIN s : \E a \in 1..n : \E k \in DOMAIN ss[a] : s[i] = ss[a][k]
  /\ \A a \in 1..n : \A k \in DOMAIN ss[a] : \E i \in DOMAIN s : s[i] = ss[a][k]
  /\ \A i, j \in DOMAIN s : i < j =>
       \E a, b \in 1..n : \E k \in DOMAIN ss[a], l \in DOMAIN ss[b] :
         s[i] = ss[a][k] /\ s[j] = ss[b][l] /\ (a < b \/ (a = b /\ k < l))

LEMMA ChainsOn ==
  ASSUME NEW ss, NEW n \in Nat \ {0}, NEW s, Chains(s, ss, n), IsList(ss[n + 1])
  PROVE  Chains(s \o ss[n + 1], ss, n + 1)
<1> DEFINE t == ss[n + 1]
           r == s \o t
<1>1. IsList(s)
  BY DEF Chains
<1>2. Len(s) \in Nat /\ DOMAIN s = 1..Len(s) /\ Len(t) \in Nat /\ DOMAIN t = 1..Len(t)
  BY <1>1, ListFacts
<1>3. /\ IsList(r) /\ DOMAIN r = 1..(Len(s) + Len(t))
      /\ \A i \in DOMAIN s : r[i] = s[i]
      /\ \A i \in DOMAIN r : i > Len(s) => r[i] = t[i - Len(s)] /\ i - Len(s) \in DOMAIN t
  <2>1. /\ IsList(r) /\ Len(r) = Len(s) + Len(t)
        /\ \A i \in 1..Len(s) : r[i] = s[i]
        /\ \A i \in 1..(Len(s) + Len(t)) : i > Len(s) => r[i] = t[i - Len(s)]
    BY <1>1, Concatenated
  <2>2. DOMAIN r = 1..(Len(s) + Len(t))
    BY <2>1, ListFacts
  <2> QED
    BY <1>2, <2>1, <2>2
<1> HIDE DEF r
<1>4. ASSUME NEW i \in DOMAIN r
      PROVE  \E a \in 1..(n + 1) : \E k \in DOMAIN ss[a] : r[i] = ss[a][k]
  <2>1. CASE i \in DOMAIN s
    BY <1>3, <2>1 DEF Chains
  <2>2. CASE i > Len(s)
    BY <1>3, <2>2
  <2> QED
    BY <1>2, <1>3, <2>1, <2>2
<1>5. ASSUME NEW a \in 1..(n + 1), NEW k \in DOMAIN ss[a]
      PROVE  \E i \in DOMAIN r : r[i] = ss[a][k]
  <2>1. CASE a \in 1..n
    <3>1. PICK i \in DOMAIN s : s[i] = ss[a][k]
      BY <2>1 DEF Chains
    <3>2. i \in DOMAIN r
      BY <1>2, <1>3
    <3> QED
      BY <1>3, <3>1, <3>2
  <2>2. CASE a = n + 1
    <3>1. Len(s) + k \in DOMAIN r /\ Len(s) + k > Len(s) /\ (Len(s) + k) - Len(s) = k
      BY <1>2, <1>3, <2>2
    <3> QED
      BY <1>3, <2>2, <3>1
  <2> QED
    BY <2>1, <2>2
<1>6. ASSUME NEW i \in DOMAIN r, NEW j \in DOMAIN r, i < j
      PROVE  \E a, b \in 1..(n + 1) : \E k \in DOMAIN ss[a], l \in DOMAIN ss[b] :
               r[i] = ss[a][k] /\ r[j] = ss[b][l] /\ (a < b \/ (a = b /\ k < l))
  <2>1. CASE j \in DOMAIN s
    <3>1. i \in DOMAIN s /\ r[i] = s[i] /\ r[j] = s[j]
      BY <1>2, <1>3, <1>6, <2>1
    <3> QED
      BY <1>6, <2>1, <3>1 DEF Chains
  <2>2. CASE i \in DOMAIN s /\ j > Len(s)
    <3>1. PICK a \in 1..n : \E k \in DOMAIN ss[a] : r[i] = ss[a][k]
      BY <1>3, <2>2 DEF Chains
    <3>2. r[j] = ss[n + 1][j - Len(s)] /\ j - Len(s) \in DOMAIN ss[n + 1]
      BY <1>3, <2>2
    <3>3. a \in 1..(n + 1) /\ n + 1 \in 1..(n + 1) /\ a < n + 1
      OBVIOUS
    <3> QED
      BY <3>1, <3>2, <3>3
  <2>3. CASE i > Len(s)
    <3>1. /\ r[i] = ss[n + 1][i - Len(s)] /\ i - Len(s) \in DOMAIN ss[n + 1]
          /\ r[j] = ss[n + 1][j - Len(s)] /\ j - Len(s) \in DOMAIN ss[n + 1]
      BY <1>2, <1>3, <1>6, <2>3
    <3>2. i - Len(s) < j - Len(s) /\ n + 1 \in 1..(n + 1)
      BY <1>2, <1>3, <1>6
    <3> QED
      BY <3>1, <3>2
  <2> QED
    BY <1>2, <1>3, <2>1, <2>2, <2>3
<1>7. Chains(r, ss, n + 1)
  BY <1>3, <1>4, <1>5, <1>6 DEF Chains
<1> QED
  BY <1>7 DEF r

\* FlattenSeq of lists is their elements in order.
LEMMA Flattened ==
  ASSUME NEW ss, IsList(ss), \A a \in DOMAIN ss : IsList(ss[a])
  PROVE  Chains(FlattenSeq(ss), ss, Len(ss))
<1>1. Len(ss) \in Nat /\ DOMAIN ss = 1..Len(ss)
  BY ListFacts
<1>2. CASE Len(ss) = 0
  <2>1. ss = <<>> /\ FlattenSeq(ss) = ss
    BY <1>2 DEF FlattenSeq, IsList
  <2> QED
    BY <1>2, <2>1 DEF Chains
<1>3. CASE Len(ss) # 0
  <2>1. PICK f : Flattens(f, ss, Len(ss)) /\ FlattenSeq(ss) = f[Len(ss)]
    BY <1>1, <1>3, FlattenIs
  <2> DEFINE T == {0} \cup {m \in 1..Len(ss) : Chains(f[m], ss, m)}
  <2>2. 0 \in T
    OBVIOUS
  <2>3. ASSUME NEW m \in 0..(Len(ss) - 1), m \in T PROVE m + 1 \in T
    <3>1. m + 1 \in 1..Len(ss) /\ m \in Nat
      BY <1>1
    <3>2. CASE m = 0
      <4>1. f[1] = ss[1] /\ IsList(ss[1])
        <5>1. 1 \in 1..Len(ss)
          BY <3>1, <3>2
        <5> QED
          BY <1>1, <2>1, <5>1 DEF Flattens
      <4>2. Chains(ss[1], ss, 1)
        <5>1. 1..1 = {1}
          OBVIOUS
        <5> QED
          BY <4>1, <5>1 DEF Chains
      <4> QED
        BY <3>1, <3>2, <4>1, <4>2
    <3>3. CASE m # 0
      <4>1. Chains(f[m], ss, m)
        BY <2>3, <3>3
      <4>2. f[m + 1] = f[m] \o ss[m + 1]
        <5>1. m + 1 # 1 /\ (m + 1) - 1 = m
          BY <3>1, <3>3
        <5>2. \A i \in 1..Len(ss) : i # 1 => f[i] = f[i - 1] \o ss[i]
          BY <2>1 DEF Flattens
        <5> QED
          BY <3>1, <5>1, <5>2
      <4>3. Chains(f[m] \o ss[m + 1], ss, m + 1)
        BY <1>1, <3>1, <3>3, <4>1, ChainsOn
      <4> QED
        BY <3>1, <4>2, <4>3
    <3> QED
      BY <3>2, <3>3
  <2> HIDE DEF T
  <2>4. 0..Len(ss) \subseteq T
    BY <1>1, <2>2, <2>3, Induction
  <2>5. Len(ss) \in T
    BY <1>1, <2>4
  <2> QED
    BY <1>3, <2>1, <2>5 DEF T
<1> QED
  BY <1>2, <1>3

\* Only keeps what is in S, in its order.
LEMMA OnlyKeeps ==
  ASSUME NEW list, IsList(list), NEW S
  PROVE  IsList(Only(list, S)) /\ ToSet(Only(list, S)) = ToSet(list) \cap S
<1> DEFINE ss == [i \in DOMAIN list |-> IF list[i] \in S THEN <<list[i]>> ELSE <<>>]
<1>1. Len(list) \in Nat /\ DOMAIN list = 1..Len(list)
  BY ListFacts
<1>2. IsList(ss) /\ Len(ss) = Len(list)
  BY <1>1, ListFrom
<1>3. \A i \in 1..Len(list) :
        IF list[i] \in S THEN DOMAIN ss[i] = {1} /\ ss[i][1] = list[i] ELSE DOMAIN ss[i] = {}
  BY <1>1
<1>4. ASSUME NEW i \in DOMAIN ss PROVE IsList(ss[i])
  <2>1. ss[i] = <<list[i]>> \/ ss[i] = <<>>
    OBVIOUS
  <2>2. <<list[i]>> \in Seq({list[i]}) /\ <<>> \in Seq({list[i]})
    OBVIOUS
  <2> QED
    BY <2>1, <2>2, ListOf
<1>5. Only(list, S) = FlattenSeq(ss)
  BY DEF Only
<1> HIDE DEF ss
<1>6. PICK s : s = Only(list, S)
  OBVIOUS
<1>7. Chains(s, ss, Len(list))
  BY <1>2, <1>4, <1>5, <1>6, Flattened
<1>8. ASSUME NEW x \in ToSet(s) PROVE x \in ToSet(list) \cap S
  <2>1. PICK i \in DOMAIN s : x = s[i]
    BY DEF ToSet
  <2>2. PICK a \in 1..Len(list) : \E k \in DOMAIN ss[a] : x = ss[a][k]
    BY <1>7, <2>1 DEF Chains
  <2>3. list[a] \in S /\ x = list[a]
    BY <1>3, <2>2
  <2> QED
    BY <1>1, <2>3 DEF ToSet
<1>9. \A x \in ToSet(list) \cap S : x \in ToSet(s)
  <2>1. ASSUME NEW x \in ToSet(list), x \in S PROVE x \in ToSet(s)
    <3>1. PICK a \in 1..Len(list) : list[a] = x
      BY <1>1 DEF ToSet
    <3>2. 1 \in DOMAIN ss[a] /\ ss[a][1] = x
      BY <1>3, <2>1, <3>1
    <3>3. PICK i \in DOMAIN s : s[i] = x
      BY <1>7, <3>2 DEF Chains
    <3> QED
      BY <3>3 DEF ToSet
  <2> QED
    BY <2>1
<1> QED
  BY <1>6, <1>7, <1>8, <1>9 DEF Chains

\* R orders the elements of S.
Orders(R, S) ==
  /\ \A a, b \in S : a # b => <<a, b>> \in R \/ <<b, a>> \in R
  /\ \A a \in S : <<a, a>> \notin R
  /\ \A a, b, c \in S : <<a, b>> \in R /\ <<b, c>> \in R => <<a, c>> \in R

\* The elements of a finite set can be put in their order.
LEMMA OrderedSequence ==
  ASSUME NEW S, IsFiniteSet(S), NEW R, Orders(R, S)
  PROVE  \E s \in [1..Cardinality(S) -> S] : \A i, j \in DOMAIN s : i < j => <<s[i], s[j]>> \in R
<1> DEFINE n == Cardinality(S)
           below == [x \in S |-> {y \in S : <<y, x>> \in R}]
<1>1. n \in Nat
  BY FS_CardinalityType
<1>2. \A x \in S : below[x] \in SUBSET S /\ \A y \in S : y \in below[x] <=> <<y, x>> \in R
  OBVIOUS
<1> HIDE DEF n, below
<1>3. ASSUME NEW x \in S
      PROVE  IsFiniteSet(below[x]) /\ Cardinality(below[x]) \in Nat /\ Cardinality(below[x]) < n
  <2>1. x \notin below[x]
    BY <1>2 DEF Orders
  <2>2. below[x] \in SUBSET S /\ below[x] # S
    BY <1>2, <2>1
  <2>3. /\ IsFiniteSet(below[x]) /\ Cardinality(below[x]) <= n
        /\ n = Cardinality(below[x]) => S = below[x]
    BY <2>2, FS_Subset DEF n
  <2>4. Cardinality(below[x]) \in Nat
    BY <2>3, FS_CardinalityType
  <2> QED
    BY <1>1, <2>2, <2>3, <2>4
<1>4. ASSUME NEW x \in S, NEW y \in S, <<x, y>> \in R
      PROVE  Cardinality(below[x]) < Cardinality(below[y])
  <2>1. below[x] \in SUBSET below[y] /\ below[x] # below[y]
    BY <1>2, <1>4 DEF Orders
  <2>2. IsFiniteSet(below[y]) /\ Cardinality(below[x]) \in Nat /\ Cardinality(below[y]) \in Nat
    BY <1>3
  <2>3. /\ Cardinality(below[x]) <= Cardinality(below[y])
        /\ Cardinality(below[y]) = Cardinality(below[x]) => below[y] = below[x]
    BY <2>1, <2>2, FS_Subset
  <2> QED
    BY <2>1, <2>2, <2>3
<1> DEFINE rank == [x \in S |-> Cardinality(below[x]) + 1]
<1>5. /\ rank \in [S -> 1..n]
      /\ \A x, y \in S : <<x, y>> \in R => rank[x] < rank[y]
  <2>1. \A x \in S : Cardinality(below[x]) + 1 \in 1..n
    BY <1>1, <1>3
  <2>2. \A x, y \in S : <<x, y>> \in R => Cardinality(below[x]) + 1 < Cardinality(below[y]) + 1
    BY <1>3, <1>4
  <2> QED
    BY <2>1, <2>2
<1> HIDE DEF rank
<1>6. rank \in Injection(S, 1..n)
  <2>1. ASSUME NEW x \in S, NEW y \in S, x # y PROVE rank[x] # rank[y]
    <3>1. <<x, y>> \in R \/ <<y, x>> \in R
      BY <2>1 DEF Orders
    <3>2. rank[x] < rank[y] \/ rank[y] < rank[x]
      BY <1>5, <3>1
    <3>3. rank[x] \in Nat /\ rank[y] \in Nat
      BY <1>5
    <3> QED
      BY <3>2, <3>3
  <2> QED
    BY <1>5, <2>1 DEF Injection, IsInjective
<1>7. \A i \in 1..n : \E x \in S : rank[x] = i
  <2>1. IsFiniteSet(1..n) /\ Cardinality(1..n) = n
    BY <1>1, FS_Interval
  <2>2. rank \in Surjection(S, 1..n)
    BY <1>6, <2>1, FS_Injection DEF n
  <2> QED
    BY <2>2 DEF Surjection
<1> DEFINE s == [i \in 1..n |-> CHOOSE x \in S : rank[x] = i]
<1>8. \A i \in 1..n : s[i] \in S /\ rank[s[i]] = i
  BY <1>7
<1>9. s \in [1..n -> S]
  BY <1>7
<1> HIDE DEF s
<1>10. ASSUME NEW i \in 1..n, NEW j \in 1..n, i < j PROVE <<s[i], s[j]>> \in R
  <2>1. s[i] # s[j] /\ ~(rank[s[j]] < rank[s[i]])
    BY <1>1, <1>8, <1>10
  <2> QED
    BY <1>5, <1>8, <2>1 DEF Orders
<1>11. \A i, j \in DOMAIN s : i < j => <<s[i], s[j]>> \in R
  BY <1>9, <1>10
<1> QED
  BY <1>9, <1>11 DEF n

\* What is in the alphabet has a place of its own in it.
LEMMA Places ==
  ASSUME NEW x \in ToSet(Alphabet)
  PROVE  Pos(x) \in 1..Len(Alphabet) /\ Alphabet[Pos(x)] = x
<1>1. DOMAIN Alphabet = 1..Len(Alphabet)
  BY AlphabetIsOrdered, ListFacts
<1>2. \E i \in DOMAIN Alphabet : Alphabet[i] = x
  BY DEF ToSet
<1> QED
  BY <1>1, <1>2 DEF Pos

LEMMA LexThree ==
  ASSUME NEW a1 \in Int, NEW a2 \in Int, NEW a3 \in Int, NEW b1 \in Int, NEW b2 \in Int, NEW b3 \in Int
  PROVE  Lex(<<a1, a2, a3>>, <<b1, b2, b3>>) <=>
           a1 < b1 \/ (a1 = b1 /\ (a2 < b2 \/ (a2 = b2 /\ a3 < b3)))
<1> DEFINE a == <<a1, a2, a3>>
           b == <<b1, b2, b3>>
<1>1. DOMAIN a = {1, 2, 3} /\ a[1] = a1 /\ a[2] = a2 /\ a[3] = a3 /\ b[1] = b1 /\ b[2] = b2 /\ b[3] = b3
  OBVIOUS
<1> HIDE DEF a, b
<1>2. Lex(a, b) <=> \E i \in {1, 2, 3} : a[i] < b[i] /\ \A j \in 1..(i - 1) : a[j] = b[j]
  BY <1>1 DEF Lex
<1>3. 1..0 = {} /\ 1..1 = {1} /\ 1..2 = {1, 2}
  OBVIOUS
<1>4. Lex(a, b) <=> a[1] < b[1] \/ (a[2] < b[2] /\ a[1] = b[1]) \/ (a[3] < b[3] /\ a[1] = b[1] /\ a[2] = b[2])
  BY <1>2, <1>3
<1> QED
  BY <1>1, <1>4 DEF a, b

-----------------------------------------------------------------------------
(***************************************************************************)
(* StableSort.                                                             *)
(***************************************************************************)

\* s is list in another order, ascending in the keys.
InKeyOrder(s, list, keys) ==
  /\ IsList(s) /\ DOMAIN s = DOMAIN list
  /\ \E place \in [DOMAIN list -> DOMAIN list] :
       /\ \A i \in DOMAIN list : s[i] = list[place[i]]
       /\ \A k \in DOMAIN list : \E i \in DOMAIN list : place[i] = k
       /\ \A i, j \in DOMAIN list :
            i < j => place[i] # place[j] /\ keys[place[i]] <= keys[place[j]]

LEMMA StableSorts ==
  ASSUME NEW list, IsList(list), NEW keys, \A i \in DOMAIN list : keys[i] \in Int
  PROVE  InKeyOrder(StableSort(list, keys), list, keys)
<1> DEFINE n == Len(list)
           R == {r \in (1..n) \X (1..n) :
                   keys[r[1]] < keys[r[2]] \/ (keys[r[1]] = keys[r[2]] /\ r[1] < r[2])}
<1>1. n \in Nat /\ DOMAIN list = 1..n
  BY ListFacts
<1>2. \A i, j \in 1..n : <<i, j>> \in R <=> keys[i] < keys[j] \/ (keys[i] = keys[j] /\ i < j)
  OBVIOUS
<1> HIDE DEF R
<1>3. \A i \in 1..n : keys[i] \in Int /\ i \in Int
  BY <1>1
<1>4. IsFiniteSet(1..n) /\ Cardinality(1..n) = n
  BY <1>1, FS_Interval
<1>5. \E s \in [1..n -> 1..n] : \A i, j \in DOMAIN s : i < j => <<s[i], s[j]>> \in R
  <2>1. \A a, b \in 1..n : a # b => <<a, b>> \in R \/ <<b, a>> \in R
    BY <1>2, <1>3
  <2>2. \A a \in 1..n : <<a, a>> \notin R
    BY <1>2, <1>3
  <2>3. \A a, b, c \in 1..n : <<a, b>> \in R /\ <<b, c>> \in R => <<a, c>> \in R
    BY <1>2, <1>3
  <2>4. Orders(R, 1..n)
    BY <2>1, <2>2, <2>3 DEF Orders
  <2> QED
    BY <1>4, <2>4, OrderedSequence
<1> DEFINE D == DOMAIN list
           place == CHOOSE s \in [1..Cardinality(D) -> D] : \A i, j \in DOMAIN s :
                      i < j => keys[s[i]] < keys[s[j]] \/ (keys[s[i]] = keys[s[j]] /\ s[i] < s[j])
<1>6. \E s \in [1..Cardinality(D) -> D] : \A i, j \in DOMAIN s :
        i < j => keys[s[i]] < keys[s[j]] \/ (keys[s[i]] = keys[s[j]] /\ s[i] < s[j])
  <2>1. D = 1..n /\ Cardinality(D) = n
    BY <1>1, <1>4
  <2> HIDE DEF D, n
  <2> QED
    BY <1>2, <1>5, <2>1
<1>7. /\ place \in [1..Cardinality(D) -> D]
      /\ \A i, j \in DOMAIN place :
           i < j => \/ keys[place[i]] < keys[place[j]]
                    \/ keys[place[i]] = keys[place[j]] /\ place[i] < place[j]
  BY <1>6
<1>8. StableSort(list, keys) = [i \in DOMAIN list |-> list[place[i]]]
  BY DEF StableSort, InOrder
<1> HIDE DEF place
<1>9. place \in [1..n -> 1..n]
  BY <1>1, <1>4, <1>7
<1>10. ASSUME NEW i \in 1..n, NEW j \in 1..n, i < j
      PROVE  place[i] # place[j] /\ keys[place[i]] <= keys[place[j]]
  <2>1. /\ i \in DOMAIN place /\ j \in DOMAIN place /\ place[i] \in 1..n /\ place[j] \in 1..n
        /\ keys[place[i]] \in Int /\ keys[place[j]] \in Int
    BY <1>3, <1>9
  <2>2. \/ keys[place[i]] < keys[place[j]]
        \/ keys[place[i]] = keys[place[j]] /\ place[i] < place[j]
    BY <1>7, <1>10, <2>1
  <2> QED
    BY <2>1, <2>2
<1>11. \A k \in 1..n : \E i \in 1..n : place[i] = k
  <2>1. \A i, j \in 1..n : i # j => place[i] # place[j]
    BY <1>10
  <2>2. place \in Injection(1..n, 1..n)
    BY <1>9, <2>1 DEF Injection, IsInjective
  <2>3. place \in Surjection(1..n, 1..n)
    BY <1>4, <2>2, FS_Injection
  <2> QED
    BY <2>3 DEF Surjection
<1>12. PICK s : s = StableSort(list, keys)
  OBVIOUS
<1>13. DOMAIN s = 1..n /\ s = [i \in 1..n |-> s[i]] /\ \A i \in 1..n : s[i] = list[place[i]]
  BY <1>1, <1>8, <1>12
<1>14. IsList(s)
  BY <1>1, <1>13, ListFrom
<1>15. InKeyOrder(s, list, keys)
  BY <1>1, <1>10, <1>11, <1>13, <1>14, <1>9 DEF InKeyOrder
<1> QED
  BY <1>12, <1>15

\* Sorting loses nothing and adds nothing.
LEMMA SortedElements ==
  ASSUME NEW s, NEW list, NEW keys, InKeyOrder(s, list, keys)
  PROVE  ToSet(s) = ToSet(list)
<1>1. PICK place \in [DOMAIN list -> DOMAIN list] :
        /\ \A i \in DOMAIN list : s[i] = list[place[i]]
        /\ \A k \in DOMAIN list : \E i \in DOMAIN list : place[i] = k
  BY DEF InKeyOrder
<1>2. DOMAIN s = DOMAIN list
  BY DEF InKeyOrder
<1>3. \A x \in ToSet(s) : x \in ToSet(list)
  BY <1>1, <1>2 DEF ToSet
<1>4. \A x \in ToSet(list) : x \in ToSet(s)
  BY <1>1, <1>2 DEF ToSet
<1> QED
  BY <1>3, <1>4

-----------------------------------------------------------------------------
(***************************************************************************)
(* What a search prints of a package.                                      *)
(***************************************************************************)

\* What the last column holds: a version, or the channels.
Cell(row, listVersions) == IF listVersions THEN row[4] ELSE ToSet(row[4])

Cells(content, package, listVersions) ==
  IF listVersions
    THEN {b.version : b \in {d \in ToSet(content.bundles) : d.package = package /\ d.version # Unset}}
    ELSE {{d.name : d \in {e \in ToSet(content.channels) : e.package = package}}}

\* Rows of the same package: there are several of versions only, and these descend.
Descend(a, b, listVersions) == listVersions /\ Pos(a[4]) >= Pos(b[4])

ShowsPackage(rs, content, catalog, package, listVersions) ==
  /\ IsList(rs)
  /\ \A i \in DOMAIN rs : /\ rs[i][1] = package /\ rs[i][2] = catalog
                          /\ Cell(rs[i], listVersions) \in Cells(content, package, listVersions)
  /\ \A x \in Cells(content, package, listVersions) : \E i \in DOMAIN rs : Cell(rs[i], listVersions) = x
  /\ \A i, j \in DOMAIN rs : i < j => Descend(rs[i], rs[j], listVersions)

LEMMA OfPackages ==
  ASSUME NEW list, IsList(list), NEW package
  PROVE  /\ IsList(Of(list, package))
         /\ ToSet(Of(list, package)) = {e \in ToSet(list) : e.package = package}
<1> DEFINE S == {e \in ToSet(list) : e.package = package}
<1>1. IsList(Only(list, S)) /\ ToSet(Only(list, S)) = ToSet(list) \cap S
  BY OnlyKeeps
<1>2. Of(list, package) = Only(list, S)
  BY DEF Of
<1> QED
  BY <1>1, <1>2

LEMMA VersionsShown ==
  ASSUME NEW content, IsContent(content), NEW catalog, NEW package,
         NEW listVersions, listVersions
  PROVE  ShowsPackage(VersionRows(content, catalog, package), content, catalog, package, listVersions)
<1> DEFINE bundles == BundlesOf(content, package)
           S       == {b \in ToSet(bundles) : getBundleVersion(b) # Unset}
           known   == Only(bundles, S)
           keys    == [i \in DOMAIN known |-> -Pos(known[i].version)]
           sorted  == StableSort(known, keys)
           C       == {b \in ToSet(content.bundles) : b.package = package /\ b.version # Unset}
<1>1. IsList(bundles) /\ ToSet(bundles) = {b \in ToSet(content.bundles) : b.package = package}
  BY OfPackages DEF IsContent, BundlesOf
<1>2. IsList(known) /\ ToSet(known) = C
  <2>1. IsList(known) /\ ToSet(known) = ToSet(bundles) \cap S
    BY <1>1, OnlyKeeps
  <2>2. ToSet(bundles) \cap S = C
    BY <1>1 DEF getBundleVersion
  <2> QED
    BY <2>1, <2>2
<1>3. \A b \in C : b.version \in ToSet(Alphabet)
  BY DEF IsContent
<1> DEFINE rs == [i \in DOMAIN sorted |->
                    <<package, catalog, getCSVProvider(content, package), sorted[i].version>>]
<1>4. VersionRows(content, catalog, package) = rs
  BY DEF VersionRows
<1> HIDE DEF S, known, bundles, C
<1>5. \A i \in DOMAIN known : Pos(known[i].version) \in Int /\ keys[i] = -Pos(known[i].version)
  <2>1. ASSUME NEW i \in DOMAIN known PROVE Pos(known[i].version) \in Int
    <3>1. known[i].version \in ToSet(Alphabet)
      BY <1>2, <1>3 DEF ToSet
    <3> QED
      BY <3>1, Places
  <2> QED
    BY <2>1
<1>6. \A i \in DOMAIN known : keys[i] \in Int
  BY <1>5
<1> HIDE DEF keys
<1>7. InKeyOrder(sorted, known, keys) /\ ToSet(sorted) = C
  BY <1>2, <1>6, StableSorts, SortedElements
<1> HIDE DEF sorted
<1>8. Len(sorted) \in Nat /\ DOMAIN sorted = 1..Len(sorted)
  BY <1>7, ListFacts DEF InKeyOrder
<1>9. DOMAIN rs = 1..Len(sorted) /\ rs = [i \in 1..Len(sorted) |-> rs[i]]
  BY <1>8
<1>10. \A i \in DOMAIN rs : rs[i][1] = package /\ rs[i][2] = catalog /\ rs[i][4] = sorted[i].version
  BY <1>8
<1> DEFINE V == {b.version : b \in C}
<1>11. Cells(content, package, listVersions) = V
  BY DEF Cells, C
<1> HIDE DEF rs
<1>12. \A i \in DOMAIN rs : rs[i][4] \in V
  <2>1. \A i \in DOMAIN sorted : sorted[i] \in C
    BY <1>7 DEF ToSet
  <2> QED
    BY <1>8, <1>9, <1>10, <2>1
<1>13. \A x \in V : \E i \in DOMAIN rs : rs[i][4] = x
  <2>1. \A b \in C : \E i \in DOMAIN sorted : sorted[i] = b
    BY <1>7 DEF ToSet
  <2> QED
    BY <1>8, <1>9, <1>10, <2>1
<1>14. ASSUME NEW i \in DOMAIN rs, NEW j \in DOMAIN rs, i < j PROVE Pos(rs[i][4]) >= Pos(rs[j][4])
  <2>1. PICK place \in [DOMAIN known -> DOMAIN known] :
          /\ \A k \in DOMAIN known : sorted[k] = known[place[k]]
          /\ \A k, l \in DOMAIN known : k < l => keys[place[k]] <= keys[place[l]]
    BY <1>7 DEF InKeyOrder
  <2>2. i \in DOMAIN known /\ j \in DOMAIN known
    BY <1>7, <1>8, <1>9 DEF InKeyOrder
  <2>3. PICK k \in DOMAIN known, l \in DOMAIN known : k = place[i] /\ l = place[j]
    BY <2>2
  <2>4. keys[k] <= keys[l] /\ rs[i][4] = known[k].version /\ rs[j][4] = known[l].version
    BY <1>10, <1>14, <2>1, <2>2, <2>3
  <2> QED
    BY <1>5, <2>4
<1>15. IsList(rs)
  BY <1>8, <1>9, ListFrom
<1>16. ShowsPackage(rs, content, catalog, package, listVersions)
  <2>1. \A x : x \in Cells(content, package, listVersions) <=> x \in V
    BY <1>11
  <2> HIDE DEF V
  <2> QED
    BY <1>10, <1>12, <1>13, <1>14, <1>15, <2>1 DEF ShowsPackage, Cell, Descend
<1> QED
  BY <1>4, <1>16

LEMMA ChannelsShown ==
  ASSUME NEW content, IsContent(content), NEW catalog, NEW package,
         NEW listVersions, ~listVersions
  PROVE  ShowsPackage(<<ChannelRow(content, catalog, package)>>, content, catalog, package, listVersions)
<1> DEFINE channels == ChannelsOf(content, package)
           keys     == [i \in DOMAIN channels |-> Pos(channels[i].name)]
           sorted   == StableSort(channels, keys)
           C        == {c \in ToSet(content.channels) : c.package = package}
           names    == [i \in DOMAIN sorted |-> sorted[i].name]
<1>1. IsList(channels) /\ ToSet(channels) = C
  BY OfPackages DEF IsContent, ChannelsOf
<1>2. \A c \in C : c.name \in ToSet(Alphabet)
  BY DEF IsContent
<1>3. ChannelRow(content, catalog, package) = <<package, catalog, "", names>>
  BY DEF ChannelRow
<1> HIDE DEF channels, C
<1>4. \A i \in DOMAIN channels : keys[i] \in Int
  <2>1. ASSUME NEW i \in DOMAIN channels PROVE Pos(channels[i].name) \in Int
    <3>1. channels[i].name \in ToSet(Alphabet)
      BY <1>1, <1>2 DEF ToSet
    <3> QED
      BY <3>1, Places
  <2> QED
    BY <2>1
<1> HIDE DEF keys
<1>5. ToSet(sorted) = C
  BY <1>1, <1>4, StableSorts, SortedElements
<1> HIDE DEF sorted
<1> DEFINE N == {c.name : c \in C}
<1>6. ToSet(names) = N
  BY <1>5 DEF ToSet
<1>7. Cells(content, package, listVersions) = {N}
  BY DEF Cells, C
<1> HIDE DEF names, N
<1> DEFINE row == <<package, catalog, "", names>>
           rs  == <<row>>
<1>8. row[1] = package /\ row[2] = catalog /\ Cell(row, listVersions) = N
  BY <1>6 DEF Cell
<1> HIDE DEF row
<1>9. IsList(rs) /\ DOMAIN rs = {1} /\ rs[1] = row
  BY SingleList
<1> HIDE DEF rs
<1>10. ShowsPackage(rs, content, catalog, package, listVersions)
  <2>1. 1 \in DOMAIN rs /\ \A i, j \in DOMAIN rs : ~(i < j)
    BY <1>9
  <2>2. \A x : x \in Cells(content, package, listVersions) <=> x = N
    BY <1>7
  <2> QED
    BY <1>8, <1>9, <2>1, <2>2 DEF ShowsPackage
<1> QED
  BY <1>3, <1>10 DEF rs, row

LEMMA PackageShown ==
  ASSUME NEW content, IsContent(content), NEW catalog, NEW package, NEW listVersions
  PROVE  ShowsPackage(PackageRows(content, catalog, package, listVersions),
                      content, catalog, package, listVersions)
BY VersionsShown, ChannelsShown DEF PackageRows

-----------------------------------------------------------------------------
(***************************************************************************)
(* What it prints of a catalog, and of all.                                *)
(***************************************************************************)

ShowsCatalog(rs, content, catalog, listVersions) ==
  /\ IsList(rs)
  /\ \A i \in DOMAIN rs :
       /\ rs[i][1] \in ToSet(content.packages) /\ rs[i][2] = catalog
       /\ Cell(rs[i], listVersions) \in Cells(content, rs[i][1], listVersions)
  /\ \A package \in ToSet(content.packages) : \A x \in Cells(content, package, listVersions) :
       \E i \in DOMAIN rs : rs[i][1] = package /\ Cell(rs[i], listVersions) = x
  /\ \A i, j \in DOMAIN rs : i < j =>
       \/ Pos(rs[i][1]) < Pos(rs[j][1])
       \/ rs[i][1] = rs[j][1] /\ Descend(rs[i], rs[j], listVersions)

\* The packages of a content, sorted, ascend strictly: each is listed once.
LEMMA SortedPackages ==
  ASSUME NEW content, IsContent(content), NEW sorted,
         sorted = StableSort(content.packages,
                             [i \in DOMAIN content.packages |-> Pos(content.packages[i])])
  PROVE  /\ IsList(sorted) /\ ToSet(sorted) = ToSet(content.packages)
         /\ \A i, j \in DOMAIN sorted : i < j => Pos(sorted[i]) < Pos(sorted[j])
<1>1. PICK packages : packages = content.packages
  OBVIOUS
<1> DEFINE keys == [i \in DOMAIN packages |-> Pos(packages[i])]
<1>2. /\ IsList(packages) /\ ToSet(packages) \subseteq ToSet(Alphabet)
      /\ \A i, j \in DOMAIN packages : packages[i] = packages[j] => i = j
  BY <1>1 DEF IsContent
<1>3. \A i \in DOMAIN packages :
        Pos(packages[i]) \in Int /\ Alphabet[Pos(packages[i])] = packages[i] /\ keys[i] = Pos(packages[i])
  <2>1. \A i \in DOMAIN packages : packages[i] \in ToSet(Alphabet)
    BY <1>2 DEF ToSet
  <2>2. \A x \in ToSet(Alphabet) : Pos(x) \in Int /\ Alphabet[Pos(x)] = x
    BY Places
  <2> QED
    BY <2>1, <2>2
<1> HIDE DEF keys
<1>4. InKeyOrder(sorted, packages, keys)
  <2>1. sorted = StableSort(packages, keys)
    BY <1>1 DEF keys
  <2> QED
    BY <1>2, <1>3, <2>1, StableSorts
<1>5. ASSUME NEW i \in DOMAIN sorted, NEW j \in DOMAIN sorted, i < j
      PROVE  Pos(sorted[i]) < Pos(sorted[j])
  <2>1. PICK place \in [DOMAIN packages -> DOMAIN packages] :
          /\ \A k \in DOMAIN packages : sorted[k] = packages[place[k]]
          /\ \A k, l \in DOMAIN packages :
               k < l => place[k] # place[l] /\ keys[place[k]] <= keys[place[l]]
    BY <1>4 DEF InKeyOrder
  <2>2. i \in DOMAIN packages /\ j \in DOMAIN packages
    BY <1>4 DEF InKeyOrder
  <2>3. PICK k \in DOMAIN packages, l \in DOMAIN packages : k = place[i] /\ l = place[j]
    BY <2>2
  <2>4. keys[k] <= keys[l] /\ k # l /\ sorted[i] = packages[k] /\ sorted[j] = packages[l]
    BY <1>5, <2>1, <2>2, <2>3
  <2>5. packages[k] # packages[l]
    BY <1>2, <2>4
  <2> QED
    BY <1>3, <2>4, <2>5
<1>6. IsList(sorted) /\ ToSet(sorted) = ToSet(packages)
  BY <1>4, SortedElements DEF InKeyOrder
<1> QED
  BY <1>1, <1>5, <1>6

LEMMA CatalogShown ==
  ASSUME NEW content, IsContent(content), NEW catalog, NEW listVersions
  PROVE  ShowsCatalog(CatalogRows(content, catalog, listVersions), content, catalog, listVersions)
<1>1. PICK sorted : sorted = StableSort(content.packages,
                                       [i \in DOMAIN content.packages |-> Pos(content.packages[i])])
  OBVIOUS
<1>2. /\ IsList(sorted) /\ ToSet(sorted) = ToSet(content.packages)
      /\ \A i, j \in DOMAIN sorted : i < j => Pos(sorted[i]) < Pos(sorted[j])
  BY <1>1, SortedPackages
<1> DEFINE ss == [i \in DOMAIN sorted |-> PackageRows(content, catalog, sorted[i], listVersions)]
<1>3. PICK rs : rs = CatalogRows(content, catalog, listVersions)
  OBVIOUS
<1>4. rs = FlattenSeq(ss)
  BY <1>1, <1>3 DEF CatalogRows
<1>5. \A a \in DOMAIN sorted : ShowsPackage(ss[a], content, catalog, sorted[a], listVersions)
  BY PackageShown
<1>6. DOMAIN ss = 1..Len(sorted) /\ ss = [i \in 1..Len(sorted) |-> ss[i]] /\ Len(sorted) \in Nat
  BY <1>2, ListFacts
<1> HIDE DEF ss
<1>7. IsList(ss) /\ Len(ss) = Len(sorted) /\ DOMAIN sorted = 1..Len(sorted)
  BY <1>2, <1>6, ListFrom, ListFacts
<1>8. Chains(rs, ss, Len(sorted))
  BY <1>4, <1>5, <1>6, <1>7, Flattened DEF ShowsPackage
<1>9. ASSUME NEW i \in DOMAIN rs
      PROVE  /\ rs[i][1] \in ToSet(content.packages) /\ rs[i][2] = catalog
             /\ Cell(rs[i], listVersions) \in Cells(content, rs[i][1], listVersions)
  <2>1. PICK a \in 1..Len(sorted) : \E k \in DOMAIN ss[a] : rs[i] = ss[a][k]
    BY <1>8 DEF Chains
  <2>2. PICK k \in DOMAIN ss[a] : rs[i] = ss[a][k]
    BY <2>1
  <2>3. ShowsPackage(ss[a], content, catalog, sorted[a], listVersions)
    BY <1>5, <1>7
  <2>4. /\ ss[a][k][1] = sorted[a] /\ ss[a][k][2] = catalog
        /\ Cell(ss[a][k], listVersions) \in Cells(content, sorted[a], listVersions)
    BY <2>3 DEF ShowsPackage
  <2>5. sorted[a] \in ToSet(content.packages)
    BY <1>2, <1>7 DEF ToSet
  <2> QED
    BY <2>2, <2>4, <2>5
<1>10. ASSUME NEW package \in ToSet(content.packages), NEW x \in Cells(content, package, listVersions)
       PROVE  \E i \in DOMAIN rs : rs[i][1] = package /\ Cell(rs[i], listVersions) = x
  <2>1. PICK a \in 1..Len(sorted) : sorted[a] = package
    BY <1>2, <1>7 DEF ToSet
  <2>2. ShowsPackage(ss[a], content, catalog, package, listVersions)
    BY <1>5, <1>7, <2>1
  <2>3. PICK k \in DOMAIN ss[a] : ss[a][k][1] = package /\ Cell(ss[a][k], listVersions) = x
    BY <2>2 DEF ShowsPackage
  <2>4. PICK i \in DOMAIN rs : rs[i] = ss[a][k]
    BY <1>8 DEF Chains
  <2> QED
    BY <2>3, <2>4
<1>11. ASSUME NEW i \in DOMAIN rs, NEW j \in DOMAIN rs, i < j
       PROVE  \/ Pos(rs[i][1]) < Pos(rs[j][1])
              \/ rs[i][1] = rs[j][1] /\ Descend(rs[i], rs[j], listVersions)
  <2>1. PICK a \in 1..Len(sorted), b \in 1..Len(sorted) :
          \E k \in DOMAIN ss[a], l \in DOMAIN ss[b] :
            rs[i] = ss[a][k] /\ rs[j] = ss[b][l] /\ (a < b \/ (a = b /\ k < l))
    BY <1>8, <1>11 DEF Chains
  <2>2. PICK k \in DOMAIN ss[a], l \in DOMAIN ss[b] :
          rs[i] = ss[a][k] /\ rs[j] = ss[b][l] /\ (a < b \/ (a = b /\ k < l))
    BY <2>1
  <2>3. /\ ShowsPackage(ss[a], content, catalog, sorted[a], listVersions)
        /\ ShowsPackage(ss[b], content, catalog, sorted[b], listVersions)
    BY <1>5, <1>7
  <2>4. rs[i][1] = sorted[a] /\ rs[j][1] = sorted[b]
    BY <2>2, <2>3 DEF ShowsPackage
  <2>5. CASE a < b
    BY <1>2, <1>7, <2>4, <2>5
  <2>6. CASE a = b /\ k < l
    BY <2>2, <2>3, <2>4, <2>6 DEF ShowsPackage
  <2> QED
    BY <2>2, <2>5, <2>6
<1>12. ShowsCatalog(rs, content, catalog, listVersions)
  BY <1>8, <1>9, <1>10, <1>11 DEF ShowsCatalog, Chains
<1> QED
  BY <1>3, <1>12

ShowsAll(rs, contents, listVersions) ==
  /\ \A i \in DOMAIN rs :
       /\ rs[i][2] \in DOMAIN contents /\ rs[i][1] \in ToSet(contents[rs[i][2]].packages)
       /\ Cell(rs[i], listVersions) \in Cells(contents[rs[i][2]], rs[i][1], listVersions)
  /\ \A c \in DOMAIN contents : \A package \in ToSet(contents[c].packages) :
       \A x \in Cells(contents[c], package, listVersions) :
         \E i \in DOMAIN rs : rs[i][2] = c /\ rs[i][1] = package /\ Cell(rs[i], listVersions) = x
  /\ \A i, j \in DOMAIN rs : i < j =>
       \/ Pos(rs[i][2]) < Pos(rs[j][2])
       \/ /\ rs[i][2] = rs[j][2]
          /\ \/ Pos(rs[i][1]) < Pos(rs[j][1])
             \/ rs[i][1] = rs[j][1] /\ Descend(rs[i], rs[j], listVersions)

\* There is a sorted sequence of the catalogs.
LEMMA SortedNames ==
  ASSUME NEW S \in SUBSET ToSet(Alphabet), NEW sorted,
         sorted = CHOOSE s \in [1..Cardinality(S) -> S] :
                    \A i, j \in DOMAIN s : i < j => Pos(s[i]) < Pos(s[j])
  PROVE  /\ IsList(sorted) /\ ToSet(sorted) = S
         /\ \A i, j \in DOMAIN sorted : i < j => Pos(sorted[i]) < Pos(sorted[j])
<1>1. \A a \in S : Pos(a) \in 1..Len(Alphabet) /\ Pos(a) \in Int /\ Alphabet[Pos(a)] = a
  <2>1. \A a \in S : Pos(a) \in 1..Len(Alphabet) /\ Alphabet[Pos(a)] = a
    BY Places
  <2>2. Len(Alphabet) \in Nat
    BY AlphabetIsOrdered, ListFacts
  <2> QED
    BY <2>1, <2>2
<1>2. IsFiniteSet(S)
  <2> DEFINE place == [a \in S |-> Pos(a)]
  <2>1. place \in [S -> 1..Len(Alphabet)] /\ \A a, b \in S : place[a] = place[b] => a = b
    BY <1>1
  <2> HIDE DEF place
  <2>2. place \in Injection(S, 1..Len(Alphabet))
    BY <2>1 DEF Injection, IsInjective
  <2>3. IsFiniteSet(1..Len(Alphabet))
    BY AlphabetIsOrdered, ListFacts, FS_Interval
  <2> QED
    BY <2>2, <2>3, FS_Injection
<1> DEFINE R == {r \in S \X S : Pos(r[1]) < Pos(r[2])}
<1>3. \A a, b \in S : <<a, b>> \in R <=> Pos(a) < Pos(b)
  OBVIOUS
<1> HIDE DEF R
<1>4. \E s \in [1..Cardinality(S) -> S] : \A i, j \in DOMAIN s : i < j => <<s[i], s[j]>> \in R
  <2>1. Orders(R, S)
    <3>1. \A a, b \in S : a # b => <<a, b>> \in R \/ <<b, a>> \in R
      BY <1>1, <1>3
    <3>2. \A a \in S : <<a, a>> \notin R
      BY <1>1, <1>3
    <3>3. \A a, b, c \in S : <<a, b>> \in R /\ <<b, c>> \in R => <<a, c>> \in R
      BY <1>1, <1>3
    <3> QED
      BY <3>1, <3>2, <3>3 DEF Orders
  <2> QED
    BY <1>2, <2>1, OrderedSequence
<1>5. \E s \in [1..Cardinality(S) -> S] : \A i, j \in DOMAIN s : i < j => Pos(s[i]) < Pos(s[j])
  BY <1>3, <1>4
<1>6. /\ sorted \in [1..Cardinality(S) -> S]
      /\ \A i, j \in DOMAIN sorted : i < j => Pos(sorted[i]) < Pos(sorted[j])
  BY <1>5
<1>7. Cardinality(S) \in Nat /\ IsFiniteSet(1..Cardinality(S)) /\ Cardinality(1..Cardinality(S)) = Cardinality(S)
  BY <1>2, FS_CardinalityType, FS_Interval
<1>8. ToSet(sorted) = S
  <2>1. ASSUME NEW i \in 1..Cardinality(S), NEW j \in 1..Cardinality(S), i # j
        PROVE  sorted[i] # sorted[j]
    <3>1. DOMAIN sorted = 1..Cardinality(S) /\ sorted[i] \in S /\ sorted[j] \in S
      BY <1>6
    <3>2. i < j \/ j < i
      BY <1>7, <2>1
    <3>3. Pos(sorted[i]) < Pos(sorted[j]) \/ Pos(sorted[j]) < Pos(sorted[i])
      BY <1>6, <3>1, <3>2
    <3>4. Pos(sorted[i]) \in Int /\ Pos(sorted[j]) \in Int
      BY <1>1, <3>1
    <3> QED
      BY <3>3, <3>4
  <2>2. sorted \in Injection(1..Cardinality(S), S)
    <3>1. sorted \in [1..Cardinality(S) -> S] /\ DOMAIN sorted = 1..Cardinality(S)
      BY <1>6
    <3>2. IsInjective(sorted)
      BY <2>1, <3>1 DEF IsInjective
    <3> QED
      BY <3>1, <3>2 DEF Injection
  <2>3. sorted \in Surjection(1..Cardinality(S), S)
    BY <1>2, <1>7, <2>2, FS_Injection
  <2> QED
    BY <1>6, <2>3 DEF Surjection, ToSet
<1>9. IsList(sorted)
  <2>1. sorted \in Seq(S)
    BY <1>6, <1>7
  <2> QED
    BY <2>1, ListOf
<1> QED
  BY <1>6, <1>8, <1>9

\* The table of printFormattedDeclCfg, for all contents of catalogs: each row is of
\* an entry that is there, every entry has its row, and the rows are in the order
\* of catalogs, packages and descending versions.
THEOREM AllShown ==
  ASSUME NEW contents, DOMAIN contents \in SUBSET ToSet(Alphabet),
         \A c \in DOMAIN contents : IsContent(contents[c]), NEW listVersions
  PROVE  ShowsAll(printFormattedDeclCfg(contents, listVersions), contents, listVersions)
<1> DEFINE S == DOMAIN contents
           catalogs == CHOOSE s \in [1..Cardinality(S) -> S] :
                         \A i, j \in DOMAIN s : i < j => Pos(s[i]) < Pos(s[j])
           ss == [i \in DOMAIN catalogs |-> CatalogRows(contents[catalogs[i]], catalogs[i], listVersions)]
<1>1. /\ IsList(catalogs) /\ ToSet(catalogs) = S
      /\ \A i, j \in DOMAIN catalogs : i < j => Pos(catalogs[i]) < Pos(catalogs[j])
  BY SortedNames
<1>2. printFormattedDeclCfg(contents, listVersions) = FlattenSeq(ss)
  BY DEF printFormattedDeclCfg, InOrder
<1> HIDE DEF catalogs
<1>3. Len(catalogs) \in Nat /\ DOMAIN catalogs = 1..Len(catalogs)
      /\ \A a \in DOMAIN catalogs : catalogs[a] \in S
  BY <1>1, ListFacts
<1>4. \A a \in DOMAIN catalogs :
        ShowsCatalog(ss[a], contents[catalogs[a]], catalogs[a], listVersions)
  BY <1>3, CatalogShown
<1>5. DOMAIN ss = 1..Len(catalogs) /\ ss = [i \in 1..Len(catalogs) |-> ss[i]]
  BY <1>3
<1> HIDE DEF ss
<1>6. IsList(ss) /\ Len(ss) = Len(catalogs)
  BY <1>3, <1>5, ListFrom
<1>7. PICK rs : rs = printFormattedDeclCfg(contents, listVersions)
  OBVIOUS
<1>8. Chains(rs, ss, Len(catalogs))
  BY <1>2, <1>3, <1>4, <1>5, <1>6, <1>7, Flattened DEF ShowsCatalog
<1>9. ASSUME NEW i \in DOMAIN rs
      PROVE  /\ rs[i][2] \in S /\ rs[i][1] \in ToSet(contents[rs[i][2]].packages)
             /\ Cell(rs[i], listVersions) \in Cells(contents[rs[i][2]], rs[i][1], listVersions)
  <2>1. PICK a \in 1..Len(catalogs) : \E k \in DOMAIN ss[a] : rs[i] = ss[a][k]
    BY <1>8 DEF Chains
  <2>2. PICK k \in DOMAIN ss[a] : rs[i] = ss[a][k]
    BY <2>1
  <2>3. ShowsCatalog(ss[a], contents[catalogs[a]], catalogs[a], listVersions)
    BY <1>3, <1>4
  <2>4. /\ ss[a][k][2] = catalogs[a] /\ ss[a][k][1] \in ToSet(contents[catalogs[a]].packages)
        /\ Cell(ss[a][k], listVersions) \in Cells(contents[catalogs[a]], ss[a][k][1], listVersions)
    BY <2>3 DEF ShowsCatalog
  <2> QED
    BY <1>3, <2>2, <2>4
<1>10. ASSUME NEW c \in S, NEW package \in ToSet(contents[c].packages),
              NEW x \in Cells(contents[c], package, listVersions)
       PROVE  \E i \in DOMAIN rs : rs[i][2] = c /\ rs[i][1] = package /\ Cell(rs[i], listVersions) = x
  <2>1. PICK a \in 1..Len(catalogs) : catalogs[a] = c
    BY <1>1, <1>3 DEF ToSet
  <2>2. ShowsCatalog(ss[a], contents[c], c, listVersions)
    BY <1>3, <1>4, <2>1
  <2>3. PICK k \in DOMAIN ss[a] : ss[a][k][1] = package /\ Cell(ss[a][k], listVersions) = x
    BY <2>2 DEF ShowsCatalog
  <2>4. ss[a][k][2] = c
    BY <2>2 DEF ShowsCatalog
  <2>5. PICK i \in DOMAIN rs : rs[i] = ss[a][k]
    BY <1>8 DEF Chains
  <2> QED
    BY <2>3, <2>4, <2>5
<1>11. ASSUME NEW i \in DOMAIN rs, NEW j \in DOMAIN rs, i < j
       PROVE  \/ Pos(rs[i][2]) < Pos(rs[j][2])
              \/ /\ rs[i][2] = rs[j][2]
                 /\ \/ Pos(rs[i][1]) < Pos(rs[j][1])
                    \/ rs[i][1] = rs[j][1] /\ Descend(rs[i], rs[j], listVersions)
  <2>1. PICK a \in 1..Len(catalogs), b \in 1..Len(catalogs) :
          \E k \in DOMAIN ss[a], l \in DOMAIN ss[b] :
            rs[i] = ss[a][k] /\ rs[j] = ss[b][l] /\ (a < b \/ (a = b /\ k < l))
    BY <1>8, <1>11 DEF Chains
  <2>2. PICK k \in DOMAIN ss[a], l \in DOMAIN ss[b] :
          rs[i] = ss[a][k] /\ rs[j] = ss[b][l] /\ (a < b \/ (a = b /\ k < l))
    BY <2>1
  <2>3. /\ ShowsCatalog(ss[a], contents[catalogs[a]], catalogs[a], listVersions)
        /\ ShowsCatalog(ss[b], contents[catalogs[b]], catalogs[b], listVersions)
    BY <1>3, <1>4
  <2>4. rs[i][2] = catalogs[a] /\ rs[j][2] = catalogs[b]
    BY <2>2, <2>3 DEF ShowsCatalog
  <2>5. CASE a < b
    BY <1>1, <1>3, <2>4, <2>5
  <2>6. CASE a = b /\ k < l
    BY <2>2, <2>3, <2>4, <2>6 DEF ShowsCatalog
  <2> QED
    BY <2>2, <2>5, <2>6
<1>12. ShowsAll(rs, contents, listVersions)
  BY <1>9, <1>10, <1>11 DEF ShowsAll
<1> QED
  BY <1>7, <1>12

-----------------------------------------------------------------------------
(***************************************************************************)
(* What a search keeps of a content.                                       *)
(***************************************************************************)

Entries(list, package) == {e \in ToSet(list) : e.package = package}

\* It is a content again, of that package and with all that there is of it.
LEMMA Filtered ==
  ASSUME NEW content, IsContent(content), NEW package, package \in ToSet(content.packages),
         NEW kept, kept = filterPackage(content, package)
  PROVE  /\ IsContent(kept) /\ ToSet(kept.packages) = {package}
         /\ ToSet(kept.channels) = Entries(content.channels, package)
         /\ ToSet(kept.bundles) = Entries(content.bundles, package)
         /\ ToSet(kept.rest) = Entries(content.rest, package)
<1>1. /\ kept.packages = <<package>> /\ kept.channels = Of(content.channels, package)
      /\ kept.bundles = Of(content.bundles, package) /\ kept.rest = Of(content.rest, package)
  BY DEF filterPackage
<1>2. IsList(content.channels) /\ IsList(content.bundles) /\ IsList(content.rest)
  BY DEF IsContent
<1>3. /\ IsList(kept.channels) /\ ToSet(kept.channels) = Entries(content.channels, package)
      /\ IsList(kept.bundles) /\ ToSet(kept.bundles) = Entries(content.bundles, package)
      /\ IsList(kept.rest) /\ ToSet(kept.rest) = Entries(content.rest, package)
  BY <1>1, <1>2, OfPackages DEF Entries
<1>4. IsList(kept.packages) /\ DOMAIN kept.packages = {1} /\ kept.packages[1] = package
  BY <1>1, SingleList
<1>5. ToSet(kept.packages) = {package}
  BY <1>4 DEF ToSet
<1>6. IsContent(kept)
  BY <1>3, <1>4, <1>5 DEF IsContent, Entries
<1> QED
  BY <1>3, <1>5, <1>6

=============================================================================
