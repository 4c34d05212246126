------------------------- MODULE SentenceTableProofs -------------------------
(***************************************************************************)
(* What sorting and finalization compute: a sorted sequence lists its set  *)
(* once, and a finalized shard has rows of its occurrences.  Shards        *)
(* finalized one after the other make the table of all their occurrences,  *)
(* and their reports add up to the report of that table.                   *)
(***************************************************************************)
EXTENDS SentenceTable, FiniteSetTheorems, SequenceTheorems, WellFoundedInduction, TLAPS

-----------------------------------------------------------------------------
(* Sorting.                                                                *)

\* A strict order on S, and a total one.
Strict(R, S) ==
  /\ \A x \in S : <<x, x>> \notin R
  /\ \A x, y, z \in S : <<x, y>> \in R /\ <<y, z>> \in R => <<x, z>> \in R
Order(R, S) ==
  /\ Strict(R, S)
  /\ \A x, y \in S : x # y => <<x, y>> \in R \/ <<y, x>> \in R

Under(R, S, x) == {y \in S : <<y, x>> \in R}

\* The number of elements before an element tells them apart.
LEMMA UnderDiffers ==
  ASSUME NEW S, IsFiniteSet(S), NEW R, Strict(R, S),
         NEW x \in S, NEW y \in S, <<x, y>> \in R
  PROVE  Cardinality(Under(R, S, x)) < Cardinality(Under(R, S, y))
<1> DEFINE A == Under(R, S, x)
           B == Under(R, S, y)
<1>1. A \subseteq B /\ x \in B /\ x \notin A
  BY DEF Strict, Under
<1>2. IsFiniteSet(B) /\ IsFiniteSet(A)
  BY FS_Subset DEF Under
<1>3. Cardinality(A) <= Cardinality(B) /\ Cardinality(A) # Cardinality(B)
  BY <1>1, <1>2, FS_Subset
<1>4. Cardinality(A) \in Nat /\ Cardinality(B) \in Nat
  BY <1>2, FS_CardinalityType
<1> QED
  BY <1>3, <1>4

\* Of n elements each of 0 to n - 1 others come before one.
LEMMA Ranked ==
  ASSUME NEW S, IsFiniteSet(S), NEW R, Order(R, S)
  PROVE  /\ \A x \in S : Cardinality(Under(R, S, x)) \in 0 .. (Cardinality(S) - 1)
         /\ \A x, y \in S : Cardinality(Under(R, S, x)) = Cardinality(Under(R, S, y)) => x = y
         /\ \A n \in 1 .. Cardinality(S) : \E x \in S : Cardinality(Under(R, S, x)) = n - 1
<1> DEFINE n == Cardinality(S)
           T == 0 .. (n - 1)
           f == [x \in S |-> Cardinality(Under(R, S, x))]
<1>0. n \in Nat
  BY FS_CardinalityType
<1>1. ASSUME NEW x \in S PROVE Cardinality(Under(R, S, x)) \in T
  <2>1. Under(R, S, x) \subseteq S /\ x \notin Under(R, S, x)
    BY DEF Under, Order, Strict
  <2>2. /\ Cardinality(Under(R, S, x)) \in Nat
        /\ Cardinality(Under(R, S, x)) <= n /\ Cardinality(Under(R, S, x)) # n
    BY <2>1, FS_Subset, FS_CardinalityType
  <2> QED
    BY <1>0, <2>2
<1>2. ASSUME NEW x \in S, NEW y \in S,
             Cardinality(Under(R, S, x)) = Cardinality(Under(R, S, y)), x # y
      PROVE  FALSE
  <2>1. Cardinality(Under(R, S, x)) \in Int /\ Cardinality(Under(R, S, y)) \in Int
    BY <1>0, <1>1
  <2>2. <<x, y>> \in R \/ <<y, x>> \in R
    BY <1>2 DEF Order
  <2> QED
    BY <1>2, <2>1, <2>2, UnderDiffers DEF Order
<1>3. f \in Injection(S, T)
  BY <1>1, <1>2 DEF Injection, IsInjective
<1>4. IsFiniteSet(T) /\ Cardinality(T) = n
  BY <1>0, FS_Interval
<1>5. f \in Surjection(S, T)
  BY <1>3, <1>4, FS_Injection
<1>6. ASSUME NEW m \in 1 .. n PROVE \E x \in S : Cardinality(Under(R, S, x)) = m - 1
  <2>1. m - 1 \in T
    BY <1>0, <1>6
  <2> QED
    BY <1>5, <2>1 DEF Surjection
<1> QED
  BY <1>1, <1>2, <1>6

\* The sequence has every element of the set, and no other, once.
Lists(seq, S) ==
  /\ seq \in Seq(S) /\ Len(seq) = Cardinality(S)
  /\ \A x \in S : \E n \in 1 .. Len(seq) : seq[n] = x
  /\ \A m, n \in 1 .. Len(seq) : seq[m] = seq[n] => m = n

\* A sequence whose n-th element has n - 1 before it lists the set once.
LEMMA Listed ==
  ASSUME NEW S, IsFiniteSet(S), NEW R, Order(R, S), NEW seq,
         seq = [n \in 1 .. Cardinality(S) |-> seq[n]],
         \A n \in 1 .. Cardinality(S) :
           seq[n] \in S /\ Cardinality(Under(R, S, seq[n])) = n - 1
  PROVE  Lists(seq, S)
<1>0. Cardinality(S) \in Nat
  BY FS_CardinalityType
<1>1. seq \in Seq(S) /\ Len(seq) = Cardinality(S)
  BY <1>0
<1>2. ASSUME NEW x \in S PROVE \E n \in 1 .. Len(seq) : seq[n] = x
  <2>1. PICK k \in 0 .. (Cardinality(S) - 1) : k = Cardinality(Under(R, S, x))
    BY Ranked
  <2>2. PICK n \in 1 .. Cardinality(S) : n - 1 = k
    <3>1. k + 1 \in 1 .. Cardinality(S) /\ (k + 1) - 1 = k
      BY <1>0
    <3> QED
      BY <3>1
  <2>3. seq[n] \in S /\ Cardinality(Under(R, S, seq[n])) = k
    BY <2>2
  <2>4. \A y \in S : Cardinality(Under(R, S, y)) = Cardinality(Under(R, S, x)) => y = x
    BY Ranked
  <2> QED
    BY <1>1, <2>1, <2>3, <2>4
<1>3. ASSUME NEW m \in 1 .. Len(seq), NEW n \in 1 .. Len(seq), seq[m] = seq[n] PROVE m = n
  <2>1. m - 1 = n - 1
    BY <1>1, <1>3
  <2> QED
    BY <1>0, <1>1, <2>1
<1> QED
  BY <1>1, <1>2, <1>3 DEF Lists

-----------------------------------------------------------------------------
(* The first elements of a set.                                            *)

\* Among some elements one has the smallest number.
LEMMA Smallest ==
  ASSUME NEW T, T # {}, NEW f \in [T -> Nat]
  PROVE  \E x \in T : \A y \in T : f[x] <= f[y]
<1> DEFINE V == {f[x] : x \in T}
           Less == {ss \in Nat \X Nat : ss[1] < ss[2]}
<1>1. V \subseteq Nat /\ V # {}
  OBVIOUS
<1>2. PICK v \in V : \A w \in V : ~ (<<w, v>> \in Less)
  <2>1. Less = OpToRel(<, Nat)
    BY Zenon DEF OpToRel
  <2>2. IsWellFoundedOn(Less, Nat)
    BY <2>1, NatLessThanWellFounded, Zenon
  <2> QED
    BY <1>1, <2>2, WFMin
<1>3. PICK x \in T : f[x] = v
  OBVIOUS
<1>4. ASSUME NEW y \in T PROVE f[x] <= f[y]
  <2>1. f[y] \in V /\ f[y] \in Nat /\ v \in Nat
    BY <1>1
  <2>2. ~ (<<f[y], v>> \in Less)
    BY <1>2, <2>1
  <2>3. ~ (f[y] < v)
    BY <2>1, <2>2
  <2> QED
    BY <1>3, <2>1, <2>3
<1> QED
  BY <1>4

\* Who is among the first ones of a part that has the first ones of the whole
\* is among the first ones of the whole.
LEMMA FirstOfPart ==
  ASSUME NEW S, IsFiniteSet(S), NEW R, Strict(R, S), NEW q \in [S -> Nat],
         \A i, j \in S : <<j, i>> \in R => q[j] = q[i],
         NEW C \in SUBSET S,
         \A i \in S : Cardinality(Under(R, S, i)) < q[i] => i \in C,
         NEW i \in C, Cardinality(Under(R, C, i)) < q[i]
  PROVE  Cardinality(Under(R, S, i)) < q[i]
<1> DEFINE D == Under(R, S, i) \ C
           f == [d \in D |-> Cardinality(Under(R, S, d))]
<1>0. \A j \in S : IsFiniteSet(Under(R, S, j)) /\ Cardinality(Under(R, S, j)) \in Nat
  BY FS_Subset, FS_CardinalityType DEF Under
<1>1. CASE D = {}
  <2>1. Under(R, S, i) = Under(R, C, i)
    BY <1>1 DEF Under
  <2> QED
    BY <2>1
<1>2. ASSUME D # {} PROVE FALSE
  <2>1. D \subseteq S /\ f \in [D -> Nat]
    BY <1>0 DEF Under
  <2>2. PICK d \in D : \A j \in D : f[d] <= f[j]
    BY <1>2, <2>1, Smallest
  <2>3. d \in S /\ d \notin C /\ <<d, i>> \in R
    BY DEF Under
  <2>4. ~ (Cardinality(Under(R, S, d)) < q[i])
    BY <2>3
  <2>5. ASSUME NEW j \in Under(R, S, d) PROVE j \in Under(R, C, i)
    <3>1. j \in S /\ <<j, d>> \in R /\ <<j, i>> \in R
      BY <2>3 DEF Under, Strict
    <3>2. CASE j \in C
      BY <3>1, <3>2 DEF Under
    <3>3. ASSUME j \notin C PROVE FALSE
      <4>1. j \in D
        BY <3>1, <3>3 DEF Under
      <4>2. Cardinality(Under(R, S, d)) <= Cardinality(Under(R, S, j))
        BY <2>2, <4>1
      <4>3. Cardinality(Under(R, S, j)) < Cardinality(Under(R, S, d))
        BY <2>3, <3>1, UnderDiffers
      <4> QED
        BY <1>0, <2>3, <3>1, <4>2, <4>3
    <3> QED
      BY <3>2, <3>3
  <2>6. PICK U : U = Under(R, C, i)
    OBVIOUS
  <2>7. IsFiniteSet(U) /\ Under(R, S, d) \in SUBSET U
    BY <2>5, <2>6, FS_Subset DEF Under
  <2>8. Cardinality(Under(R, S, d)) <= Cardinality(U) /\ Cardinality(U) \in Nat
    BY <2>7, FS_Subset, FS_CardinalityType
  <2> QED
    BY <1>0, <2>3, <2>4, <2>6, <2>8
<1> QED
  BY <1>1, <1>2

-----------------------------------------------------------------------------
(* The rows of a shard.                                                    *)

\* The lexicographic order on pairs of numbers.
LEMMA Pairs ==
  ASSUME NEW a \in Nat, NEW b \in Nat, NEW c \in Nat, NEW d \in Nat
  PROVE  Lexicographic(<<a, b>>, <<c, d>>) <=> a < c \/ (a = c /\ b < d)
<1>1. DOMAIN <<a, b>> = 1 .. 2
  OBVIOUS
<1>2. ASSUME Lexicographic(<<a, b>>, <<c, d>>) PROVE a < c \/ (a = c /\ b < d)
  BY <1>2, <1>1 DEF Lexicographic
<1>3. ASSUME a < c PROVE Lexicographic(<<a, b>>, <<c, d>>)
  BY <1>3, <1>1 DEF Lexicographic
<1>4. ASSUME a = c, b < d PROVE Lexicographic(<<a, b>>, <<c, d>>)
  <2>1. \A j \in 1 .. (2 - 1) : j = 1
    OBVIOUS
  <2> QED
    BY <1>4, <1>1, <2>1 DEF Lexicographic
<1> QED
  BY <1>2, <1>3, <1>4

\* A sentence has a canonical occurrence.
LEMMA CanonicalIn ==
  ASSUME NEW group \in SUBSET OccurrenceType, group # {}, Placed(group),
         \A o, p \in group : o.polygon = p.polygon
  PROVE  Canonical(group) \in group
<1>0. \A o \in group : /\ Source(o) \in Nat /\ o.doc \in Nat /\ o.section \in Nat
                       /\ o.index \in Nat
                       /\ SortKey(o) = <<Source(o), o.doc, o.section, o.index>>
  BY DEF OccurrenceType, Source, SortKey
<1>1. PICK a \in group : \A p \in group : Source(a) <= Source(p)
  <2> DEFINE f == [o \in group |-> Source(o)]
  <2>1. f \in [group -> Nat]
    BY <1>0
  <2>2. \E x \in group : \A y \in group : f[x] <= f[y]
    BY <2>1, Smallest
  <2> QED
    BY <2>2
<1>2. PICK b \in group : /\ Source(b) = Source(a)
                         /\ \A p \in group : Source(p) = Source(a) => b.doc <= p.doc
  <2> DEFINE T == {o \in group : Source(o) = Source(a)}
             f == [o \in T |-> o.doc]
  <2>1. f \in [T -> Nat] /\ T # {}
    BY <1>0
  <2>2. \E x \in T : \A y \in T : f[x] <= f[y]
    BY <2>1, Smallest
  <2> QED
    BY <2>2
<1>3. PICK c \in group : /\ Source(c) = Source(a) /\ c.doc = b.doc
                         /\ \A p \in group : Source(p) = Source(a) /\ p.doc = b.doc
                                               => c.section <= p.section
  <2> DEFINE T == {o \in group : Source(o) = Source(a) /\ o.doc = b.doc}
             f == [o \in T |-> o.section]
  <2>1. f \in [T -> Nat] /\ T # {}
    BY <1>0, <1>2
  <2>2. \E x \in T : \A y \in T : f[x] <= f[y]
    BY <2>1, Smallest
  <2> QED
    BY <2>2
<1>4. PICK d \in group : /\ Source(d) = Source(a) /\ d.doc = b.doc /\ d.section = c.section
                         /\ \A p \in group : /\ Source(p) = Source(a) /\ p.doc = b.doc
                                             /\ p.section = c.section
                                             => d.index <= p.index
  <2> DEFINE T == {o \in group : Source(o) = Source(a) /\ o.doc = b.doc /\ o.section = c.section}
             f == [o \in T |-> o.index]
  <2>1. f \in [T -> Nat] /\ T # {}
    BY <1>0, <1>3
  <2>2. \E x \in T : \A y \in T : f[x] <= f[y]
    BY <2>1, Smallest
  <2> QED
    BY <2>2
<1>5. ASSUME NEW p \in group, p # d PROVE Lexicographic(SortKey(d), SortKey(p))
  <2>1. \/ Source(d) < Source(p)
        \/ Source(d) = Source(p) /\ d.doc < p.doc
        \/ Source(d) = Source(p) /\ d.doc = p.doc /\ d.section < p.section
        \/ (Source(d) = Source(p) /\ d.doc = p.doc /\ d.section = p.section /\ d.index < p.index)
    <3>1. Source(d) = Source(p) /\ d.doc = p.doc /\ d.section = p.section => d.index # p.index
      <4>1. Source(d) = Source(p) => d.source = p.source
        BY DEF Source, OccurrenceType
      <4> QED
        BY <1>5, <4>1 DEF Placed, Section
    <3>2. Source(d) <= Source(p)
      BY <1>1, <1>4
    <3>3. Source(p) = Source(d) => d.doc <= p.doc
      BY <1>2, <1>4
    <3>4. Source(p) = Source(d) /\ p.doc = d.doc => d.section <= p.section
      BY <1>3, <1>4
    <3>5. Source(p) = Source(d) /\ p.doc = d.doc /\ p.section = d.section => d.index <= p.index
      BY <1>4
    <3> QED
      BY <1>0, <3>1, <3>2, <3>3, <3>4, <3>5
  <2>2. DOMAIN SortKey(d) = 1 .. 4
    BY <1>0
  <2>3. PICK x : x = SortKey(d)
    OBVIOUS
  <2>4. PICK y : y = SortKey(p)
    OBVIOUS
  <2>5. /\ x[1] = Source(d) /\ x[2] = d.doc /\ x[3] = d.section /\ x[4] = d.index
        /\ y[1] = Source(p) /\ y[2] = p.doc /\ y[3] = p.section /\ y[4] = p.index
    BY <1>0, <2>3, <2>4
  <2>6. \E i \in 1 .. 4 : x[i] < y[i] /\ \A j \in 1 .. (i - 1) : x[j] = y[j]
    <3>1. (\A j \in 1 .. 0 : FALSE) /\ (\A j \in 1 .. 1 : j = 1) /\ (\A j \in 1 .. 2 : j \in {1, 2})
          /\ (\A j \in 1 .. 3 : j \in {1, 2, 3})
      OBVIOUS
    <3>2. 1 \in 1 .. 4 /\ 2 \in 1 .. 4 /\ 3 \in 1 .. 4 /\ 4 \in 1 .. 4
          /\ 1 - 1 = 0 /\ 2 - 1 = 1 /\ 3 - 1 = 2 /\ 4 - 1 = 3
      OBVIOUS
    <3> QED
      BY <2>1, <2>5, <3>1, <3>2
  <2> QED
    BY <2>2, <2>3, <2>4, <2>6 DEF Lexicographic
<1> QED
  BY <1>5 DEF Canonical

\* The rows of a set of occurrences.
RowsFrom(occs) == {OutputRow(occs, g) : g \in DedupGroups(occs)}

\* A row is that of a sentence of its polygon, and its id tells it from the others.
LEMMA RowFacts ==
  ASSUME NEW occs \in SUBSET OccurrenceType, Placed(occs), NEW r \in RowsFrom(occs)
  PROVE  /\ \E o \in occs : r.id = SentenceId(o) /\ r.polygon = o.polygon
         /\ r = OutputRow(occs, {p \in occs : SentenceId(p) = r.id})
<1>1. PICK g \in DedupGroups(occs) : r = OutputRow(occs, g)
  BY DEF RowsFrom
<1>2. PICK u \in occs : g = {p \in occs : SentenceId(p) = SentenceId(u)}
  BY <1>1 DEF DedupGroups
<1>3. g \in SUBSET OccurrenceType /\ g # {} /\ Placed(g)
  BY <1>2 DEF Placed
<1>4. \A o, p \in g : o.polygon = p.polygon
  BY <1>2 DEF SentenceId
<1>5. PICK o \in g : o = Canonical(g)
  BY <1>3, <1>4, CanonicalIn
<1>6. SentenceId(o) = SentenceId(u) /\ o \in occs
  BY <1>2
<1>7. r.id = SentenceId(o) /\ r.polygon = o.polygon
  BY <1>1, <1>5 DEF OutputRow
<1>8. g = {p \in occs : SentenceId(p) = r.id}
  BY <1>2, <1>6, <1>7
<1> QED
  BY <1>1, <1>6, <1>7, <1>8

\* The order of rows, that of their ids.
RowOrder(T) == {z \in T \X T : Lexicographic(z[1].id, z[2].id)}

\* The rows of a set of occurrences are finitely many and in a total order.
LEMMA RowsInOrder ==
  ASSUME NEW occs \in SUBSET OccurrenceType, IsFiniteSet(occs), Placed(occs),
         NEW T, T = RowsFrom(occs)
  PROVE  IsFiniteSet(T) /\ Order(RowOrder(T), T)
<1> DEFINE R == RowOrder(T)
<1>1. IsFiniteSet(T)
  <2> DEFINE row == [o \in occs |->
                       OutputRow(occs, {p \in occs : SentenceId(p) = SentenceId(o)})]
  <2>1. row \in Surjection(occs, T)
    BY DEF Surjection, RowsFrom, DedupGroups
  <2> QED
    BY <2>1, FS_Surjection
<1>2. \A x \in T : /\ x.id = <<x.id[1], x.id[2]>> /\ x.id[1] \in Nat /\ x.id[2] \in Nat
                   /\ x = OutputRow(occs, {p \in occs : SentenceId(p) = x.id})
  <2>1. ASSUME NEW x \in T
        PROVE  x.id = <<x.id[1], x.id[2]>> /\ x.id[1] \in Nat /\ x.id[2] \in Nat
    <3>1. PICK o \in occs : x.id = SentenceId(o)
      BY RowFacts
    <3>2. o.polygon \in Nat /\ o.text \in Nat
      BY DEF OccurrenceType
    <3> QED
      BY <3>1, <3>2 DEF SentenceId
  <2> QED
    BY <2>1, RowFacts
<1>3. \A x, y \in T : x.id = y.id => x = y
  <2> DEFINE row(id) == OutputRow(occs, {p \in occs : SentenceId(p) = id})
  <2>1. \A x \in T : x = row(x.id)
    BY <1>2
  <2> HIDE DEF row
  <2> QED
    BY ONLY <2>1
<1>4. \A x, y \in T : Lexicographic(x.id, y.id) <=>
                        x.id[1] < y.id[1] \/ (x.id[1] = y.id[1] /\ x.id[2] < y.id[2])
  <2>1. ASSUME NEW x \in T, NEW y \in T
        PROVE  Lexicographic(x.id, y.id) <=>
                 x.id[1] < y.id[1] \/ (x.id[1] = y.id[1] /\ x.id[2] < y.id[2])
    <3>1. PICK a \in Nat, b \in Nat : x.id = <<a, b>>
      BY <1>2
    <3>2. PICK c \in Nat, d \in Nat : y.id = <<c, d>>
      BY <1>2
    <3> QED
      BY <3>1, <3>2, Pairs
  <2> QED
    BY <2>1
<1>5. \A x, y \in T : x # y => x.id[1] # y.id[1] \/ x.id[2] # y.id[2]
  <2>1. \A x \in T : x.id = <<x.id[1], x.id[2]>>
    BY <1>2
  <2> QED
    BY ONLY <1>3, <2>1
<1>6. Order(R, T)
  <2>0. \A x, y \in T : <<x, y>> \in R <=>
                          x.id[1] < y.id[1] \/ (x.id[1] = y.id[1] /\ x.id[2] < y.id[2])
    BY <1>4 DEF RowOrder
  <2> HIDE DEF R
  <2>1. \A x \in T : x.id[1] \in Nat /\ x.id[2] \in Nat
    BY <1>2
  <2>2. \A x \in T : <<x, x>> \notin R
    BY <2>0, <2>1
  <2>3. \A x, y, z \in T : <<x, y>> \in R /\ <<y, z>> \in R => <<x, z>> \in R
    BY <2>0, <2>1
  <2>4. \A x, y \in T : x # y => <<x, y>> \in R \/ <<y, x>> \in R
    BY <1>5, <2>0, <2>1
  <2> QED
    BY <2>2, <2>3, <2>4 DEF Order, Strict
<1> QED
  BY <1>1, <1>6

\* The n-th row of a finalized shard comes after n - 1 others.
LEMMA FinalizedNth ==
  ASSUME NEW occs \in SUBSET OccurrenceType, IsFiniteSet(occs), Placed(occs),
         NEW T, T = RowsFrom(occs), NEW seq, seq = Finalized(occs)
  PROVE  /\ seq = [n \in 1 .. Cardinality(T) |-> seq[n]]
         /\ \A n \in 1 .. Cardinality(T) :
              seq[n] \in T /\ Cardinality(Under(RowOrder(T), T, seq[n])) = n - 1
<1> DEFINE nth(n) == CHOOSE x \in T : Cardinality({y \in T : Lexicographic(y.id, x.id)}) = n - 1
<1>1. PICK R : R = RowOrder(T)
  OBVIOUS
<1>2. IsFiniteSet(T) /\ Order(R, T)
  BY <1>1, RowsInOrder
<1>3. \A x \in T : {y \in T : Lexicographic(y.id, x.id)} = Under(R, T, x)
  BY <1>1 DEF Under, RowOrder
<1>4. seq = [n \in 1 .. Cardinality(T) |-> nth(n)]
  BY DEF Finalized, SortedBy, RowsFrom
<1>5. ASSUME NEW n \in 1 .. Cardinality(T)
       PROVE  nth(n) \in T /\ Cardinality(Under(R, T, nth(n))) = n - 1
  <2>1. \E x \in T : Cardinality(Under(R, T, x)) = n - 1
    BY <1>2, Ranked
  <2>2. PICK x \in T : Cardinality({y \in T : Lexicographic(y.id, x.id)}) = n - 1
    BY <1>3, <2>1
  <2>3. nth(n) \in T /\ Cardinality({y \in T : Lexicographic(y.id, nth(n).id)}) = n - 1
    BY <2>2
  <2> QED
    BY <1>3, <2>3
<1> HIDE DEF nth
<1> QED
  BY <1>1, <1>4, <1>5

\* A finalized shard lists its rows, each once.
LEMMA FinalizedLists ==
  ASSUME NEW occs \in SUBSET OccurrenceType, IsFiniteSet(occs), Placed(occs)
  PROVE  Lists(Finalized(occs), RowsFrom(occs))
<1>1. PICK T, R, seq : T = RowsFrom(occs) /\ R = RowOrder(T) /\ seq = Finalized(occs)
  OBVIOUS
<1>2. IsFiniteSet(T) /\ Order(R, T)
  BY <1>1, RowsInOrder
<1>3. /\ seq = [n \in 1 .. Cardinality(T) |-> seq[n]]
      /\ \A n \in 1 .. Cardinality(T) :
           seq[n] \in T /\ Cardinality(Under(R, T, seq[n])) = n - 1
  BY <1>1, FinalizedNth
<1>4. Lists(seq, T)
  BY <1>2, <1>3, Listed
<1> QED
  BY <1>1, <1>4

-----------------------------------------------------------------------------
(* Totals.                                                                 *)

\* Adding up the elements of a function, one after the other and in any order, ends
\* with the number that grows by each element.
LEMMA Summed ==
  ASSUME NEW v, IsFiniteSet(DOMAIN v), NEW total, total[{}] = 0,
         \A T \in SUBSET DOMAIN v : \A x \in T : total[T] = v[x] + total[T \ {x}]
  PROVE  SumFunction(v) = total[DOMAIN v]
<1>1. PICK S : S = DOMAIN v
  OBVIOUS
<1> DEFINE next(f, T) == IF T = {} THEN 0
                         ELSE v[CHOOSE x \in T : TRUE] + f[T \ {CHOOSE x \in T : TRUE}]
<1>2. SumFunction(v) = (CHOOSE f : f = [T \in SUBSET S |-> next(f, T)])[S]
  BY <1>1 DEF SumFunction, SumFunctionOnSet, FoldFunctionOnSet, MapThenFoldSet
<1>3. ASSUME NEW T \in SUBSET S PROVE total[T] = next(total, T)
  <2>1. CASE T = {}
    BY <2>1
  <2>2. CASE T # {}
    <3>1. PICK x \in T : x = CHOOSE y \in T : TRUE
      BY <2>2
    <3> QED
      BY <1>1, <2>2, <3>1
  <2> QED
    BY <2>1, <2>2
<1>4. \E f : f = [T \in SUBSET S |-> next(f, T)]
  <2>1. PICK f : f = [T \in SUBSET S |-> total[T]]
    OBVIOUS
  <2>2. ASSUME NEW T \in SUBSET S PROVE next(f, T) = next(total, T)
    BY <2>1
  <2> HIDE DEF next
  <2>3. f = [T \in SUBSET S |-> next(f, T)]
    BY <1>3, <2>1, <2>2
  <2> QED
    BY <2>3
<1>5. PICK g : g = (CHOOSE f : f = [T \in SUBSET S |-> next(f, T)])
  OBVIOUS
<1>6. g = [T \in SUBSET S |-> next(g, T)]
  BY <1>4, <1>5
<1>7. ASSUME NEW T \in SUBSET S PROVE g[T] = total[T]
  <2> DEFINE Wrong == {U \in SUBSET S : g[U] # total[U]}
             size == [U \in Wrong |-> Cardinality(U)]
  <2>1. SUFFICES ASSUME Wrong # {} PROVE FALSE
    OBVIOUS
  <2>2. \A U \in SUBSET S : IsFiniteSet(U) /\ Cardinality(U) \in Nat
    BY <1>1, FS_Subset, FS_CardinalityType
  <2>3. size \in [Wrong -> Nat]
    BY <2>2
  <2>4. PICK U \in Wrong : \A W \in Wrong : size[U] <= size[W]
    BY <2>1, <2>3, Smallest
  <2>5. U \in SUBSET S /\ g[U] # total[U] /\ \A W \in Wrong : Cardinality(U) <= Cardinality(W)
    BY <2>4
  <2>6. g[U] = next(g, U) /\ total[U] = next(total, U)
    <3> HIDE DEF next
    <3> QED
      BY <1>3, <1>6, <2>5
  <2>7. CASE U = {}
    BY <2>5, <2>6, <2>7
  <2>8. CASE U # {}
    <3>1. PICK x \in U : x = CHOOSE y \in U : TRUE
      BY <2>8
    <3>2. U \ {x} \in SUBSET S /\ Cardinality(U \ {x}) = Cardinality(U) - 1
      BY <2>2, <2>5, FS_RemoveElement
    <3>3. U \ {x} \notin Wrong
      BY <2>2, <2>5, <3>2
    <3>4. g[U \ {x}] = total[U \ {x}]
      BY <3>2, <3>3
    <3> QED
      BY <2>5, <2>6, <2>8, <3>1, <3>4
  <2> QED
    BY <2>7, <2>8
<1> QED
  BY <1>1, <1>2, <1>5, <1>7

-----------------------------------------------------------------------------
(* The shards of a run.                                                    *)

\* All that a family has for some of its indices.
All(family, T) == UNION {family[s] : s \in T}

\* Occurrences split over shards.
Split(occs) ==
  /\ occs \in Seq(SUBSET OccurrenceType) /\ Namespaced(occs)
  /\ \A s \in DOMAIN occs : IsFiniteSet(occs[s]) /\ Placed(occs[s])

\* Disjoint finite sets add up.
LEMMA SetsAdd ==
  ASSUME NEW X, IsFiniteSet(DOMAIN X), \A s \in DOMAIN X : IsFiniteSet(X[s]),
         \A s, t \in DOMAIN X : s # t => X[s] \cap X[t] = {}
  PROVE  /\ \A T \in SUBSET DOMAIN X :
              IsFiniteSet(All(X, T)) /\ Cardinality(All(X, T)) \in Nat
         /\ \A T \in SUBSET DOMAIN X : \A s \in T :
              Cardinality(All(X, T)) = Cardinality(X[s]) + Cardinality(All(X, T \ {s}))
<1>1. ASSUME NEW T \in SUBSET DOMAIN X
      PROVE  IsFiniteSet(All(X, T)) /\ Cardinality(All(X, T)) \in Nat
  <2> DEFINE sets == {X[s] : s \in T}
             set == [s \in T |-> X[s]]
  <2>1. IsFiniteSet(T)
    BY FS_Subset
  <2>2. set \in Surjection(T, sets)
    BY DEF Surjection
  <2>3. IsFiniteSet(sets)
    BY <2>1, <2>2, FS_Surjection
  <2>4. \A Y \in sets : IsFiniteSet(Y)
    OBVIOUS
  <2> HIDE DEF sets
  <2>5. IsFiniteSet(UNION sets)
    BY <2>3, <2>4, FS_UNION
  <2> QED
    BY <2>5, FS_CardinalityType DEF All, sets
<1>2. ASSUME NEW T \in SUBSET DOMAIN X, NEW s \in T
      PROVE  Cardinality(All(X, T)) = Cardinality(X[s]) + Cardinality(All(X, T \ {s}))
  <2>1. PICK A, B : A = X[s] /\ B = All(X, T \ {s})
    OBVIOUS
  <2>2. All(X, T) = A \cup B /\ A \cap B = {}
    BY <2>1 DEF All
  <2>3. T \ {s} \in SUBSET DOMAIN X
    OBVIOUS
  <2>4. IsFiniteSet(A) /\ IsFiniteSet(B) /\ Cardinality(A) \in Nat /\ Cardinality(B) \in Nat
    BY <1>1, <2>1, <2>3, FS_CardinalityType
  <2>5. Cardinality(A \cup B) = Cardinality(A) + Cardinality(B) - Cardinality(A \cap B)
    BY <2>4, FS_Union
  <2>6. Cardinality(A \cap B) = 0
    BY <2>2, FS_EmptySet
  <2>7. Cardinality(A \cup B) = Cardinality(A) + Cardinality(B)
    BY <2>4, <2>5, <2>6
  <2> QED
    BY <2>1, <2>2, <2>7
<1> QED
  BY <1>1, <1>2

\* The occurrences of all shards, and of which shard a polygon is.
LEMMA SplitWhole ==
  ASSUME NEW occs, Split(occs)
  PROVE  /\ Len(occs) \in Nat /\ DOMAIN occs = 1 .. Len(occs) /\ IsFiniteSet(DOMAIN occs)
         /\ \A s \in DOMAIN occs : occs[s] \in SUBSET OccurrenceType
         /\ \A s, t \in DOMAIN occs : s # t =>
              \A o \in occs[s], p \in occs[t] : o.polygon # p.polygon
         /\ All(occs, DOMAIN occs) \in SUBSET OccurrenceType
         /\ IsFiniteSet(All(occs, DOMAIN occs)) /\ Placed(All(occs, DOMAIN occs))
<1>1. /\ Len(occs) \in Nat /\ DOMAIN occs = 1 .. Len(occs)
      /\ \A s \in DOMAIN occs : occs[s] \in SUBSET OccurrenceType
  BY DEF Split
<1>2. IsFiniteSet(DOMAIN occs)
  <2>1. 1 \in Int /\ Len(occs) \in Int
    BY <1>1
  <2> QED
    BY <1>1, <2>1, FS_Interval
<1>3. ASSUME NEW s \in DOMAIN occs, NEW t \in DOMAIN occs, s # t,
             NEW o \in occs[s], NEW p \in occs[t]
      PROVE  o.polygon # p.polygon
  <2>1. s < t \/ t < s
    BY <1>1, <1>3
  <2>2. o.polygon < p.polygon \/ p.polygon < o.polygon
    BY <2>1 DEF Split, Namespaced
  <2>3. o.polygon \in Nat /\ p.polygon \in Nat
    BY <1>1 DEF OccurrenceType
  <2> QED
    BY <2>2, <2>3
<1>4. \A s, t \in DOMAIN occs : s # t => occs[s] \cap occs[t] = {}
  BY <1>3
<1>5. IsFiniteSet(All(occs, DOMAIN occs))
  BY <1>2, <1>4, SetsAdd DEF Split
<1>6. All(occs, DOMAIN occs) \in SUBSET OccurrenceType
  BY <1>1 DEF All
<1>7. ASSUME NEW o \in All(occs, DOMAIN occs), NEW p \in All(occs, DOMAIN occs),
             Section(o) = Section(p), o.index = p.index
      PROVE  o = p
  <2>1. PICK s \in DOMAIN occs, t \in DOMAIN occs : o \in occs[s] /\ p \in occs[t]
    BY DEF All
  <2>2. o.polygon = p.polygon
    BY <1>7 DEF Section
  <2>3. s = t
    BY <1>3, <2>1, <2>2
  <2> QED
    BY <1>7, <2>1, <2>3 DEF Split, Placed
<1> QED
  BY <1>1, <1>2, <1>3, <1>5, <1>6, <1>7 DEF Placed

\* No group of duplicates spans two shards.
LEMMA SplitGroups ==
  ASSUME NEW occs, Split(occs), NEW all, all = All(occs, DOMAIN occs)
  PROVE  /\ DedupGroups(all) = All([s \in DOMAIN occs |-> DedupGroups(occs[s])], DOMAIN occs)
         /\ \A s, t \in DOMAIN occs : s # t => DedupGroups(occs[s]) \cap DedupGroups(occs[t]) = {}
<1>1. ASSUME NEW s \in DOMAIN occs, NEW o \in occs[s], NEW p \in all, p.polygon = o.polygon
      PROVE  p \in occs[s]
  <2>1. PICK t \in DOMAIN occs : p \in occs[t]
    BY DEF All
  <2> QED
    BY <1>1, <2>1, SplitWhole
<1>2. \A s \in DOMAIN occs : occs[s] \subseteq all
  BY DEF All
<1>3. ASSUME NEW s \in DOMAIN occs, NEW o \in occs[s]
      PROVE  {p \in all : SentenceId(p) = SentenceId(o)} =
               {p \in occs[s] : SentenceId(p) = SentenceId(o)}
  <2>1. \A p : SentenceId(p) = SentenceId(o) => p.polygon = o.polygon
    BY DEF SentenceId
  <2> QED
    BY <1>1, <1>2, <2>1
<1>4. \A s \in DOMAIN occs : \A g \in DedupGroups(occs[s]) : g # {} /\ g \subseteq occs[s]
  BY DEF DedupGroups
<1>5. ASSUME NEW s \in DOMAIN occs, NEW t \in DOMAIN occs, s # t
      PROVE  DedupGroups(occs[s]) \cap DedupGroups(occs[t]) = {}
  <2>1. occs[s] \cap occs[t] = {}
    BY <1>5, SplitWhole
  <2> QED
    BY <1>4, <2>1
<1>6. ASSUME NEW g
      PROVE  g \in DedupGroups(all) <=> \E s \in DOMAIN occs : g \in DedupGroups(occs[s])
  <2>1. g \in DedupGroups(all) <=>
          \E o \in all : g = {p \in all : SentenceId(p) = SentenceId(o)}
    BY DEF DedupGroups
  <2>2. \A s \in DOMAIN occs : g \in DedupGroups(occs[s]) <=>
          \E o \in occs[s] : g = {p \in occs[s] : SentenceId(p) = SentenceId(o)}
    BY DEF DedupGroups
  <2>3. \A o : o \in all <=> \E s \in DOMAIN occs : o \in occs[s]
    BY DEF All
  <2> QED
    BY <1>3, <2>1, <2>2, <2>3
<1>7. DedupGroups(all) = All([s \in DOMAIN occs |-> DedupGroups(occs[s])], DOMAIN occs)
  BY <1>6 DEF All
<1> QED
  BY <1>5, <1>7

\* The row of a sentence is the same in its shard as in the table of all shards.
LEMMA SplitRow ==
  ASSUME NEW occs, Split(occs), NEW all, all = All(occs, DOMAIN occs),
         NEW s \in DOMAIN occs, NEW g \in DedupGroups(occs[s])
  PROVE  OutputRow(all, g) = OutputRow(occs[s], g)
<1>1. PICK o : o = Canonical(g)
  OBVIOUS
<1>2. o \in occs[s]
  <2>1. PICK u \in occs[s] : g = {p \in occs[s] : SentenceId(p) = SentenceId(u)}
    BY DEF DedupGroups
  <2>2. g \in SUBSET OccurrenceType /\ g # {} /\ Placed(g)
    BY <2>1, SplitWhole DEF Split, Placed
  <2>3. \A p, q \in g : p.polygon = q.polygon
    BY <2>1 DEF SentenceId
  <2>4. o \in g
    BY <1>1, <2>2, <2>3, CanonicalIn
  <2> QED
    BY <2>1, <2>4
<1>3. {p \in all : Section(p) = Section(o)} = {p \in occs[s] : Section(p) = Section(o)}
  <2>1. ASSUME NEW p \in all, Section(p) = Section(o) PROVE p \in occs[s]
    <3>1. PICK t \in DOMAIN occs : p \in occs[t]
      BY DEF All
    <3>2. p.polygon = o.polygon
      BY <2>1 DEF Section
    <3> QED
      BY <1>2, <3>1, <3>2, SplitWhole
  <2>2. occs[s] \subseteq all
    BY DEF All
  <2> QED
    BY <2>1, <2>2
<1>4. /\ {p \in all : Section(p) = Section(o) /\ p.index < o.index} =
           {p \in occs[s] : Section(p) = Section(o) /\ p.index < o.index}
      /\ {p \in all : Section(p) = Section(o) /\ p.index > o.index} =
           {p \in occs[s] : Section(p) = Section(o) /\ p.index > o.index}
  <2>1. \A p : p \in all /\ Section(p) = Section(o) <=> p \in occs[s] /\ Section(p) = Section(o)
    BY <1>3
  <2> QED
    BY <2>1
<1>5. Previous(all, o) = Previous(occs[s], o)
  <2>1. PICK before : before = {p \in all : Section(p) = Section(o) /\ p.index < o.index}
    OBVIOUS
  <2> DEFINE text == IF before = {} THEN NoText
                     ELSE (CHOOSE p \in before : \A q \in before : q.index <= p.index).text
  <2>2. Previous(all, o) = text
    BY <2>1 DEF Previous
  <2>3. before = {p \in occs[s] : Section(p) = Section(o) /\ p.index < o.index}
    BY <1>4, <2>1
  <2>4. Previous(occs[s], o) = text
    BY <2>3 DEF Previous
  <2> QED
    BY <2>2, <2>4
<1>6. Following(all, o) = Following(occs[s], o)
  <2>1. PICK after : after = {p \in all : Section(p) = Section(o) /\ p.index > o.index}
    OBVIOUS
  <2> DEFINE text == IF after = {} THEN NoText
                     ELSE (CHOOSE p \in after : \A q \in after : q.index >= p.index).text
  <2>2. Following(all, o) = text
    BY <2>1 DEF Following
  <2>3. after = {p \in occs[s] : Section(p) = Section(o) /\ p.index > o.index}
    BY <1>4, <2>1
  <2>4. Following(occs[s], o) = text
    BY <2>3 DEF Following
  <2> QED
    BY <2>2, <2>4
<1> QED
  BY <1>1, <1>5, <1>6 DEF OutputRow

\* The rows of all shards are those of each, and a shard's come before the next one's.
LEMMA SplitRows ==
  ASSUME NEW occs, Split(occs), NEW all, all = All(occs, DOMAIN occs),
         NEW X, X = [s \in DOMAIN occs |-> RowsFrom(occs[s])]
  PROVE  /\ RowsFrom(all) = All(X, DOMAIN X)
         /\ \A s \in DOMAIN X : IsFiniteSet(X[s])
         /\ \A s, t \in DOMAIN X : s < t =>
              \A x \in X[s], y \in X[t] : Lexicographic(x.id, y.id)
         /\ \A s, t \in DOMAIN X : s # t => X[s] \cap X[t] = {}
<1>1. ASSUME NEW r PROVE r \in RowsFrom(all) <=> \E s \in DOMAIN occs : r \in X[s]
  <2>1. \A g : g \in DedupGroups(all) <=> \E s \in DOMAIN occs : g \in DedupGroups(occs[s])
    BY SplitGroups DEF All
  <2>2. \A s \in DOMAIN occs : \A g \in DedupGroups(occs[s]) :
          OutputRow(all, g) = OutputRow(occs[s], g)
    BY SplitRow
  <2> QED
    BY <2>1, <2>2 DEF RowsFrom
<1>2. RowsFrom(all) = All(X, DOMAIN X)
  BY <1>1 DEF All
<1>3. ASSUME NEW s \in DOMAIN X PROVE IsFiniteSet(X[s])
  <2>1. PICK group : group = occs[s]
    OBVIOUS
  <2>2. group \in SUBSET OccurrenceType /\ IsFiniteSet(group) /\ Placed(group)
    BY <2>1, SplitWhole DEF Split
  <2> QED
    BY <2>1, <2>2, RowsInOrder
<1>4. \A s \in DOMAIN X : \A x \in X[s] : \E o \in occs[s] : x.id = SentenceId(o)
  <2>1. ASSUME NEW s \in DOMAIN X, NEW x \in X[s]
        PROVE  \E o \in occs[s] : x.id = SentenceId(o)
    <3>1. occs[s] \in SUBSET OccurrenceType /\ Placed(occs[s]) /\ x \in RowsFrom(occs[s])
      BY SplitWhole DEF Split
    <3> QED
      BY <3>1, RowFacts
  <2> QED
    BY <2>1
<1>5. ASSUME NEW s \in DOMAIN X, NEW t \in DOMAIN X, s < t, NEW x \in X[s], NEW y \in X[t]
      PROVE  Lexicographic(x.id, y.id)
  <2>1. PICK o \in occs[s], p \in occs[t] : x.id = SentenceId(o) /\ y.id = SentenceId(p)
    BY <1>4
  <2>2. o.polygon < p.polygon
    BY <1>5 DEF Split, Namespaced
  <2>3. o \in OccurrenceType /\ p \in OccurrenceType
    BY SplitWhole
  <2>4. o.polygon \in Nat /\ o.text \in Nat /\ p.polygon \in Nat /\ p.text \in Nat
    BY <2>3 DEF OccurrenceType
  <2>5. Lexicographic(<<o.polygon, o.text>>, <<p.polygon, p.text>>)
    BY <2>2, <2>4, Pairs
  <2> QED
    BY <2>1, <2>5 DEF SentenceId
<1>6. ASSUME NEW s \in DOMAIN X, NEW t \in DOMAIN X, s # t PROVE X[s] \cap X[t] = {}
  <2>1. SUFFICES ASSUME NEW x \in X[s], x \in X[t] PROVE FALSE
    OBVIOUS
  <2>2. PICK o \in occs[s], p \in occs[t] : x.id = SentenceId(o) /\ x.id = SentenceId(p)
    BY <1>4, <2>1
  <2>3. o.polygon = p.polygon
    BY <2>2 DEF SentenceId
  <2> QED
    BY <1>6, <2>3, SplitWhole
<1> QED
  BY <1>2, <1>3, <1>5, <1>6

\* The counts of disjoint sets add up to the count of their union.
LEMMA CountsAdd ==
  ASSUME NEW X, IsFiniteSet(DOMAIN X), \A s \in DOMAIN X : IsFiniteSet(X[s]),
         \A s, t \in DOMAIN X : s # t => X[s] \cap X[t] = {},
         NEW v, DOMAIN v = DOMAIN X, \A s \in DOMAIN X : v[s] = Cardinality(X[s])
  PROVE  SumFunction(v) = Cardinality(All(X, DOMAIN X))
<1> DEFINE total == [T \in SUBSET DOMAIN v |-> Cardinality(All(X, T))]
<1>1. total[{}] = 0
  <2>1. All(X, {}) = {}
    BY DEF All
  <2> QED
    BY <2>1, FS_EmptySet
<1>2. ASSUME NEW T \in SUBSET DOMAIN v, NEW x \in T PROVE total[T] = v[x] + total[T \ {x}]
  <2>1. Cardinality(All(X, T)) = Cardinality(X[x]) + Cardinality(All(X, T \ {x}))
    BY SetsAdd
  <2> QED
    BY <2>1
<1>3. total[DOMAIN v] = Cardinality(All(X, DOMAIN X))
  OBVIOUS
<1> HIDE DEF total
<1> QED
  BY <1>1, <1>2, <1>3, Summed

\* The totals of the reports of the shards are the report of one table of them all.
LEMMA TotalsAdd ==
  ASSUME NEW occs, Split(occs), NEW all, all = All(occs, DOMAIN occs)
  PROVE  TotalReport([s \in DOMAIN occs |-> Report(occs[s])]) = Report(all)
<1> DEFINE crosses(g) == {"wikipedia", "wikivoyage"} \subseteq {p.source : p \in g}
<1>1. PICK S : S = DOMAIN occs
  OBVIOUS
<1>2. PICK groups : groups = [s \in S |-> DedupGroups(occs[s])]
  OBVIOUS
<1>3. PICK cross : cross = [s \in S |-> {g \in DedupGroups(occs[s]) : crosses(g)}]
  OBVIOUS
<1>4. PICK reports : reports = [s \in S |-> Report(occs[s])]
  OBVIOUS
<1>5. IsFiniteSet(S) /\ \A s \in S : IsFiniteSet(occs[s])
  BY <1>1, SplitWhole DEF Split
<1>6. ASSUME NEW s \in S
      PROVE  IsFiniteSet(groups[s]) /\ IsFiniteSet(cross[s])
  <2>1. PICK part, G : part = occs[s] /\ G = DedupGroups(part)
    OBVIOUS
  <2> DEFINE group == [o \in part |-> {p \in part : SentenceId(p) = SentenceId(o)}]
  <2>2. group \in Surjection(part, G)
    BY <2>1 DEF Surjection, DedupGroups
  <2>3. IsFiniteSet(part)
    BY <1>5, <2>1
  <2>4. IsFiniteSet(G)
    BY <2>2, <2>3, FS_Surjection
  <2>5. groups[s] = G /\ cross[s] \in SUBSET G
    BY <1>2, <1>3, <2>1
  <2> QED
    BY <2>4, <2>5, FS_Subset
<1>7. /\ \A s, t \in S : s # t => occs[s] \cap occs[t] = {}
      /\ \A s, t \in S : s # t => groups[s] \cap groups[t] = {}
      /\ \A s, t \in S : s # t => cross[s] \cap cross[t] = {}
  <2>1. \A s, t \in S : s # t => occs[s] \cap occs[t] = {}
    BY <1>1, SplitWhole
  <2>2. \A s, t \in S : s # t => groups[s] \cap groups[t] = {}
    BY <1>1, <1>2, SplitGroups
  <2>3. \A s \in S : cross[s] \subseteq groups[s]
    BY <1>2, <1>3
  <2> QED
    BY <2>1, <2>2, <2>3
<1>8. DedupGroups(all) = All(groups, S)
  BY <1>1, <1>2, SplitGroups
<1>9. {g \in DedupGroups(all) : crosses(g)} = All(cross, S)
  <2> HIDE DEF crosses
  <2> QED
    BY <1>2, <1>3, <1>8 DEF All
<1>10. DOMAIN groups = S /\ DOMAIN cross = S /\ DOMAIN reports = S /\ DOMAIN occs = S
  BY <1>1, <1>2, <1>3, <1>4
<1>11. \A s \in S : /\ Cardinality(occs[s]) \in Nat /\ Cardinality(groups[s]) \in Nat
                    /\ reports[s].input = Cardinality(occs[s])
                    /\ reports[s].output = Cardinality(groups[s])
                    /\ reports[s].removed = Cardinality(occs[s]) - Cardinality(groups[s])
                    /\ reports[s].crossSource = Cardinality(cross[s])
  BY <1>2, <1>3, <1>4, <1>5, <1>6, FS_CardinalityType DEF Report
<1>12. SumFunction([s \in S |-> reports[s].input]) = Cardinality(all)
  <2>1. PICK v : v = [s \in S |-> reports[s].input]
    OBVIOUS
  <2>2. DOMAIN v = S /\ \A s \in S : v[s] = Cardinality(occs[s])
    BY <1>11, <2>1
  <2>3. SumFunction(v) = Cardinality(All(occs, S))
    BY <1>5, <1>7, <1>10, <2>2, CountsAdd
  <2> QED
    BY <1>1, <2>1, <2>3
<1>13. SumFunction([s \in S |-> reports[s].output]) = Cardinality(DedupGroups(all))
  <2>1. PICK v : v = [s \in S |-> reports[s].output]
    OBVIOUS
  <2>2. DOMAIN v = S /\ \A s \in S : v[s] = Cardinality(groups[s])
    BY <1>11, <2>1
  <2>3. SumFunction(v) = Cardinality(All(groups, S))
    BY <1>5, <1>6, <1>7, <1>10, <2>2, CountsAdd
  <2> QED
    BY <1>8, <2>1, <2>3
<1>14. SumFunction([s \in S |-> reports[s].crossSource]) =
         Cardinality({g \in DedupGroups(all) : crosses(g)})
  <2>1. PICK v : v = [s \in S |-> reports[s].crossSource]
    OBVIOUS
  <2>2. DOMAIN v = S /\ \A s \in S : v[s] = Cardinality(cross[s])
    BY <1>11, <2>1
  <2>3. SumFunction(v) = Cardinality(All(cross, S))
    BY <1>5, <1>6, <1>7, <1>10, <2>2, CountsAdd
  <2> QED
    BY <1>9, <2>1, <2>3
<1>15. SumFunction([s \in S |-> reports[s].removed]) =
         Cardinality(all) - Cardinality(DedupGroups(all))
  <2>1. PICK v : v = [s \in S |-> reports[s].removed]
    OBVIOUS
  <2>2. /\ DOMAIN v = S
        /\ \A s \in S : v[s] = Cardinality(occs[s]) - Cardinality(groups[s])
    BY <1>11, <2>1
  <2> DEFINE kept(T) == Cardinality(All(groups, T))
             given(T) == Cardinality(All(occs, T))
             total == [T \in SUBSET S |-> given(T) - kept(T)]
  <2>3. \A T \in SUBSET S : given(T) \in Nat /\ kept(T) \in Nat
    <3>1. \A T \in SUBSET S : given(T) \in Nat
      BY <1>5, <1>7, <1>10, SetsAdd
    <3>2. \A T \in SUBSET S : kept(T) \in Nat
      BY <1>5, <1>6, <1>7, <1>10, SetsAdd
    <3> QED
      BY <3>1, <3>2
  <2>4. ASSUME NEW T \in SUBSET S, NEW s \in T PROVE total[T] = v[s] + total[T \ {s}]
    <3>1. given(T) = Cardinality(occs[s]) + given(T \ {s})
      BY <1>5, <1>7, <1>10, SetsAdd
    <3>2. kept(T) = Cardinality(groups[s]) + kept(T \ {s})
      BY <1>5, <1>6, <1>7, <1>10, SetsAdd
    <3>3. T \ {s} \in SUBSET S /\ s \in S
      OBVIOUS
    <3> HIDE DEF given, kept
    <3>4. total[T] = given(T) - kept(T) /\ total[T \ {s}] = given(T \ {s}) - kept(T \ {s})
      BY <3>3
    <3> HIDE DEF total
    <3> QED
      BY <1>11, <2>2, <2>3, <3>1, <3>2, <3>3, <3>4
  <2>5. total[{}] = 0
    <3>1. All(groups, {}) = {} /\ All(occs, {}) = {}
      BY DEF All
    <3> QED
      BY <3>1, FS_EmptySet
  <2>6. total[S] = Cardinality(all) - Cardinality(DedupGroups(all))
    BY <1>1, <1>8
  <2> HIDE DEF total
  <2>7. SumFunction(v) = total[S]
    BY <1>5, <2>2, <2>4, <2>5, Summed
  <2> QED
    BY <2>1, <2>6, <2>7
<1> QED
  BY <1>1, <1>4, <1>10, <1>12, <1>13, <1>14, <1>15 DEF TotalReport, Report

\* The table of all shards has those of the shards one after the other.
LEMMA Concatenated ==
  ASSUME NEW occs, Split(occs), NEW all, all = All(occs, DOMAIN occs),
         NEW X, X = [s \in DOMAIN occs |-> RowsFrom(occs[s])],
         NEW s \in DOMAIN occs, NEW before, before = Cardinality(All(X, 1 .. (s - 1)))
  PROVE  /\ before \in Nat
         /\ Cardinality(All(X, 1 .. s)) = before + Len(Finalized(occs[s]))
         /\ \A j \in 1 .. Len(Finalized(occs[s])) :
              /\ before + j \in 1 .. Cardinality(RowsFrom(all))
              /\ Finalized(all)[before + j] = Finalized(occs[s])[j]
<1>0. DOMAIN X = DOMAIN occs /\ DOMAIN occs = 1 .. Len(occs) /\ Len(occs) \in Nat /\ s \in Nat
  BY SplitWhole
<1>1. PICK A, B, W, F, seq :
        /\ A = RowsFrom(all) /\ B = All(X, 1 .. (s - 1)) /\ W = X[s]
        /\ F = Finalized(all) /\ seq = Finalized(occs[s])
  OBVIOUS
<1>2. /\ IsFiniteSet(A) /\ Order(RowOrder(A), A)
      /\ F = [n \in 1 .. Cardinality(A) |-> F[n]]
      /\ \A n \in 1 .. Cardinality(A) :
           F[n] \in A /\ Cardinality(Under(RowOrder(A), A, F[n])) = n - 1
  <2>1. all \in SUBSET OccurrenceType /\ IsFiniteSet(all) /\ Placed(all)
    BY SplitWhole
  <2>2. IsFiniteSet(A) /\ Order(RowOrder(A), A)
    BY <1>1, <2>1, RowsInOrder
  <2>3. /\ F = [n \in 1 .. Cardinality(A) |-> F[n]]
        /\ \A n \in 1 .. Cardinality(A) :
             F[n] \in A /\ Cardinality(Under(RowOrder(A), A, F[n])) = n - 1
    BY ONLY <1>1, <2>1, FinalizedNth
  <2> QED
    BY <2>2, <2>3
<1>3. /\ IsFiniteSet(W) /\ Len(seq) = Cardinality(W)
      /\ \A n \in 1 .. Cardinality(W) :
           seq[n] \in W /\ Cardinality(Under(RowOrder(W), W, seq[n])) = n - 1
  <2>1. PICK part : part = occs[s]
    OBVIOUS
  <2>2. part \in SUBSET OccurrenceType /\ IsFiniteSet(part) /\ Placed(part)
    BY <2>1, SplitWhole DEF Split
  <2>3. W = RowsFrom(part) /\ seq = Finalized(part)
    BY <1>1, <2>1
  <2>4. Lists(seq, W)
    BY <2>2, <2>3, FinalizedLists
  <2> QED
    BY <2>2, <2>3, <2>4, RowsInOrder, FinalizedNth DEF Lists
<1>4. /\ A = All(X, DOMAIN X) /\ \A t \in DOMAIN X : IsFiniteSet(X[t])
      /\ \A t, u \in DOMAIN X : t < u =>
           \A x \in X[t], y \in X[u] : Lexicographic(x.id, y.id)
      /\ \A t, u \in DOMAIN X : t # u => X[t] \cap X[u] = {}
  BY <1>1, SplitRows
<1>5. IsFiniteSet(DOMAIN X)
  BY <1>0, SplitWhole
<1>6. 1 .. (s - 1) \in SUBSET DOMAIN X /\ 1 .. s \in SUBSET DOMAIN X
      /\ s \in 1 .. s /\ (1 .. s) \ {s} = 1 .. (s - 1)
  BY <1>0
<1>7. IsFiniteSet(B) /\ before \in Nat /\ before = Cardinality(B)
  BY <1>1, <1>4, <1>5, <1>6, SetsAdd
<1>8. Cardinality(All(X, 1 .. s)) = before + Len(seq)
  <2>0. \A T \in SUBSET DOMAIN X : \A t \in T :
          Cardinality(All(X, T)) = Cardinality(X[t]) + Cardinality(All(X, T \ {t}))
    BY ONLY <1>4, <1>5, SetsAdd
  <2>1. Cardinality(All(X, 1 .. s)) = Cardinality(W) + Cardinality(B)
    <3>1. PICK T, Y : T = 1 .. s /\ Y = 1 .. (s - 1)
      OBVIOUS
    <3>2. T \in SUBSET DOMAIN X /\ s \in T /\ T \ {s} = Y
      BY <1>6, <3>1
    <3>3. Cardinality(All(X, T)) = Cardinality(X[s]) + Cardinality(All(X, Y))
      BY ONLY <2>0, <3>2
    <3> QED
      BY <1>1, <3>1, <3>3
  <2>2. Cardinality(W) \in Nat
    BY <1>3, FS_CardinalityType
  <2> QED
    BY <1>3, <1>7, <2>1, <2>2
<1>9. ASSUME NEW j \in 1 .. Len(seq)
      PROVE  before + j \in 1 .. Cardinality(A) /\ F[before + j] = seq[j]
  <2>1. PICK r : r = seq[j]
    OBVIOUS
  <2>2. PICK U : U = Under(RowOrder(W), W, r)
    OBVIOUS
  <2>3. r \in W /\ Cardinality(U) = j - 1 /\ IsFiniteSet(U) /\ r \in A /\ W \subseteq A
    <3>1. r \in W /\ Cardinality(U) = j - 1
      BY <1>3, <2>1, <2>2
    <3>2. IsFiniteSet(U)
      BY <1>3, <2>2, FS_Subset DEF Under
    <3>3. W \subseteq A
      BY <1>0, <1>1, <1>4 DEF All
    <3> QED
      BY <3>1, <3>2, <3>3
  <2>4. ASSUME NEW y PROVE y \in Under(RowOrder(A), A, r) <=> y \in B \/ y \in U
    <3>1. y \in Under(RowOrder(A), A, r) <=> y \in A /\ Lexicographic(y.id, r.id)
      BY <2>3 DEF Under, RowOrder
    <3>2. y \in U <=> y \in W /\ Lexicographic(y.id, r.id)
      BY <2>2, <2>3 DEF Under, RowOrder
    <3>3. ASSUME y \in B PROVE y \in A /\ Lexicographic(y.id, r.id)
      <4>1. PICK t \in 1 .. (s - 1) : y \in X[t]
        BY <1>1, <3>3 DEF All
      <4>2. t \in DOMAIN X /\ t < s
        BY <1>0, <1>6
      <4> QED
        BY <1>0, <1>1, <1>4, <2>3, <4>1, <4>2 DEF All
    <3>4. ASSUME y \in A, Lexicographic(y.id, r.id), y \notin W PROVE y \in B
      <4>1. PICK t \in DOMAIN X : y \in X[t]
        BY <1>4, <3>4 DEF All
      <4>2. t # s
        BY <1>1, <3>4, <4>1
      <4>3. ~ (s < t)
        <5>1. SUFFICES ASSUME s < t PROVE FALSE
          OBVIOUS
        <5>2. Lexicographic(r.id, y.id)
          BY <1>0, <1>1, <1>4, <2>3, <4>1, <5>1
        <5>3. <<r, y>> \in RowOrder(A) /\ <<y, r>> \in RowOrder(A)
          BY <2>3, <3>4, <5>2 DEF RowOrder
        <5> QED
          BY <1>2, <2>3, <3>4, <5>3 DEF Order, Strict
      <4>4. t \in 1 .. (s - 1)
        BY <1>0, <4>2, <4>3
      <4> QED
        BY <1>1, <4>1, <4>4 DEF All
    <3> QED
      BY <2>3, <3>1, <3>2, <3>3, <3>4
  <2>5. B \cap U = {}
    <3>1. U \subseteq W
      BY <2>2 DEF Under
    <3>2. \A t \in 1 .. (s - 1) : t \in DOMAIN X /\ t # s
      BY <1>0
    <3>3. B \cap W = {}
      BY <1>0, <1>1, <1>4, <3>2 DEF All
    <3> QED
      BY <3>1, <3>3
  <2>6. Cardinality(Under(RowOrder(A), A, r)) = before + (j - 1)
    <3>1. Under(RowOrder(A), A, r) = B \cup U
      BY <2>4
    <3>2. Cardinality(B \cup U) = Cardinality(B) + Cardinality(U) - Cardinality(B \cap U)
      BY <1>7, <2>3, FS_Union
    <3>3. Cardinality(B \cap U) = 0
      BY <2>5, FS_EmptySet
    <3> QED
      BY <1>7, <2>3, <3>1, <3>2, <3>3
  <2>7. before + (j - 1) \in 0 .. (Cardinality(A) - 1)
    BY <1>2, <2>3, <2>6, Ranked
  <2>8. before + j \in 1 .. Cardinality(A) /\ (before + j) - 1 = before + (j - 1)
    <3>1. Cardinality(A) \in Nat /\ j \in Nat
      BY <1>2, FS_CardinalityType
    <3> QED
      BY <1>7, <2>7, <3>1
  <2>9. /\ F[before + j] \in A
        /\ Cardinality(Under(RowOrder(A), A, F[before + j])) = before + (j - 1)
    BY <1>2, <2>8
  <2>10. F[before + j] = r
    BY <1>2, <2>3, <2>6, <2>9, Ranked
  <2> QED
    BY <2>1, <2>8, <2>10
<1> QED
  BY <1>1, <1>7, <1>8, <1>9

-----------------------------------------------------------------------------
(* Sequences one after the other.                                          *)

\* Joining sequences from the first to the last ends with what grows by each.
LEMMA TablesConcatenate ==
  ASSUME NEW seqs, NEW N \in Nat, N # 0, Len(seqs) = N, NEW upTo, upTo[1] = seqs[1],
         \A i \in 1 .. N : i # 1 => upTo[i] = upTo[i - 1] \o seqs[i]
  PROVE  FlattenSeq(seqs) = upTo[N]
<1> DEFINE joined(f, i) == IF i = 1 THEN seqs[i] ELSE f[i - 1] \o seqs[i]
<1>1. FlattenSeq(seqs) = (CHOOSE f : f = [i \in 1 .. N |-> joined(f, i)])[N]
  BY DEF FlattenSeq
<1>2. \A i \in 1 .. N : upTo[i] = joined(upTo, i)
  OBVIOUS
<1>3. \E f : f = [i \in 1 .. N |-> joined(f, i)]
  <2>1. PICK f : f = [i \in 1 .. N |-> upTo[i]]
    OBVIOUS
  <2>2. ASSUME NEW i \in 1 .. N PROVE joined(f, i) = joined(upTo, i)
    <3>1. i # 1 => i - 1 \in 1 .. N
      OBVIOUS
    <3> QED
      BY <2>1, <3>1
  <2> HIDE DEF joined
  <2>3. f = [i \in 1 .. N |-> joined(f, i)]
    BY <1>2, <2>1, <2>2
  <2> QED
    BY <2>3
<1>4. PICK g : g = (CHOOSE f : f = [i \in 1 .. N |-> joined(f, i)])
  OBVIOUS
<1>5. g = [i \in 1 .. N |-> joined(g, i)]
  BY <1>3, <1>4
<1>6. \A i \in 1 .. N : g[i] = upTo[i]
  <2> DEFINE T == {i \in 1 .. N : g[i] # upTo[i]}
             number == [i \in T |-> i]
  <2>1. SUFFICES ASSUME T # {} PROVE FALSE
    OBVIOUS
  <2>2. number \in [T -> Nat]
    OBVIOUS
  <2>3. PICK n \in T : \A m \in T : number[n] <= number[m]
    BY <2>1, <2>2, Smallest
  <2>4. n \in 1 .. N /\ g[n] # upTo[n] /\ \A m \in T : n <= m
    BY <2>3
  <2>5. g[n] = joined(g, n) /\ upTo[n] = joined(upTo, n)
    <3> HIDE DEF joined
    <3> QED
      BY <1>2, <1>5, <2>4
  <2>6. CASE n = 1
    BY <2>4, <2>5, <2>6
  <2>7. CASE n # 1
    <3>1. n - 1 \in 1 .. N /\ n - 1 \notin T
      BY <2>4, <2>7
    <3>2. g[n - 1] = upTo[n - 1]
      BY <3>1
    <3> QED
      BY <2>4, <2>5, <2>7, <3>2
  <2> QED
    BY <2>6, <2>7
<1>7. N \in 1 .. N
  OBVIOUS
<1> QED
  BY <1>1, <1>4, <1>6, <1>7

\* The finalized shards one after the other are the finalized table of them all.
LEMMA TablesJoin ==
  ASSUME NEW occs, Split(occs), NEW all, all = All(occs, DOMAIN occs),
         NEW seqs, seqs = [s \in DOMAIN occs |-> Finalized(occs[s])]
  PROVE  FlattenSeq(seqs) = Finalized(all)
<1>1. PICK N, X : N = Len(occs) /\ X = [s \in DOMAIN occs |-> RowsFrom(occs[s])]
  OBVIOUS
<1>2. N \in Nat /\ DOMAIN occs = 1 .. N /\ DOMAIN X = 1 .. N /\ Len(seqs) = N
  BY <1>1, SplitWhole
<1>3. PICK A, F : A = RowsFrom(all) /\ F = Finalized(all)
  OBVIOUS
<1>4. F = [n \in 1 .. Cardinality(A) |-> F[n]]
  <2>1. all \in SUBSET OccurrenceType /\ IsFiniteSet(all) /\ Placed(all)
    BY SplitWhole
  <2> QED
    BY ONLY <1>3, <2>1, FinalizedNth
<1>5. A = All(X, 1 .. N)
  BY <1>1, <1>2, <1>3, SplitRows
<1>6. CASE N = 0
  <2>1. 1 .. N = {}
    BY <1>6
  <2>2. A = {}
    BY <1>5, <2>1 DEF All
  <2>3. Cardinality(A) = 0
    BY <2>2, FS_EmptySet
  <2>4. F = [n \in {} |-> F[n]]
    <3>1. 1 .. Cardinality(A) = {}
      BY <2>3
    <3> QED
      BY <1>4, <3>1
  <2>5. FlattenSeq(seqs) = seqs
    BY <1>2, <1>6 DEF FlattenSeq
  <2>6. seqs = [n \in {} |-> Finalized(occs[n])]
    BY <1>2, <2>1
  <2>7. F = seqs
    BY <2>4, <2>6
  <2> QED
    BY <1>3, <2>5, <2>7
<1>7. CASE N # 0
  <2> DEFINE rows(i) == Cardinality(All(X, 1 .. i))
             upTo == [i \in 1 .. N |-> [k \in 1 .. rows(i) |-> F[k]]]
             V == {F[k] : k \in Nat}
  <2>1. ASSUME NEW s \in 1 .. N
        PROVE  /\ rows(s - 1) \in Nat /\ rows(s) = rows(s - 1) + Len(seqs[s])
               /\ \A j \in 1 .. Len(seqs[s]) : F[rows(s - 1) + j] = seqs[s][j]
               /\ Len(seqs[s]) \in Nat /\ seqs[s] = [j \in 1 .. Len(seqs[s]) |-> seqs[s][j]]
    <3>1. PICK before, seq : before = rows(s - 1) /\ seq = seqs[s]
      OBVIOUS
    <3>2. s \in DOMAIN occs /\ seq = Finalized(occs[s])
      BY <1>2, <3>1
    <3>3. /\ before \in Nat
          /\ Cardinality(All(X, 1 .. s)) = before + Len(seq)
          /\ \A j \in 1 .. Len(seq) : F[before + j] = seq[j]
      <4>1. before = Cardinality(All(X, 1 .. (s - 1)))
        BY <3>1
      <4>2. /\ before \in Nat
            /\ Cardinality(All(X, 1 .. s)) = before + Len(Finalized(occs[s]))
            /\ \A j \in 1 .. Len(Finalized(occs[s])) :
                 /\ before + j \in 1 .. Cardinality(RowsFrom(all))
                 /\ Finalized(all)[before + j] = Finalized(occs[s])[j]
        <5>1. PICK whole, table, C :
                whole = all /\ table = occs /\ C = X
          OBVIOUS
        <5>2. /\ Split(table) /\ whole = All(table, DOMAIN table) /\ s \in DOMAIN table
              /\ C = [t \in DOMAIN table |-> RowsFrom(table[t])]
              /\ before = Cardinality(All(C, 1 .. (s - 1)))
          BY <1>1, <3>2, <4>1, <5>1
        <5>3. /\ before \in Nat
              /\ Cardinality(All(C, 1 .. s)) = before + Len(Finalized(table[s]))
              /\ \A j \in 1 .. Len(Finalized(table[s])) :
                   /\ before + j \in 1 .. Cardinality(RowsFrom(whole))
                   /\ Finalized(whole)[before + j] = Finalized(table[s])[j]
          BY ONLY <5>2, Concatenated
        <5> QED
          BY <5>1, <5>3
      <4> QED
        BY <1>3, <3>2, <4>2
    <3>4. PICK part : part = occs[s]
      OBVIOUS
    <3>5. part \in SUBSET OccurrenceType /\ IsFiniteSet(part) /\ Placed(part)
      BY <3>2, <3>4, SplitWhole DEF Split
    <3>6. Lists(seq, RowsFrom(part))
      BY <3>2, <3>4, <3>5, FinalizedLists
    <3>7. Len(seq) \in Nat /\ seq = [j \in 1 .. Len(seq) |-> seq[j]]
      BY <3>6 DEF Lists
    <3>8. rows(s) = before + Len(seq)
      BY <3>3
    <3> HIDE DEF rows
    <3>9. rows(s - 1) = before /\ seqs[s] = seq
      BY <3>1
    <3> QED
      BY ONLY <3>3, <3>7, <3>8, <3>9
  <2>2. upTo[1] = seqs[1]
    <3>1. 1 \in 1 .. N /\ 1 - 1 = 0
      BY <1>2, <1>7
    <3>2. rows(0) = 0
      <4>1. All(X, 1 .. 0) = {}
        BY DEF All
      <4> QED
        BY <4>1, FS_EmptySet
    <3>3. PICK seq : seq = seqs[1]
      OBVIOUS
    <3>4. /\ rows(1) = Len(seq) /\ Len(seq) \in Nat /\ \A j \in 1 .. Len(seq) : F[j] = seq[j]
          /\ seq = [j \in 1 .. Len(seq) |-> seq[j]]
      <4> HIDE DEF rows
      <4>0. PICK s : s = 1
        OBVIOUS
      <4>1. /\ rows(0) \in Nat /\ rows(1) = rows(0) + Len(seq)
            /\ \A j \in 1 .. Len(seq) : F[rows(0) + j] = seq[j]
            /\ Len(seq) \in Nat /\ seq = [j \in 1 .. Len(seq) |-> seq[j]]
        <5>1. /\ rows(s - 1) \in Nat /\ rows(s) = rows(s - 1) + Len(seqs[s])
              /\ \A j \in 1 .. Len(seqs[s]) : F[rows(s - 1) + j] = seqs[s][j]
              /\ Len(seqs[s]) \in Nat /\ seqs[s] = [j \in 1 .. Len(seqs[s]) |-> seqs[s][j]]
          <6>1. s \in 1 .. N
            BY <3>1, <4>0
          <6> QED
            BY ONLY <2>1, <6>1
        <5>2. s - 1 = 0 /\ seqs[s] = seq
          BY <3>3, <4>0
        <5> QED
          BY ONLY <4>0, <5>1, <5>2
      <4>2. \A j \in 1 .. Len(seq) : 0 + j = j
        BY <4>1
      <4> QED
        BY <3>2, <4>1, <4>2
    <3>5. upTo[1] = [k \in 1 .. Len(seq) |-> F[k]]
      BY <3>1, <3>4
    <3> QED
      BY <3>3, <3>4, <3>5
  <2>3. ASSUME NEW i \in 1 .. N, i # 1 PROVE upTo[i] = upTo[i - 1] \o seqs[i]
    <3>1. PICK m, a, b : m = rows(i - 1) /\ a = upTo[i - 1] /\ b = seqs[i]
      OBVIOUS
    <3>2. i - 1 \in 1 .. N
      BY <1>2, <2>3
    <3>3. /\ m \in Nat /\ rows(i) = m + Len(b) /\ Len(b) \in Nat
          /\ \A j \in 1 .. Len(b) : F[m + j] = b[j]
          /\ b = [j \in 1 .. Len(b) |-> b[j]]
      <4> HIDE DEF rows, upTo
      <4>1. /\ rows(i - 1) \in Nat /\ rows(i) = rows(i - 1) + Len(seqs[i])
            /\ \A j \in 1 .. Len(seqs[i]) : F[rows(i - 1) + j] = seqs[i][j]
            /\ Len(seqs[i]) \in Nat /\ seqs[i] = [j \in 1 .. Len(seqs[i]) |-> seqs[i][j]]
        BY <2>1
      <4> QED
        BY ONLY <3>1, <4>1
    <3>4. a = [k \in 1 .. m |-> F[k]]
      BY <3>1, <3>2
    <3>5. upTo[i] = [k \in 1 .. (m + Len(b)) |-> F[k]]
      BY <3>3
    <3> HIDE DEF upTo, rows, V
    <3>6. b \in Seq(V) /\ a \in Seq(V) /\ Len(a) = m
      <4>1. \A j \in 1 .. Len(b) : b[j] \in V
        <5>1. \A j \in 1 .. Len(b) : m + j \in Nat
          BY <3>3
        <5> QED
          BY <3>3, <5>1 DEF V
      <4>2. b \in [1 .. Len(b) -> V]
        BY <3>3, <4>1
      <4>3. \A k \in 1 .. m : F[k] \in V
        BY <3>3 DEF V
      <4>4. a \in [1 .. m -> V]
        BY <3>4, <4>3
      <4>5. PICK n : n = Len(b)
        OBVIOUS
      <4>6. b \in Seq(V)
        BY ONLY <3>3, <4>2, <4>5
      <4>7. a \in Seq(V) /\ Len(a) = m
        BY ONLY <3>3, <4>4
      <4> QED
        BY ONLY <4>6, <4>7
    <3>7. a \o b = [k \in 1 .. (m + Len(b)) |-> IF k <= m THEN a[k] ELSE b[k - m]]
      <4>1. PICK c : c = a \o b
        OBVIOUS
      <4>2. c \in Seq(V) /\ Len(c) = m + Len(b) /\ Len(c) \in Nat
        <5>1. PICK W : W = V
          OBVIOUS
        <5>2. a \in Seq(W) /\ b \in Seq(W)
          BY <3>6, <5>1
        <5>3. c \in Seq(W) /\ Len(c) = Len(a) + Len(b)
          BY ONLY <4>1, <5>2, ConcatProperties
        <5> QED
          BY ONLY <3>3, <3>6, <5>1, <5>3
      <4>3. c = [k \in 1 .. Len(c) |-> c[k]]
        BY ONLY <4>2
      <4>4. \A k \in 1 .. Len(c) : c[k] = IF k <= m THEN a[k] ELSE b[k - m]
        BY ONLY <3>3, <3>6, <4>1, <4>2
      <4> QED
        BY ONLY <4>1, <4>2, <4>3, <4>4
    <3>8. ASSUME NEW k \in 1 .. (m + Len(b))
          PROVE  F[k] = IF k <= m THEN a[k] ELSE b[k - m]
      <4>1. CASE k <= m
        <5>1. k \in 1 .. m
          BY <3>3, <4>1
        <5> QED
          BY <3>4, <4>1, <5>1
      <4>2. CASE ~ (k <= m)
        <5>1. k - m \in 1 .. Len(b) /\ m + (k - m) = k
          BY <3>3, <4>2
        <5>2. F[m + (k - m)] = b[k - m]
          BY <3>3, <5>1
        <5> QED
          BY <4>2, <5>1, <5>2
      <4> QED
        BY <4>1, <4>2
    <3>9. PICK K : K = 1 .. (m + Len(b))
      OBVIOUS
    <3>10. [k \in K |-> F[k]] = [k \in K |-> IF k <= m THEN a[k] ELSE b[k - m]]
      BY ONLY <3>8, <3>9
    <3> QED
      BY ONLY <3>1, <3>5, <3>7, <3>9, <3>10
  <2>4. upTo[N] = F
    <3>1. N \in 1 .. N /\ rows(N) = Cardinality(A)
      BY <1>2, <1>5, <1>7
    <3> QED
      BY <1>4, <3>1
  <2> HIDE DEF upTo
  <2>5. PICK g : g = upTo
    OBVIOUS
  <2>6. g[1] = seqs[1] /\ (\A i \in 1 .. N : i # 1 => g[i] = g[i - 1] \o seqs[i]) /\ g[N] = F
    BY <2>2, <2>3, <2>4, <2>5
  <2>7. FlattenSeq(seqs) = g[N]
    BY ONLY <1>2, <1>7, <2>6, TablesConcatenate
  <2> QED
    BY <1>3, <2>6, <2>7
<1> QED
  BY <1>6, <1>7
=============================================================================
