-------------------------- MODULE SampleLedgerProofs --------------------------
(***************************************************************************)
(* The ledger of the resumable sampling, for any inputs, targets, batch    *)
(* size and kills: it holds the best of the rows that its counters say     *)
(* were scanned, so an allocation that goes on loses no row of the sample. *)
(* What an allocation then materializes and writes is the sample of its    *)
(* target, the samples of a run's targets begin alike, and each is what    *)
(* one pass over the table of all occurrences would select.                *)
(***************************************************************************)
EXTENDS SampleLedger, SentenceTableProofs

-----------------------------------------------------------------------------
(* The polygons by rank.                                                   *)

\* Sorting polygons by their rank lists each of them once.
LEMMA ByRankLists ==
  ASSUME NEW S, IsFiniteSet(S),
         \A p, q \in S : PolygonRank[p] \in Nat /\ (PolygonRank[p] = PolygonRank[q] => p = q)
  PROVE  Lists(ByRank(S), S)
<1> DEFINE R == {z \in S \X S : PolygonRank[z[1]] < PolygonRank[z[2]]}
<1>1. Order(R, S)
  BY DEF Order, Strict
<1>2. \A x \in S : {y \in S : PolygonRank[y] < PolygonRank[x]} = Under(R, S, x)
  BY DEF Under
<1> DEFINE nth(n) == CHOOSE x \in S :
                       Cardinality({y \in S : PolygonRank[y] < PolygonRank[x]}) = n - 1
<1>3. ByRank(S) = [n \in 1 .. Cardinality(S) |-> nth(n)]
  BY DEF ByRank, SortedBy
<1> HIDE DEF R
<1>4. ASSUME NEW n \in 1 .. Cardinality(S)
      PROVE  nth(n) \in S /\ Cardinality(Under(R, S, nth(n))) = n - 1
  <2>1. \E x \in S : Cardinality(Under(R, S, x)) = n - 1
    BY <1>1, Ranked
  <2>2. PICK x \in S : Cardinality({y \in S : PolygonRank[y] < PolygonRank[x]}) = n - 1
    BY <1>2, <2>1
  <2>3. /\ nth(n) \in S
        /\ Cardinality({y \in S : PolygonRank[y] < PolygonRank[nth(n)]}) = n - 1
    BY <2>2
  <2> QED
    BY <1>2, <2>3
<1> HIDE DEF nth
<1>5. PICK seq : seq = ByRank(S)
  OBVIOUS
<1>6. /\ seq = [n \in 1 .. Cardinality(S) |-> seq[n]]
      /\ \A n \in 1 .. Cardinality(S) :
           seq[n] \in S /\ Cardinality(Under(R, S, seq[n])) = n - 1
  BY <1>3, <1>4, <1>5
<1>7. Lists(seq, S)
  BY <1>1, <1>6, Listed
<1> QED
  BY <1>5, <1>7

-----------------------------------------------------------------------------
(* The turns of the strata.                                                *)

\* Strata with finitely many rows each, told apart by their rank.
Strata(sizes) ==
  /\ IsFiniteSet(DOMAIN sizes)
  /\ \A c \in DOMAIN sizes : sizes[c] \in Nat /\ CellRank[c] \in Nat
  /\ \A c, d \in DOMAIN sizes : CellRank[c] = CellRank[d] => c = d

\* A stratum has a turn for each of its rows.
LEMMA TurnsAre ==
  ASSUME NEW sizes, Strata(sizes)
  PROVE  /\ \A t \in Turns(sizes) : /\ t = <<t[1], t[2]>> /\ t[1] \in DOMAIN sizes
                                    /\ t[2] \in Nat /\ t[2] < sizes[t[1]]
         /\ \A c \in DOMAIN sizes : \A n \in Nat : n < sizes[c] => <<c, n>> \in Turns(sizes)
BY DEF Turns, Strata

\* There are finitely many turns.
LEMMA TurnsFinite ==
  ASSUME NEW sizes, Strata(sizes)
  PROVE  IsFiniteSet(Turns(sizes))
<1> DEFINE rows == [c \in DOMAIN sizes |-> {c} \X (0 .. (sizes[c] - 1))]
           all == {rows[c] : c \in DOMAIN sizes}
<1>1. rows \in Surjection(DOMAIN sizes, all)
  BY DEF Surjection
<1>2. IsFiniteSet(all)
  BY <1>1, FS_Surjection DEF Strata
<1>3. ASSUME NEW c \in DOMAIN sizes PROVE IsFiniteSet(rows[c])
  <2>1. IsFiniteSet({c})
    BY FS_Singleton
  <2>2. 0 \in Int /\ sizes[c] - 1 \in Int
    BY DEF Strata
  <2>3. IsFiniteSet(0 .. (sizes[c] - 1))
    BY <2>2, FS_Interval
  <2> QED
    BY <2>1, <2>3, FS_Product
<1>4. IsFiniteSet(UNION all)
  BY <1>2, <1>3, FS_UNION
<1>5. UNION all = Turns(sizes)
  BY DEF Turns
<1> QED
  BY <1>4, <1>5

\* Fractions that are ordered, multiplied out.
LEMMA Cross ==
  ASSUME NEW a \in Nat, NEW b \in Nat, NEW c \in Nat,
         NEW p \in Nat \ {0}, NEW q \in Nat \ {0}, NEW r \in Nat \ {0},
         a * q <= b * p, b * r <= c * q
  PROVE  /\ a * r <= c * p
         /\ a * q < b * p \/ b * r < c * q => a * r < c * p
<1>1. (a * q) * r <= (b * p) * r /\ (b * r) * p <= (c * q) * p
  OBVIOUS
<1>2. /\ (a * q) * r = (a * r) * q /\ (b * p) * r = (b * r) * p
      /\ (c * q) * p = (c * p) * q
  OBVIOUS
<1>3. PICK x \in Int : x = a * r
  OBVIOUS
<1>4. PICK y \in Int : y = c * p
  OBVIOUS
<1>5. x * q <= y * q
  BY <1>1, <1>2, <1>3, <1>4
<1>6. x <= y
  BY <1>5
<1>7. ASSUME a * q < b * p \/ b * r < c * q PROVE x < y
  <2>1. (a * q) * r < (b * p) * r \/ (b * r) * p < (c * q) * p
    BY <1>7
  <2>2. x * q < y * q
    BY <1>1, <1>2, <1>3, <1>4, <2>1
  <2> QED
    BY <2>2
<1> QED
  BY <1>3, <1>4, <1>6, <1>7

\* Turns come in a strict total order.
LEMMA TurnsOrder ==
  ASSUME NEW sizes, Strata(sizes)
  PROVE  Order({z \in Turns(sizes) \X Turns(sizes) : Earlier(sizes, z[1], z[2])}, Turns(sizes))
<1> DEFINE T == Turns(sizes)
<1>0. \A t \in T : /\ t = <<t[1], t[2]>> /\ t[1] \in DOMAIN sizes /\ t[2] \in Nat
                   /\ sizes[t[1]] \in Nat \ {0} /\ CellRank[t[1]] \in Nat
  BY TurnsAre DEF Strata
<1> HIDE DEF T
<1>1. ASSUME NEW t \in T PROVE ~ Earlier(sizes, t, t)
  BY <1>0 DEF Earlier, RankBefore
<1>2. ASSUME NEW t \in T, NEW u \in T, NEW v \in T, Earlier(sizes, t, u), Earlier(sizes, u, v)
      PROVE  Earlier(sizes, t, v)
  <2>1. /\ t[2] * sizes[u[1]] <= u[2] * sizes[t[1]]
        /\ u[2] * sizes[v[1]] <= v[2] * sizes[u[1]]
    BY <1>0, <1>2 DEF Earlier
  <2>2. /\ t[2] * sizes[v[1]] <= v[2] * sizes[t[1]]
        /\ \/ t[2] * sizes[u[1]] < u[2] * sizes[t[1]]
           \/ u[2] * sizes[v[1]] < v[2] * sizes[u[1]]
           => t[2] * sizes[v[1]] < v[2] * sizes[t[1]]
    BY <1>0, <2>1, Cross
  <2>3. CASE RankBefore(t, u) /\ RankBefore(u, v)
    <3>1. RankBefore(t, v)
      BY <1>0, <2>3 DEF RankBefore
    <3> QED
      BY <1>0, <2>2, <3>1 DEF Earlier
  <2> QED
    BY <1>2, <2>2, <2>3 DEF Earlier
<1>3. ASSUME NEW t \in T, NEW u \in T, t # u
      PROVE  Earlier(sizes, t, u) \/ Earlier(sizes, u, t)
  <2>1. CASE t[2] * sizes[u[1]] # u[2] * sizes[t[1]]
    BY <1>0, <2>1 DEF Earlier
  <2>2. CASE t[2] * sizes[u[1]] = u[2] * sizes[t[1]] /\ CellRank[t[1]] # CellRank[u[1]]
    BY <1>0, <2>2 DEF Earlier, RankBefore
  <2>3. CASE t[2] * sizes[u[1]] = u[2] * sizes[t[1]] /\ CellRank[t[1]] = CellRank[u[1]]
    <3>1. t[1] = u[1] /\ t[2] # u[2]
      BY <1>0, <1>3, <2>3 DEF Strata
    <3>2. PICK n \in Nat \ {0} : n = sizes[t[1]]
      BY <1>0
    <3>3. t[2] * n = u[2] * n
      BY <2>3, <3>1, <3>2
    <3> QED
      BY <1>0, <3>1, <3>2, <3>3
  <2> QED
    BY <2>1, <2>2, <2>3
<1> QED
  BY <1>1, <1>2, <1>3 DEF Order, Strict, T

EarlierIn(sizes) == {z \in Turns(sizes) \X Turns(sizes) : Earlier(sizes, z[1], z[2])}

\* The turns in their order: the n-th has n - 1 earlier ones.
LEMMA TurnsListed ==
  ASSUME NEW sizes, Strata(sizes)
  PROVE  /\ Lists(InTurn(sizes), Turns(sizes))
         /\ \A n \in 1 .. Len(InTurn(sizes)) :
              Cardinality(Under(EarlierIn(sizes), Turns(sizes), InTurn(sizes)[n])) = n - 1
<1> DEFINE T == Turns(sizes)
           R == {z \in T \X T : Earlier(sizes, z[1], z[2])}
           nth(n) == CHOOSE x \in T : Cardinality({y \in T : Earlier(sizes, y, x)}) = n - 1
<1>1. IsFiniteSet(T) /\ Order(R, T)
  BY TurnsFinite, TurnsOrder
<1>2. PICK seq : seq = InTurn(sizes)
  OBVIOUS
<1>3. seq = [n \in 1 .. Cardinality(T) |-> nth(n)]
  BY <1>2 DEF InTurn, SortedBy
<1> HIDE DEF T
<1>4. \A x \in T : {y \in T : Earlier(sizes, y, x)} = Under(R, T, x)
  BY DEF Under
<1> HIDE DEF R
<1>5. ASSUME NEW n \in 1 .. Cardinality(T)
      PROVE  nth(n) \in T /\ Cardinality(Under(R, T, nth(n))) = n - 1
  <2>1. \E x \in T : Cardinality(Under(R, T, x)) = n - 1
    BY <1>1, Ranked
  <2>2. PICK x \in T : Cardinality({y \in T : Earlier(sizes, y, x)}) = n - 1
    BY <1>4, <2>1
  <2>3. nth(n) \in T /\ Cardinality({y \in T : Earlier(sizes, y, nth(n))}) = n - 1
    BY <2>2
  <2> QED
    BY <1>4, <2>3
<1> HIDE DEF nth
<1>6. /\ seq = [n \in 1 .. Cardinality(T) |-> seq[n]]
      /\ \A n \in 1 .. Cardinality(T) :
           seq[n] \in T /\ Cardinality(Under(R, T, seq[n])) = n - 1
  BY <1>3, <1>5
<1>7. Lists(seq, T)
  BY <1>1, <1>6, Listed
<1>8. \A n \in 1 .. Len(seq) : Cardinality(Under(R, T, seq[n])) = n - 1
  BY <1>6, <1>7 DEF Lists
<1>9. R = EarlierIn(sizes)
  BY DEF R, T, EarlierIn
<1> QED
  BY <1>2, <1>7, <1>8, <1>9 DEF T

\* A schedule is a beginning of the turns: all of them, when the limit allows.
LEMMA ScheduleTurns ==
  ASSUME NEW sizes, Strata(sizes), NEW limit \in Nat
  PROVE  /\ Schedule(sizes, limit) \in Seq(Turns(sizes))
         /\ Cardinality(Turns(sizes)) <= limit => Lists(Schedule(sizes, limit), Turns(sizes))
<1> DEFINE T == Turns(sizes)
<1>1. PICK seq : seq = InTurn(sizes)
  OBVIOUS
<1>2. Lists(seq, T)
  BY <1>1, TurnsListed
<1>3. Schedule(sizes, limit) = FirstTurns(seq, limit)
  BY <1>1 DEF Schedule
<1> HIDE DEF T
<1>4. seq \in Seq(T) /\ Len(seq) \in Nat /\ Len(seq) = Cardinality(T)
  BY <1>2 DEF Lists
<1>5. FirstTurns(seq, limit) \in Seq(T)
  BY <1>4 DEF FirstTurns
<1>6. Cardinality(T) <= limit => FirstTurns(seq, limit) = seq
  BY <1>4 DEF FirstTurns
<1> QED
  BY <1>2, <1>3, <1>5, <1>6 DEF T

\* The schedule of a smaller limit is the beginning of that of a larger one.
LEMMA ScheduleBegins ==
  ASSUME NEW sizes, Strata(sizes), NEW a \in Nat, NEW b \in Nat, a <= b,
         NEW short, short = Schedule(sizes, a), NEW long, long = Schedule(sizes, b)
  PROVE  /\ short \in Seq(Turns(sizes)) /\ long \in Seq(Turns(sizes))
         /\ Len(short) <= Len(long) /\ \A k \in 1 .. Len(short) : short[k] = long[k]
<1>1. PICK seq, T : seq = InTurn(sizes) /\ T = Turns(sizes)
  OBVIOUS
<1>2. seq \in Seq(T) /\ Len(seq) \in Nat
  BY <1>1, TurnsListed DEF Lists
<1>3. short = FirstTurns(seq, a) /\ long = FirstTurns(seq, b)
  BY <1>1 DEF Schedule
<1>4. PICK m, n : /\ m = IF a < Len(seq) THEN a ELSE Len(seq)
                  /\ n = IF b < Len(seq) THEN b ELSE Len(seq)
  OBVIOUS
<1>5. m \in Nat /\ n \in Nat /\ m <= n /\ n <= Len(seq)
  BY <1>2, <1>4
<1>6. short = SubSeq(seq, 1, m) /\ long = SubSeq(seq, 1, n)
  BY <1>3, <1>4 DEF FirstTurns
<1>7. /\ short \in Seq(T) /\ long \in Seq(T) /\ Len(short) = m /\ Len(long) = n
      /\ \A k \in 1 .. m : short[k] = seq[k]
      /\ \A k \in 1 .. n : long[k] = seq[k]
  BY <1>2, <1>5, <1>6
<1> QED
  BY <1>1, <1>5, <1>7

\* A schedule gives a stratum its turns from the first.
LEMMA ScheduleFromFirst ==
  ASSUME NEW sizes, Strata(sizes), NEW limit \in Nat, NEW schedule,
         schedule = Schedule(sizes, limit), NEW turn \in ToSet(schedule),
         NEW n \in Nat, n <= turn[2]
  PROVE  turn \in Turns(sizes) /\ <<turn[1], n>> \in ToSet(schedule)
<1>1. PICK seq, T, R : seq = InTurn(sizes) /\ T = Turns(sizes) /\ R = EarlierIn(sizes)
  OBVIOUS
<1>2. Lists(seq, T) /\ \A k \in 1 .. Len(seq) : Cardinality(Under(R, T, seq[k])) = k - 1
  BY <1>1, TurnsListed
<1>3. seq \in Seq(T) /\ Len(seq) \in Nat
  BY <1>2 DEF Lists
<1>4. PICK m \in Nat : m <= Len(seq) /\ schedule = SubSeq(seq, 1, m)
  BY <1>1, <1>3 DEF Schedule, FirstTurns
<1>5. Len(schedule) = m /\ DOMAIN schedule = 1 .. m /\ \A k \in 1 .. m : schedule[k] = seq[k]
  BY <1>3, <1>4
<1>6. PICK k \in 1 .. m : turn = seq[k]
  BY <1>5 DEF ToSet
<1>7. turn \in T
  BY <1>3, <1>4, <1>6
<1>8. CASE n = turn[2]
  <2>1. turn = <<turn[1], n>>
    BY <1>1, <1>7, <1>8, TurnsAre
  <2> QED
    BY <1>1, <1>7, <2>1
<1>9. CASE n # turn[2]
  <2>1. PICK c \in DOMAIN sizes, l \in Nat : turn = <<c, l>> /\ l < sizes[c] /\ n < l
    BY <1>1, <1>7, <1>9, TurnsAre
  <2>2. sizes[c] \in Nat
    BY DEF Strata
  <2>3. <<c, n>> \in T
    BY <1>1, <2>1, <2>2, TurnsAre
  <2>4. n * sizes[c] < l * sizes[c]
    BY <2>1, <2>2
  <2>5. Earlier(sizes, <<c, n>>, turn)
    BY <2>1, <2>4 DEF Earlier
  <2>6. <<<<c, n>>, turn>> \in R
    BY <1>1, <1>7, <2>3, <2>5 DEF EarlierIn
  <2>7. IsFiniteSet(T) /\ Strict(R, T)
    BY <1>1, TurnsFinite, TurnsOrder DEF EarlierIn, Order
  <2>8. Cardinality(Under(R, T, <<c, n>>)) < Cardinality(Under(R, T, turn))
    BY <1>7, <2>3, <2>6, <2>7, UnderDiffers
  <2>9. PICK j \in 1 .. Len(seq) : seq[j] = <<c, n>>
    BY <1>2, <2>3 DEF Lists
  <2>10. k \in 1 .. Len(seq)
    BY <1>3, <1>4
  <2>11. j - 1 < k - 1
    BY <1>2, <1>6, <2>8, <2>9, <2>10
  <2>12. j \in 1 .. m
    BY <1>3, <2>11
  <2> QED
    BY <1>1, <1>5, <1>7, <2>1, <2>9, <2>12 DEF ToSet
<1> QED
  BY <1>8, <1>9

-----------------------------------------------------------------------------
(* The order of the polygons.                                              *)

\* Each cell has a queue of its polygons.
LEMMA QueuesList ==
  ASSUME NEW place, IsFiniteSet(DOMAIN place), RanksDiffer(place)
  PROVE  /\ \A c \in DOMAIN Queued(place) : Lists(Queued(place)[c], InCell(place, c))
         /\ Strata([c \in DOMAIN Queued(place) |-> Len(Queued(place)[c])])
<1> DEFINE small == Small(place)
           cells == {place[p].cell : p \in small}
           cell == [p \in small |-> place[p].cell]
<1>1. ASSUME NEW c \in DOMAIN Queued(place) PROVE Lists(Queued(place)[c], InCell(place, c))
  <2>1. IsFiniteSet(InCell(place, c))
    BY FS_Subset DEF InCell, Small, Sited
  <2>2. \A p, q \in InCell(place, c) :
          PolygonRank[p] \in Nat /\ (PolygonRank[p] = PolygonRank[q] => p = q)
    BY DEF InCell, Small, Sited, RanksDiffer
  <2>3. Lists(ByRank(InCell(place, c)), InCell(place, c))
    BY <2>1, <2>2, ByRankLists
  <2> QED
    BY <2>3 DEF Queued
<1>2. DOMAIN Queued(place) = cells
  BY DEF Queued
<1>3. IsFiniteSet(cells)
  <2>1. cell \in Surjection(small, cells)
    BY DEF Surjection
  <2>2. IsFiniteSet(small)
    BY FS_Subset DEF Small, Sited
  <2> QED
    BY <2>1, <2>2, FS_Surjection
<1>4. \A c \in cells : CellRank[c] \in Nat /\ c # NoCell
  BY DEF RanksDiffer, Small, Sited
<1>5. \A c, d \in cells : CellRank[c] = CellRank[d] => c = d
  BY DEF RanksDiffer, Small, Sited
<1>6. \A c \in DOMAIN Queued(place) : Len(Queued(place)[c]) \in Nat
  BY <1>1 DEF Lists
<1> QED
  BY <1>1, <1>2, <1>3, <1>4, <1>5, <1>6 DEF Strata

\* There are as many turns as polygons in the queues.
LEMMA TurnsEnough ==
  ASSUME NEW place, IsFiniteSet(DOMAIN place), RanksDiffer(place), NEW sizes,
         sizes = [c \in DOMAIN Queued(place) |-> Len(Queued(place)[c])]
  PROVE  Cardinality(Turns(sizes)) <= Cardinality(Small(place))
<1> DEFINE small == Small(place)
           at(p) == CHOOSE n \in 1 .. Len(Queued(place)[place[p].cell]) :
                      Queued(place)[place[p].cell][n] = p
           f == [p \in small |-> <<place[p].cell, at(p) - 1>>]
<1>1. Strata(sizes) /\ \A c \in DOMAIN Queued(place) : Lists(Queued(place)[c], InCell(place, c))
  BY QueuesList
<1>2. ASSUME NEW p \in small
      PROVE  /\ place[p].cell \in DOMAIN Queued(place) /\ p \in InCell(place, place[p].cell)
             /\ at(p) \in 1 .. sizes[place[p].cell]
             /\ Queued(place)[place[p].cell][at(p)] = p
  <2>1. place[p].cell \in DOMAIN Queued(place) /\ p \in InCell(place, place[p].cell)
    BY DEF Queued, InCell
  <2>2. \E n \in 1 .. Len(Queued(place)[place[p].cell]) : Queued(place)[place[p].cell][n] = p
    BY <1>1, <2>1 DEF Lists
  <2> QED
    BY <2>1, <2>2
<1> HIDE DEF at
<1>3. ASSUME NEW p \in small PROVE f[p] \in Turns(sizes)
  <2>1. sizes[place[p].cell] \in Nat /\ place[p].cell \in DOMAIN sizes
    BY <1>1, <1>2 DEF Strata
  <2>2. at(p) - 1 \in Nat /\ at(p) - 1 < sizes[place[p].cell]
    BY <1>2, <2>1
  <2> QED
    BY <1>1, <2>1, <2>2, TurnsAre
<1>4. ASSUME NEW t \in Turns(sizes) PROVE \E p \in small : f[p] = t
  <2>1. /\ t = <<t[1], t[2]>> /\ t[1] \in DOMAIN Queued(place) /\ t[2] \in Nat
        /\ t[2] < sizes[t[1]] /\ sizes[t[1]] = Len(Queued(place)[t[1]])
    BY <1>1, TurnsAre
  <2>2. PICK c \in DOMAIN Queued(place) : c = t[1]
    BY <2>1
  <2>3. PICK q : q = Queued(place)[c]
    OBVIOUS
  <2>4. q \in Seq(InCell(place, c)) /\ \A m, n \in 1 .. Len(q) : q[m] = q[n] => m = n
    BY <1>1, <2>3 DEF Lists
  <2>5. t[2] + 1 \in 1 .. Len(q)
    BY <2>1, <2>2, <2>3, <2>4
  <2>6. PICK p : p = q[t[2] + 1]
    OBVIOUS
  <2>7. p \in small /\ place[p].cell = c
    BY <2>4, <2>5, <2>6 DEF InCell
  <2>8. at(p) \in 1 .. Len(q) /\ q[at(p)] = p
    BY <1>2, <2>1, <2>2, <2>3, <2>7
  <2>9. at(p) = t[2] + 1
    BY <2>4, <2>5, <2>6, <2>8
  <2>10. f[p] = <<t[1], t[2]>>
    BY <2>1, <2>2, <2>7, <2>9
  <2> QED
    BY <2>1, <2>7, <2>10
<1>5. f \in Surjection(small, Turns(sizes))
  BY <1>3, <1>4 DEF Surjection
<1>6. IsFiniteSet(small) /\ Cardinality(Turns(sizes)) <= Cardinality(small)
  BY <1>5, FS_Subset, FS_Surjection DEF Small, Sited
<1> QED
  BY <1>6

\* The order lists every polygon that can be sampled, so each has a position.
LEMMA OrderHasAll ==
  ASSUME NEW place, IsFiniteSet(DOMAIN place), RanksDiffer(place)
  PROVE  /\ PolygonOrder(place) \in Seq(Sited(place))
         /\ \A p \in Sited(place) : p \in ToSet(PolygonOrder(place))
<1> DEFINE large == Sited(place) \ Small(place)
<1>1. PICK queue : queue = Queued(place)
  OBVIOUS
<1>2. PICK sizes : sizes = [c \in DOMAIN queue |-> Len(queue[c])]
  OBVIOUS
<1>3. PICK turns : turns = Schedule(sizes, Cardinality(Small(place)))
  OBVIOUS
<1>4. PICK front : front = ByRank(large)
  OBVIOUS
<1>5. PICK back : back = Dealt(turns, queue)
  OBVIOUS
<1>6. PolygonOrder(place) = front \o back
  BY <1>1, <1>2, <1>3, <1>4, <1>5 DEF PolygonOrder
<1>7. Strata(sizes) /\ \A c \in DOMAIN queue : Lists(queue[c], InCell(place, c))
  BY <1>1, <1>2, QueuesList
<1>8. Lists(front, large)
  <2>1. IsFiniteSet(large)
    BY FS_Subset DEF Sited
  <2>2. \A p, q \in large :
          PolygonRank[p] \in Nat /\ (PolygonRank[p] = PolygonRank[q] => p = q)
    BY DEF Sited, RanksDiffer
  <2> QED
    BY <1>4, <2>1, <2>2, ByRankLists
<1>9. Lists(turns, Turns(sizes))
  <2>1. Cardinality(Small(place)) \in Nat
    BY FS_Subset, FS_CardinalityType DEF Small, Sited
  <2>2. Cardinality(Turns(sizes)) <= Cardinality(Small(place))
    BY <1>1, <1>2, TurnsEnough
  <2> QED
    BY <1>3, <1>7, <2>1, <2>2, ScheduleTurns
<1>10. /\ turns \in Seq(Turns(sizes)) /\ Len(turns) \in Nat
       /\ back = [i \in 1 .. Len(turns) |-> queue[turns[i][1]][turns[i][2] + 1]]
  BY <1>5, <1>9 DEF Lists, Dealt
<1>11. ASSUME NEW t \in Turns(sizes)
       PROVE  queue[t[1]][t[2] + 1] \in Small(place)
  <2>1. t[1] \in DOMAIN queue /\ t[2] \in Nat /\ t[2] < Len(queue[t[1]])
    BY <1>2, <1>7, TurnsAre
  <2>2. PICK c \in DOMAIN queue : c = t[1]
    BY <2>1
  <2>3. queue[c] \in Seq(InCell(place, c))
    BY <1>7 DEF Lists
  <2>4. t[2] + 1 \in 1 .. Len(queue[c])
    BY <2>1, <2>2, <2>3
  <2>5. queue[c][t[2] + 1] \in InCell(place, c)
    BY <2>3, <2>4
  <2> QED
    BY <2>2, <2>5 DEF InCell
<1>12. back \in Seq(Sited(place)) /\ Len(back) = Len(turns)
  <2>1. \A i \in 1 .. Len(turns) : turns[i] \in Turns(sizes)
    BY <1>10
  <2>2. \A i \in 1 .. Len(turns) : queue[turns[i][1]][turns[i][2] + 1] \in Sited(place)
    BY <1>11, <2>1 DEF Small
  <2> QED
    BY <1>10, <2>2
<1>13. front \in Seq(Sited(place))
  <2>1. front \in Seq(large)
    BY <1>8 DEF Lists
  <2> QED
    BY <2>1
<1>14. ASSUME NEW p \in Small(place) PROVE \E i \in 1 .. Len(back) : back[i] = p
  <2>1. PICK c \in DOMAIN queue : c = place[p].cell
    BY <1>1 DEF Queued
  <2>2. p \in InCell(place, c)
    BY <2>1 DEF InCell
  <2>3. PICK n \in 1 .. Len(queue[c]) : queue[c][n] = p
    BY <1>7, <2>2 DEF Lists
  <2>4. Len(queue[c]) \in Nat
    BY <1>7 DEF Lists
  <2>5. n - 1 \in Nat /\ n - 1 < sizes[c] /\ (n - 1) + 1 = n
    BY <1>2, <2>3, <2>4
  <2>6. <<c, n - 1>> \in Turns(sizes)
    BY <1>2, <1>7, <2>5, TurnsAre
  <2>7. PICK i \in 1 .. Len(turns) : turns[i] = <<c, n - 1>>
    BY <1>9, <2>6 DEF Lists
  <2>8. back[i] = queue[c][(n - 1) + 1]
    BY <1>10, <2>7
  <2> QED
    BY <1>12, <2>3, <2>5, <2>7, <2>8
<1>15. ASSUME NEW p \in Sited(place)
       PROVE  \E i \in DOMAIN (front \o back) : (front \o back)[i] = p
  <2>1. CASE p \in Small(place)
    <3>1. PICK i \in 1 .. Len(back) : back[i] = p
      BY <1>14, <2>1
    <3>2. Len(front) + i \in DOMAIN (front \o back) /\ (front \o back)[Len(front) + i] = back[i]
      BY <1>12, <1>13
    <3> QED
      BY <3>1, <3>2
  <2>2. CASE p \in large
    <3>1. PICK i \in 1 .. Len(front) : front[i] = p
      BY <1>8, <2>2 DEF Lists
    <3>2. i \in DOMAIN (front \o back) /\ (front \o back)[i] = front[i]
      BY <1>12, <1>13
    <3> QED
      BY <3>1, <3>2
  <2> QED
    BY <2>1, <2>2
<1>16. PICK order : order = front \o back
  OBVIOUS
<1>17. order \in Seq(Sited(place))
  BY <1>12, <1>13, <1>16
<1>18. \A p \in Sited(place) : p \in ToSet(order)
  BY <1>15, <1>16 DEF ToSet
<1> QED
  BY <1>6, <1>16, <1>17, <1>18

\* The position of a polygon is a number.
LEMMA PositionNat ==
  ASSUME NEW place, IsFiniteSet(DOMAIN place), RanksDiffer(place), NEW p \in Sited(place)
  PROVE  Position(PolygonOrder(place))[p] \in Nat
<1>1. PICK order : order = PolygonOrder(place)
  OBVIOUS
<1>2. order \in Seq(Sited(place)) /\ p \in ToSet(order)
  BY <1>1, OrderHasAll
<1>3. \E i \in DOMAIN order : order[i] = p
  BY <1>2 DEF ToSet
<1>4. Position(order)[p] \in DOMAIN order
  BY <1>2, <1>3 DEF Position
<1> QED
  BY <1>1, <1>2, <1>4

-----------------------------------------------------------------------------
(* The rows that can be sampled.                                           *)

\* A table whose polygons have metadata and whose rows have a rank.
Table(rows, place) ==
  /\ DOMAIN rows \in SUBSET Int /\ IsFiniteSet(DOMAIN rows)
  /\ \A i \in DOMAIN rows : rows[i].polygon \in DOMAIN place /\ SentenceRank[rows[i].id] \in Nat

\* Every row that can be sampled has its place in the polygon order.
LEMMA RowPosition ==
  ASSUME NEW rows, NEW place, Table(rows, place), RanksDiffer(place),
         NEW i \in Eligible(rows, place)
  PROVE  Position(PolygonOrder(Seen(rows, place)))[rows[i].polygon] \in Nat
<1> DEFINE polygons == {rows[j].polygon : j \in DOMAIN rows}
           polygon == [j \in DOMAIN rows |-> rows[j].polygon]
<1>1. PICK seen : seen = Seen(rows, place)
  OBVIOUS
<1>2. seen = [p \in polygons |-> place[p]]
  BY <1>1 DEF Seen
<1>3. IsFiniteSet(polygons)
  <2>1. polygon \in Surjection(DOMAIN rows, polygons)
    BY DEF Surjection
  <2> QED
    BY <2>1, FS_Surjection DEF Table
<1>4. polygons \subseteq DOMAIN place
  BY DEF Table
<1>5. DOMAIN seen = polygons /\ \A p \in polygons : seen[p] = place[p]
  BY <1>2
<1>6. RanksDiffer(seen)
  BY <1>4, <1>5 DEF RanksDiffer
<1>7. rows[i].polygon \in Sited(seen)
  BY <1>5 DEF Eligible, Sited
<1> QED
  BY <1>1, <1>3, <1>5, <1>6, <1>7, PositionNat

\* The rows of a table are in finitely many strata.
LEMMA StrataOf ==
  ASSUME NEW rows, NEW place, Table(rows, place), RanksDiffer(place)
  PROVE  Strata(StratumSizes(rows, place))
<1> DEFINE E == Eligible(rows, place)
           cells == {CellOf(rows, place, i) : i \in E}
           cell == [i \in E |-> CellOf(rows, place, i)]
           sizes == StratumSizes(rows, place)
<1>1. IsFiniteSet(E)
  BY FS_Subset DEF Table, Eligible
<1>2. IsFiniteSet(cells)
  <2>1. cell \in Surjection(E, cells)
    BY DEF Surjection
  <2> QED
    BY <1>1, <2>1, FS_Surjection
<1>3. ASSUME NEW c \in cells PROVE Cardinality({i \in E : CellOf(rows, place, i) = c}) \in Nat
  BY <1>1, FS_Subset, FS_CardinalityType
<1>4. DOMAIN sizes = cells /\ \A c \in cells : sizes[c] \in Nat
  BY <1>3 DEF StratumSizes
<1>5. \A c \in cells : \E p \in DOMAIN place : place[p].cell = c /\ c # NoCell
  BY DEF CellOf, Eligible, Table
<1>6. /\ \A c \in cells : CellRank[c] \in Nat
      /\ \A c, d \in cells : CellRank[c] = CellRank[d] => c = d
  BY <1>5 DEF RanksDiffer
<1> QED
  BY <1>2, <1>4, <1>6 DEF Strata

\* The order of the rows of a table.
LEMMA RowsOrdered ==
  ASSUME NEW rows, NEW position, NEW S \in SUBSET Int,
         \A i \in S : position[rows[i].polygon] \in Nat /\ SentenceRank[rows[i].id] \in Nat
  PROVE  /\ \A i \in S : ~ RowBefore(rows, position, i, i)
         /\ \A i, j, k \in S :
              RowBefore(rows, position, i, j) /\ RowBefore(rows, position, j, k)
                => RowBefore(rows, position, i, k)
         /\ \A i, j \in S :
              i # j => RowBefore(rows, position, i, j) \/ RowBefore(rows, position, j, i)
<1>1. /\ \A i \in S : ~ RowBefore(rows, position, i, i)
      /\ \A i, j, k \in S :
           RowBefore(rows, position, i, j) /\ RowBefore(rows, position, j, k)
             => RowBefore(rows, position, i, k)
  BY DEF RowBefore
<1>2. ASSUME NEW i \in S, NEW j \in S, i # j
      PROVE  RowBefore(rows, position, i, j) \/ RowBefore(rows, position, j, i)
  <2>1. i \in Int /\ j \in Int
    OBVIOUS
  <2> QED
    BY <1>2, <2>1 DEF RowBefore
<1> QED
  BY <1>1, <1>2

-----------------------------------------------------------------------------
(* The best rows.                                                          *)

\* A plan numbers the polygons and gives every stratum a quota.
PlanFor(plan, rows) ==
  /\ \A i \in Eligible(rows, world.place) : plan.position[rows[i].polygon] \in Nat
  /\ \A c \in DOMAIN plan.quota : plan.quota[c] \in Nat

\* What _build_plan computes is such a plan.
LEMMA PlanBuilt ==
  ASSUME NEW rows, Table(rows, world.place), RanksDiffer(world.place), NEW target \in Nat
  PROVE  PlanFor(Plan(rows, target), rows)
<1> DEFINE sizes == StratumSizes(rows, world.place)
           T == Turns(sizes)
<1>1. PICK schedule : schedule = Schedule(sizes, target)
  OBVIOUS
<1>2. /\ Plan(rows, target).position = Position(PolygonOrder(Seen(rows, world.place)))
      /\ Plan(rows, target).quota = [c \in {turn[1] : turn \in ToSet(schedule)} |->
           Cardinality({turn \in ToSet(schedule) : turn[1] = c})]
  BY <1>1 DEF Plan
<1>3. IsFiniteSet(T) /\ schedule \in Seq(T)
  BY <1>1, StrataOf, TurnsFinite, ScheduleTurns
<1>4. ToSet(schedule) \in SUBSET T
  BY <1>3 DEF ToSet
<1>5. IsFiniteSet(ToSet(schedule))
  BY <1>3, <1>4, FS_Subset
<1>6. ASSUME NEW c PROVE Cardinality({turn \in ToSet(schedule) : turn[1] = c}) \in Nat
  <2>1. PICK A : A = ToSet(schedule)
    OBVIOUS
  <2>2. PICK B : B = {turn \in A : turn[1] = c}
    OBVIOUS
  <2>3. IsFiniteSet(A) /\ B \in SUBSET A
    BY <1>5, <2>1, <2>2
  <2>4. IsFiniteSet(B)
    BY <2>3, FS_Subset
  <2>5. Cardinality(B) \in Nat
    BY <2>4, FS_CardinalityType
  <2> QED
    BY <2>1, <2>2, <2>5
<1>7. \A c \in DOMAIN Plan(rows, target).quota : Plan(rows, target).quota[c] \in Nat
  <2>1. PICK quota : quota = Plan(rows, target).quota
    OBVIOUS
  <2>2. \A c \in DOMAIN quota : quota[c] = Cardinality({turn \in ToSet(schedule) : turn[1] = c})
    BY <1>2, <2>1
  <2>3. \A c \in DOMAIN quota : quota[c] \in Nat
    BY <1>6, <2>2
  <2> QED
    BY <2>1, <2>3
<1>8. \A i \in Eligible(rows, world.place) :
        Plan(rows, target).position[rows[i].polygon] \in Nat
  BY <1>2, RowPosition
<1> QED
  BY <1>7, <1>8 DEF PlanFor

\* A row that comes before another one of its stratum.
Ahead(rows, plan, S) ==
  {z \in S \X S : /\ CellOf(rows, world.place, z[1]) = CellOf(rows, world.place, z[2])
                  /\ RowBefore(rows, plan.position, z[1], z[2])}
QuotaOf(rows, plan, i) ==
  IF CellOf(rows, world.place, i) \in DOMAIN plan.quota
  THEN plan.quota[CellOf(rows, world.place, i)] ELSE 0

\* Rows that can be sampled.
Sampleable(rows, plan, S) ==
  /\ Table(rows, world.place) /\ PlanFor(plan, rows)
  /\ S \subseteq Eligible(rows, world.place)

\* They are in a strict order, and the rows ahead of a row have its quota.
LEMMA AheadStrict ==
  ASSUME NEW rows, NEW plan, NEW S, Sampleable(rows, plan, S)
  PROVE  /\ IsFiniteSet(S) /\ Strict(Ahead(rows, plan, S), S)
         /\ \A i \in S : QuotaOf(rows, plan, i) \in Nat
         /\ \A i, j \in S : <<j, i>> \in Ahead(rows, plan, S)
                              => QuotaOf(rows, plan, j) = QuotaOf(rows, plan, i)
<1>1. S \in SUBSET DOMAIN rows /\ S \in SUBSET Int
  BY DEF Sampleable, Table, Eligible
<1>2. IsFiniteSet(S)
  BY <1>1, FS_Subset DEF Sampleable, Table
<1>3. \A i \in S : plan.position[rows[i].polygon] \in Nat /\ SentenceRank[rows[i].id] \in Nat
  BY <1>1 DEF Sampleable, PlanFor, Table
<1>4. /\ \A i \in S : ~ RowBefore(rows, plan.position, i, i)
      /\ \A i, j, k \in S :
           RowBefore(rows, plan.position, i, j) /\ RowBefore(rows, plan.position, j, k)
             => RowBefore(rows, plan.position, i, k)
  BY <1>1, <1>3, RowsOrdered
<1>5. Strict(Ahead(rows, plan, S), S)
  BY <1>4 DEF Strict, Ahead
<1>6. \A i \in S : QuotaOf(rows, plan, i) \in Nat
  BY DEF QuotaOf, Sampleable, PlanFor
<1>7. \A i, j \in S : <<j, i>> \in Ahead(rows, plan, S)
                        => QuotaOf(rows, plan, j) = QuotaOf(rows, plan, i)
  BY DEF QuotaOf, Ahead
<1> QED
  BY <1>2, <1>5, <1>6, <1>7

\* The best rows are those with fewer rows ahead than the quota.
LEMMA BestIs ==
  ASSUME NEW rows, NEW plan, NEW S, Sampleable(rows, plan, S), NEW C \in SUBSET S, NEW i \in S
  PROVE  /\ IsFiniteSet(C) /\ Cardinality(Under(Ahead(rows, plan, S), C, i)) \in Nat
         /\ i \in Best(rows, plan, C) <=>
              i \in C /\ Cardinality(Under(Ahead(rows, plan, S), C, i)) < QuotaOf(rows, plan, i)
<1> DEFINE U == {j \in C : /\ CellOf(rows, world.place, j) = CellOf(rows, world.place, i)
                           /\ RowBefore(rows, plan.position, j, i)}
<1>1. U = Under(Ahead(rows, plan, S), C, i)
  BY DEF Under, Ahead
<1>2. IsFiniteSet(C)
  BY AheadStrict, FS_Subset
<1>3. IsFiniteSet(U) /\ Cardinality(U) \in Nat
  BY <1>2, FS_Subset, FS_CardinalityType
<1>4. i \in Best(rows, plan, C) <=>
        /\ i \in C /\ CellOf(rows, world.place, i) \in DOMAIN plan.quota
        /\ Cardinality(U) < plan.quota[CellOf(rows, world.place, i)]
  BY DEF Best
<1> HIDE DEF U
<1>5. i \in Best(rows, plan, C) <=> i \in C /\ Cardinality(U) < QuotaOf(rows, plan, i)
  BY <1>3, <1>4 DEF QuotaOf
<1> QED
  BY <1>1, <1>2, <1>3, <1>5

\* A row that is among the best of a set is among the best of every part.
LEMMA BestOfPart ==
  ASSUME NEW rows, NEW plan, NEW S, Sampleable(rows, plan, S), NEW C \in SUBSET S,
         NEW i \in C, i \in Best(rows, plan, S)
  PROVE  i \in Best(rows, plan, C)
<1> DEFINE R == Ahead(rows, plan, S)
<1> HIDE DEF R
<1>1. PICK U : U = Under(R, S, i)
  OBVIOUS
<1>2. IsFiniteSet(U) /\ Under(R, C, i) \in SUBSET U
  BY <1>1, AheadStrict, FS_Subset DEF Under
<1>3. Cardinality(Under(R, C, i)) <= Cardinality(U)
  BY <1>2, FS_Subset
<1>4. Cardinality(U) \in Nat /\ Cardinality(U) < QuotaOf(rows, plan, i)
  BY <1>1, BestIs DEF R
<1>5. /\ Cardinality(Under(R, C, i)) \in Nat
      /\ i \in Best(rows, plan, C) <=>
           i \in C /\ Cardinality(Under(R, C, i)) < QuotaOf(rows, plan, i)
  BY BestIs DEF R
<1>6. QuotaOf(rows, plan, i) \in Nat
  BY AheadStrict
<1> QED
  BY <1>3, <1>4, <1>5, <1>6

\* A part that has the best rows of a set has the same best rows.
LEMMA BestKept ==
  ASSUME NEW rows, NEW plan, NEW S, Sampleable(rows, plan, S), NEW C \in SUBSET S,
         Best(rows, plan, S) \subseteq C
  PROVE  Best(rows, plan, C) = Best(rows, plan, S)
<1> DEFINE R == Ahead(rows, plan, S)
           q == [i \in S |-> QuotaOf(rows, plan, i)]
<1>1. /\ IsFiniteSet(S) /\ Strict(R, S) /\ q \in [S -> Nat]
      /\ \A i, j \in S : <<j, i>> \in R => q[j] = q[i]
  BY AheadStrict
<1>2. \A i \in S : /\ i \in Best(rows, plan, S) <=> Cardinality(Under(R, S, i)) < q[i]
                   /\ i \in Best(rows, plan, C) <=>
                        i \in C /\ Cardinality(Under(R, C, i)) < q[i]
  BY BestIs
<1>3. Best(rows, plan, C) \subseteq C /\ Best(rows, plan, S) \subseteq S
  BY DEF Best
<1> HIDE DEF R, q
<1>4. ASSUME NEW i \in Best(rows, plan, C) PROVE i \in Best(rows, plan, S)
  <2>1. i \in C /\ i \in S /\ Cardinality(Under(R, C, i)) < q[i]
    BY <1>2, <1>3
  <2>2. \A j \in S : Cardinality(Under(R, S, j)) < q[j] => j \in C
    BY <1>2
  <2>3. Cardinality(Under(R, S, i)) < q[i]
    BY <1>1, <2>1, <2>2, FirstOfPart
  <2> QED
    BY <1>2, <2>1, <2>3
<1>5. ASSUME NEW i \in Best(rows, plan, S) PROVE i \in Best(rows, plan, C)
  BY <1>3, <1>5, BestOfPart
<1> QED
  BY <1>4, <1>5
-----------------------------------------------------------------------------
(* The ledger.                                                             *)

\* The points at which an allocation has the ledger open.
Working == {"state", "grow", "plan", "commit", "build", "retain", "rows", "meta"}
Opened == db # None \/ job.pc \in Working

JobInv ==
  /\ job = [pc |-> job.pc, target |-> job.target, plan |-> job.plan, heap |-> job.heap,
            shard |-> job.shard, rows |-> job.rows, out |-> job.out]
  /\ job.target \in Nat
Inputs == world \in Worlds /\ budget \in Nat /\ state \in Nat \cup {None}

\* What is staged for a shard is its finalized table.
HubInv ==
  /\ hub = [s \in Shards |-> hub[s]]
  /\ \A s \in Shards : hub[s] \in {None, Finalized(world.occs[s])}
LedgerInv ==
  Opened =>
    /\ db = [offset |-> db.offset, kept |-> db.kept, retained |-> db.retained, cand |-> db.cand]
    /\ db.offset \in [Shards -> Nat \cup {None}] /\ db.kept \in [Shards -> Nat]
    /\ \A s \in Planned : hub[s] = Finalized(world.occs[s])
CommitInv ==
  At("commit") => Unplanned # {} /\ hub[Min(Unplanned)] = Finalized(world.occs[Min(Unplanned)])

\* Before the state file and the plan, nothing is retained.
Fresh == db.cand = {} /\ \A s \in Shards : db.kept[s] = 0
FreshInv == Opened /\ (state = None \/ At("grow") \/ Unplanned # {}) => Fresh

\* An allocation that plans has the target of the state file, and its plan is
\* the plan for that target.
TargetInv == job.pc \in {"plan", "commit", "build", "retain"} => state = job.target
PlanInv ==
  job.pc \in {"build", "retain"} => Unplanned = {} /\ job.plan = Plan(PlannedRows, job.target)

\* The candidates have the best rows, and the heaps are those rows.
Covers(rows, plan, scanned) ==
  Best(rows, plan, scanned) \subseteq db.cand /\ db.cand \subseteq scanned
CoversInv ==
  Opened /\ state # None /\ Unplanned = {} =>
    \A rows \in {PlannedRows} :
      \A plan \in {Plan(rows, state)}, scanned \in {Scanned(rows)} :
        Covers(rows, plan, scanned)
HeapInv ==
  At("retain") =>
    \A rows \in {PlannedRows} :
      job.heap = Best(rows, job.plan, Scanned(rows)) /\ job.heap \subseteq db.cand

IInv ==
  /\ Inputs /\ JobInv /\ HubInv /\ LedgerInv /\ CommitInv
  /\ FreshInv /\ TargetInv /\ PlanInv /\ CoversInv /\ HeapInv

-----------------------------------------------------------------------------
(* What a step leaves alone.                                               *)

\* The rows of the ledger are those of its offsets and of the staging branch.
LEMMA SameRows ==
  ASSUME world' = world, hub' = hub, db'.offset = db.offset
  PROVE  Shards' = Shards /\ Unplanned' = Unplanned /\ PlannedRows' = PlannedRows
<1>1. Shards' = Shards /\ Planned' = Planned
  BY DEF Shards, Planned
<1>2. ASSUME NEW s PROVE Numbers(s)' = Numbers(s)
  BY DEF Numbers
<1>3. Counted' = Counted
  BY <1>1, <1>2 DEF Counted
<1>4. ASSUME NEW k PROVE ShardOf(k)' = ShardOf(k)
  <2>1. \A s : (s \in Planned' /\ k \in Numbers(s)') <=> (s \in Planned /\ k \in Numbers(s))
    BY <1>1, <1>2
  <2> QED
    BY <2>1 DEF ShardOf
<1>5. PlannedRows' = PlannedRows
  BY <1>3, <1>4 DEF PlannedRows
<1> QED
  BY <1>1, <1>5 DEF Unplanned

\* The order of given rows depends on the inputs only.
LEMMA SameOrder ==
  ASSUME world' = world, NEW rows, NEW plan, NEW S, NEW target
  PROVE  /\ Best(rows, plan, S)' = Best(rows, plan, S)
         /\ Plan(rows, target)' = Plan(rows, target)
         /\ Located(rows, S)' = Located(rows, S)
<1>1. Best(rows, plan, S)' = Best(rows, plan, S)
  BY DEF Best
<1>2. Plan(rows, target)' = Plan(rows, target)
  BY DEF Plan
<1>3. Located(rows, S)' = Located(rows, S)
  BY DEF Located
<1> QED
  BY <1>1, <1>2, <1>3

\* The counters say which rows were scanned.
LEMMA SameScan ==
  ASSUME world' = world, db'.offset = db.offset, db'.kept = db.kept, NEW rows
  PROVE  Scanned(rows)' = Scanned(rows)
BY DEF Scanned, Located, Shards

-----------------------------------------------------------------------------
(* The rows behind the ledger can be sampled.                              *)

\* The smallest of some numbers is one of them.
LEMMA MinIn ==
  ASSUME NEW S \in SUBSET Nat, S # {}
  PROVE  Min(S) \in S /\ \A n \in S : Min(S) <= n
<1> DEFINE f == [n \in S |-> n]
<1>1. f \in [S -> Nat]
  OBVIOUS
<1>2. \E x \in S : \A y \in S : f[x] <= f[y]
  BY <1>1, Smallest
<1>3. \E x \in S : \A y \in S : x <= y
  BY <1>2
<1> QED
  BY <1>3 DEF Min

\* The shards of a run are numbered from 1.
LEMMA ShardNumbers ==
  ASSUME Inputs
  PROVE  /\ Shards \in SUBSET Nat /\ IsFiniteSet(Shards)
         /\ \A s \in Shards : /\ world.occs[s] \in SUBSET OccurrenceType
                              /\ IsFiniteSet(world.occs[s]) /\ Placed(world.occs[s])
<1>1. WorldOK(world)
  BY WorldsAssumption DEF Inputs
<1>2. Shards = 1 .. Len(world.occs) /\ Len(world.occs) \in Nat
  BY <1>1 DEF WorldOK, Shards
<1>3. IsFiniteSet(1 .. Len(world.occs))
  BY <1>2, FS_Interval
<1>4. \A s \in Shards : /\ world.occs[s] \in SUBSET OccurrenceType
                        /\ IsFiniteSet(world.occs[s]) /\ Placed(world.occs[s])
  BY <1>1 DEF WorldOK, Shards
<1> QED
  BY <1>2, <1>3, <1>4

\* They make a table of the rows of the planned shards.
LEMMA RowsTable ==
  ASSUME Inputs, LedgerInv, Opened, NEW rows, rows = PlannedRows
  PROVE  Table(rows, world.place) /\ RanksDiffer(world.place)
<1>0. WorldOK(world)
  BY WorldsAssumption DEF Inputs
<1>1. Planned \subseteq Shards /\ \A s \in Planned : db.offset[s] \in Nat
  BY DEF LedgerInv, Planned
<1>2. ASSUME NEW s \in Planned
      PROVE  /\ hub[s] = Finalized(world.occs[s])
             /\ Lists(hub[s], RowsFrom(world.occs[s])) /\ Len(hub[s]) \in Nat
  <2>1. Lists(Finalized(world.occs[s]), RowsFrom(world.occs[s]))
    BY <1>1, ShardNumbers, FinalizedLists
  <2>2. hub[s] = Finalized(world.occs[s])
    BY DEF LedgerInv
  <2> QED
    BY <2>1, <2>2 DEF Lists
<1>3. ASSUME NEW s \in Planned
      PROVE  IsFiniteSet(Numbers(s)) /\ Numbers(s) \subseteq Int
  <2> DEFINE I == 1 .. Len(hub[s])
             f == [i \in I |-> db.offset[s] + i]
  <2>1. IsFiniteSet(I)
    BY <1>2, FS_Interval
  <2>2. f \in Surjection(I, Numbers(s))
    BY DEF Surjection, Numbers
  <2>3. IsFiniteSet(Numbers(s))
    BY <2>1, <2>2, FS_Surjection
  <2> QED
    BY <1>1, <1>2, <2>3 DEF Numbers
<1>4. IsFiniteSet(Counted) /\ Counted \in SUBSET Int
  <2> DEFINE all == {Numbers(s) : s \in Planned}
             f == [s \in Planned |-> Numbers(s)]
  <2>1. IsFiniteSet(Planned)
    BY <1>1, ShardNumbers, FS_Subset
  <2>2. f \in Surjection(Planned, all)
    BY DEF Surjection
  <2>3. IsFiniteSet(all)
    BY <2>1, <2>2, FS_Surjection
  <2>4. IsFiniteSet(UNION all)
    BY <1>3, <2>3, FS_UNION
  <2> QED
    BY <1>3, <2>4 DEF Counted
<1>5. ASSUME NEW k \in Counted
      PROVE  rows[k].polygon \in DOMAIN world.place /\ SentenceRank[rows[k].id] \in Nat
  <2>1. PICK s \in Planned : s = ShardOf(k) /\ k \in Numbers(s)
    BY DEF Counted, ShardOf
  <2>2. PICK i \in 1 .. Len(hub[s]) : k = db.offset[s] + i
    BY <2>1 DEF Numbers
  <2>3. k - db.offset[s] = i
    BY <1>1, <1>2, <2>2
  <2>4. rows[k] = hub[s][i]
    BY <2>1, <2>3 DEF PlannedRows
  <2>5. PICK r \in RowsFrom(world.occs[s]) : r = rows[k]
    BY <1>2, <2>4 DEF Lists
  <2>6. world.occs[s] \in SUBSET OccurrenceType /\ Placed(world.occs[s])
    BY <1>1, ShardNumbers
  <2>7. PICK o \in world.occs[s] : r.id = SentenceId(o) /\ r.polygon = o.polygon
    BY <2>5, <2>6, RowFacts
  <2>8. s \in DOMAIN world.occs
    BY <1>1 DEF Shards
  <2>9. o.polygon \in DOMAIN world.place /\ SentenceRank[SentenceId(o)] \in Nat
    BY <1>0, <2>7, <2>8 DEF WorldOK
  <2> QED
    BY <2>5, <2>7, <2>9
<1>6. DOMAIN rows = Counted
  BY DEF PlannedRows
<1> QED
  BY <1>0, <1>4, <1>5, <1>6 DEF Table, WorldOK

\* Rows that were located can be sampled with the plan for any target.
LEMMA LocatedSampleable ==
  ASSUME Inputs, LedgerInv, Opened, NEW rows, rows = PlannedRows, NEW target \in Nat,
         NEW plan, plan = Plan(rows, target), NEW S, S \subseteq Eligible(rows, world.place)
  PROVE  Sampleable(rows, plan, S)
<1>1. Table(rows, world.place) /\ RanksDiffer(world.place)
  BY RowsTable
<1>2. PlanFor(plan, rows)
  BY <1>1, PlanBuilt
<1> QED
  BY <1>1, <1>2 DEF Sampleable

-----------------------------------------------------------------------------
(* Steps that leave the ledger alone.                                      *)

\* A ledger that does not change goes on to cover the best rows.
LEMMA CoversKept ==
  ASSUME IInv, world' = world, hub' = hub, db' = db, state' = state, Opened' => Opened
  PROVE  CoversInv'
<1>1. Unplanned' = Unplanned /\ PlannedRows' = PlannedRows
  BY SameRows
<1>2. SUFFICES ASSUME Opened, state # None, Unplanned = {}, NEW rows, rows = PlannedRows,
                      NEW plan, plan = Plan(rows, state)', NEW scanned, scanned = Scanned(rows)'
               PROVE  Covers(rows, plan, scanned)'
  BY <1>1 DEF CoversInv
<1>3. PICK target : target = state
  OBVIOUS
<1>4. Plan(rows, target)' = Plan(rows, target) /\ state' = target
  BY <1>3, SameOrder
<1>5. plan = Plan(rows, state)
  BY <1>2, <1>3, <1>4
<1>6. scanned = Scanned(rows)
  BY <1>2, SameScan
<1>7. Best(rows, plan, scanned)' = Best(rows, plan, scanned)
  BY SameOrder
<1> QED
  BY <1>2, <1>5, <1>6, <1>7 DEF IInv, CoversInv, Covers

\* An empty ledger covers the best of no rows.
LEMMA FreshCovers ==
  ASSUME Fresh'
  PROVE  CoversInv'
<1>1. ASSUME NEW rows PROVE Scanned(rows)' = {}
  BY DEF Scanned, Located, Fresh
<1>2. ASSUME NEW rows, NEW plan PROVE Best(rows, plan, {})' = {}
  BY DEF Best
<1> QED
  BY <1>1, <1>2 DEF CoversInv, Covers, Fresh

\* A step that neither touches what is durable nor enters the planning keeps
\* the invariant.
LEMMA Unmoved ==
  ASSUME IInv, world' = world, budget' \in Nat, hub' = hub, db' = db, state' = state,
         JobInv', job'.pc \in Working => job.pc \in Working,
         job'.pc \notin {"grow", "plan", "commit", "build", "retain"}
  PROVE  IInv'
<1>1. Shards' = Shards /\ Unplanned' = Unplanned /\ Planned' = Planned
  BY DEF Shards, Unplanned, Planned
<1>2. Opened' => Opened
  BY DEF Opened
<1>3. Inputs' /\ HubInv' /\ LedgerInv' /\ CommitInv'
  BY <1>1, <1>2 DEF IInv, Inputs, HubInv, LedgerInv, CommitInv, At
<1>4. FreshInv' /\ TargetInv' /\ PlanInv' /\ HeapInv'
  BY <1>1, <1>2 DEF IInv, FreshInv, Fresh, TargetInv, PlanInv, HeapInv, At
<1>5. CoversInv'
  BY <1>2, CoversKept
<1> QED
  BY <1>3, <1>4, <1>5 DEF IInv

\* Neither does a step of the operator while an allocation runs.
LEMMA Unworked ==
  ASSUME IInv, world' = world, budget' \in Nat, hub' = hub, db' = db, state' = state, job' = job
  PROVE  IInv'
<1>1. Shards' = Shards /\ Unplanned' = Unplanned /\ Planned' = Planned
      /\ PlannedRows' = PlannedRows /\ (Opened' <=> Opened)
  BY SameRows DEF Shards, Unplanned, Planned, Opened
<1>2. Inputs' /\ JobInv' /\ HubInv' /\ LedgerInv' /\ CommitInv'
  BY <1>1 DEF IInv, Inputs, JobInv, HubInv, LedgerInv, CommitInv, At
<1>3. FreshInv' /\ TargetInv'
  BY <1>1 DEF IInv, FreshInv, Fresh, TargetInv, At
<1>4. CoversInv'
  BY <1>1, CoversKept
<1>5. PlanInv'
  <2>1. PICK rows, target : rows = PlannedRows /\ target = job.target
    OBVIOUS
  <2>2. Plan(rows, target)' = Plan(rows, target)
    BY SameOrder
  <2> QED
    BY <1>1, <2>1, <2>2 DEF IInv, PlanInv
<1>6. HeapInv'
  <2>1. SUFFICES ASSUME At("retain"), NEW rows, rows = PlannedRows
                 PROVE  /\ job.heap = Best(rows, job.plan, Scanned(rows))'
                        /\ job.heap \subseteq db.cand
    BY <1>1 DEF HeapInv, At
  <2>2. PICK plan, scanned : plan = job.plan /\ scanned = Scanned(rows)
    OBVIOUS
  <2>3. scanned = Scanned(rows)' /\ Best(rows, plan, scanned)' = Best(rows, plan, scanned)
    BY <2>2, SameScan, SameOrder
  <2> QED
    BY <2>1, <2>2, <2>3 DEF IInv, HeapInv
<1> QED
  BY <1>2, <1>3, <1>4, <1>5, <1>6 DEF IInv

\* The operator and the scheduler.
LEMMA OperatorStep ==
  ASSUME IInv, (\E t \in Targets : RaiseTarget(t)) \/ StartJob \/ AcceptOutput \/ Kill
  PROVE  IInv'
<1>1. budget \in Nat
  BY DEF IInv, Inputs
<1>2. ASSUME NEW t \in Targets, RaiseTarget(t) PROVE IInv'
  <2>1. t \in Nat
    BY TargetsAssumption
  <2> QED
    BY <1>2, <2>1, Unworked DEF RaiseTarget, durable
<1>3. ASSUME StartJob PROVE IInv'
  <2>1. JobInv' /\ job'.pc \in {"open", "stream"}
    BY <1>1, <1>3 DEF StartJob, NoJob, JobInv
  <2> QED
    BY <1>1, <1>3, <2>1, Unmoved DEF StartJob, durable, Working
<1>4. ASSUME AcceptOutput \/ Kill PROVE IInv'
  <2>1. JobInv' /\ job'.pc = "down"
    BY <1>4 DEF AcceptOutput, Kill, NoJob, JobInv
  <2> QED
    BY <1>1, <1>4, <2>1, Unmoved DEF AcceptOutput, Kill, durable, Working
<1> QED
  BY <1>2, <1>3, <1>4

\* An allocation that streams, opens the state file, materializes or delivers.
LEMMA OutsideStep ==
  ASSUME IInv, \/ StreamShards \/ OpenState \/ MaterializeShard \/ DescribeCache
               \/ WriteSelected \/ Persist
  PROVE  IInv'
<1>1. budget \in Nat /\ JobInv
  BY DEF IInv, Inputs
<1>2. ASSUME StreamShards PROVE IInv'
  <2>1. JobInv' /\ job'.pc = "persist"
    BY <1>1, <1>2 DEF StreamShards, JobInv
  <2> QED
    BY <1>1, <1>2, <2>1, Unmoved DEF StreamShards, durable, Working
<1>3. ASSUME OpenState PROVE IInv'
  <2>1. JobInv' /\ job'.pc \in {"down", "ledger"}
    BY <1>1, <1>3 DEF OpenState, Goto, NoJob, JobInv
  <2> QED
    BY <1>1, <1>3, <2>1, Unmoved DEF OpenState, durable, Working
<1>4. ASSUME MaterializeShard PROVE IInv'
  <2>1. JobInv' /\ job.pc = "rows" /\ job'.pc \in {"rows", "meta"}
    BY <1>1, <1>4 DEF MaterializeShard, At, JobInv
  <2> QED
    BY <1>1, <1>4, <2>1, Unmoved DEF MaterializeShard, Working
<1>5. ASSUME DescribeCache PROVE IInv'
  <2>1. JobInv' /\ job.pc = "meta" /\ job'.pc = "rows"
    BY <1>1, <1>5 DEF DescribeCache, At, JobInv
  <2> QED
    BY <1>1, <1>5, <2>1, Unmoved DEF DescribeCache, Working
<1>6. ASSUME WriteSelected PROVE IInv'
  <2>1. JobInv' /\ job'.pc = "persist"
    BY <1>1, <1>6 DEF WriteSelected, JobInv
  <2> QED
    BY <1>1, <1>6, <2>1, Unmoved DEF WriteSelected, durable, Working
<1>7. ASSUME Persist PROVE IInv'
  <2>1. JobInv' /\ job'.pc = "exit"
    BY <1>1, <1>7 DEF Persist, Goto, JobInv
  <2> QED
    BY <1>1, <1>7, <2>1, Unmoved DEF Persist, durable, Working
<1> QED
  BY <1>2, <1>3, <1>4, <1>5, <1>6, <1>7

-----------------------------------------------------------------------------
(* Opening the ledger.                                                     *)

\* A new ledger has planned and retained nothing.
LEMMA OpenLedgerStep ==
  ASSUME IInv, OpenLedger
  PROVE  IInv'
<1>1. CASE db # None
  <2>1. JobInv' /\ job'.pc = "state"
    BY DEF OpenLedger, Goto, IInv, JobInv
  <2>2. Shards' = Shards /\ Unplanned' = Unplanned /\ Planned' = Planned
        /\ Opened /\ db' = db /\ hub' = hub /\ world' = world /\ state' = state
        /\ budget' = budget
    BY <1>1 DEF OpenLedger, Shards, Unplanned, Planned, Opened
  <2>3. Inputs' /\ HubInv' /\ LedgerInv' /\ CommitInv'
    BY <2>1, <2>2 DEF IInv, Inputs, HubInv, LedgerInv, CommitInv, At
  <2>4. FreshInv' /\ TargetInv' /\ PlanInv' /\ HeapInv'
    BY <2>1, <2>2 DEF IInv, FreshInv, Fresh, TargetInv, PlanInv, HeapInv, At
  <2>5. CoversInv'
    BY <2>2, CoversKept
  <2> QED
    BY <2>1, <2>3, <2>4, <2>5 DEF IInv
<1>2. CASE db = None
  <2>1. JobInv' /\ job'.pc = "state"
    BY DEF OpenLedger, Goto, IInv, JobInv
  <2>2. hub' = hub /\ world' = world /\ state' = state /\ budget' = budget /\ Shards' = Shards
    BY DEF OpenLedger, Shards
  <2>3. db' = [offset |-> [s \in Shards |-> None], kept |-> [s \in Shards |-> 0],
               retained |-> {}, cand |-> {}]
    BY <1>2 DEF OpenLedger, EmptyLedger
  <2>4. db'.offset = [s \in Shards |-> None] /\ db'.kept = [s \in Shards |-> 0] /\ db'.cand = {}
    BY <2>3
  <2>5. Planned' = {}
    BY <2>2, <2>4 DEF Planned
  <2>6. Inputs' /\ HubInv' /\ CommitInv'
    BY <2>1, <2>2 DEF IInv, Inputs, HubInv, CommitInv, At
  <2>7. LedgerInv'
    BY <2>2, <2>3, <2>4, <2>5 DEF LedgerInv
  <2>8. FreshInv' /\ TargetInv' /\ PlanInv' /\ HeapInv'
    BY <2>1, <2>2, <2>4 DEF FreshInv, Fresh, TargetInv, PlanInv, HeapInv, At
  <2>9. CoversInv'
    BY <2>2, <2>4, FreshCovers DEF Fresh
  <2> QED
    BY <2>1, <2>6, <2>7, <2>8, <2>9 DEF IInv
<1> QED
  BY <1>1, <1>2

\* The state file has the target, or the ledger is cleared for a larger one.
LEMMA CheckTargetStep ==
  ASSUME IInv, CheckTarget
  PROVE  IInv'
<1>1. job.pc = "state" /\ Opened
  BY DEF CheckTarget, At, Opened, Working
<1>2. hub' = hub /\ world' = world /\ state' = state /\ budget' = budget /\ Shards' = Shards
  BY DEF CheckTarget, Shards
<1>3. Inputs' /\ HubInv'
  BY <1>2 DEF IInv, Inputs, HubInv
<1>4. CASE state # None /\ job.target = state
  <2>1. JobInv' /\ job'.pc = "plan" /\ job'.target = job.target /\ db' = db
    BY <1>4 DEF CheckTarget, Goto, IInv, JobInv
  <2>2. Planned' = Planned /\ Unplanned' = Unplanned
    BY <1>2, <2>1 DEF Planned, Unplanned, Shards
  <2>3. LedgerInv' /\ CommitInv'
    BY <1>1, <1>2, <2>1, <2>2 DEF IInv, LedgerInv, CommitInv, At
  <2>4. FreshInv' /\ TargetInv' /\ PlanInv' /\ HeapInv'
    BY <1>1, <1>2, <1>4, <2>1, <2>2 DEF IInv, FreshInv, Fresh, TargetInv, PlanInv, HeapInv, At
  <2>5. CoversInv'
    BY <1>1, <1>2, <2>1, CoversKept
  <2> QED
    BY <1>3, <2>1, <2>3, <2>4, <2>5 DEF IInv
<1>5. CASE ~ (state # None /\ job.target = state)
  <2>1. JobInv' /\ job'.pc = "grow"
    BY <1>5 DEF CheckTarget, Goto, IInv, JobInv
  <2>2. /\ db = [offset |-> db.offset, kept |-> db.kept, retained |-> db.retained, cand |-> db.cand]
        /\ db.offset \in [Shards -> Nat \cup {None}] /\ db.kept \in [Shards -> Nat]
    BY <1>1 DEF IInv, LedgerInv
  <2>3. /\ db' = [offset |-> db'.offset, kept |-> db'.kept, retained |-> db'.retained,
                  cand |-> db'.cand]
        /\ db'.offset = db.offset /\ db'.kept \in [Shards -> Nat]
        /\ db'.cand = {} /\ \A s \in Shards : db'.kept[s] = 0
    <3>1. CASE state = None
      <4>1. db' = db
        BY <1>5, <3>1 DEF CheckTarget
      <4> QED
        BY <1>1, <2>2, <3>1, <4>1 DEF IInv, FreshInv, Fresh
    <3>2. CASE state # None
      <4>1. db' = Cleared(db)
        BY <1>5, <3>2 DEF CheckTarget
      <4>2. db' = [offset |-> db.offset, kept |-> [s \in Shards |-> 0], retained |-> {},
                   cand |-> {}]
        BY <2>2, <4>1 DEF Cleared
      <4> QED
        BY <4>2
    <3> QED
      BY <3>1, <3>2
  <2>4. Planned' = Planned
    BY <1>2, <2>3 DEF Planned
  <2>5. Fresh'
    BY <1>2, <2>3 DEF Fresh
  <2>6. LedgerInv'
    BY <1>1, <1>2, <2>2, <2>3, <2>4 DEF IInv, LedgerInv
  <2>7. CommitInv' /\ FreshInv' /\ TargetInv' /\ PlanInv' /\ HeapInv'
    BY <2>1, <2>5 DEF CommitInv, FreshInv, TargetInv, PlanInv, HeapInv, At
  <2>8. CoversInv'
    BY <2>5, FreshCovers
  <2> QED
    BY <1>3, <2>1, <2>6, <2>7, <2>8 DEF IInv
<1> QED
  BY <1>4, <1>5

\* The state file is written when the ledger is empty.
LEMMA WriteStateStep ==
  ASSUME IInv, WriteState
  PROVE  IInv'
<1>1. job.pc = "grow" /\ Opened /\ Fresh
  BY DEF WriteState, At, Opened, Working, IInv, FreshInv
<1>2. JobInv' /\ job'.pc = "plan" /\ state' = job.target /\ job'.target = job.target
  BY DEF WriteState, Goto, IInv, JobInv
<1>3. hub' = hub /\ world' = world /\ db' = db /\ budget' = budget
      /\ Shards' = Shards /\ Planned' = Planned
  BY DEF WriteState, Shards, Planned
<1>4. Inputs' /\ HubInv' /\ LedgerInv'
  BY <1>1, <1>2, <1>3 DEF IInv, Inputs, HubInv, LedgerInv, JobInv
<1>5. Fresh'
  BY <1>1, <1>3 DEF Fresh
<1>6. CommitInv' /\ FreshInv' /\ TargetInv' /\ PlanInv' /\ HeapInv'
  BY <1>2, <1>5 DEF CommitInv, FreshInv, TargetInv, PlanInv, HeapInv, At
<1>7. CoversInv'
  BY <1>5, FreshCovers
<1> QED
  BY <1>2, <1>4, <1>6, <1>7 DEF IInv

-----------------------------------------------------------------------------
(* Planning.                                                               *)

\* The first shard that is not planned yet.
LEMMA NextUnplanned ==
  ASSUME Inputs, Unplanned # {}
  PROVE  Min(Unplanned) \in Shards /\ Min(Unplanned) \notin Planned
<1>1. Unplanned \in SUBSET Nat
  BY ShardNumbers DEF Unplanned
<1>2. Min(Unplanned) \in Unplanned
  BY <1>1, MinIn
<1> QED
  BY <1>2 DEF Unplanned

\* A staged table is that of its shard, new or not.
LEMMA StageShardStep ==
  ASSUME IInv, StageShard
  PROVE  IInv'
<1>1. job.pc = "plan" /\ Opened /\ Unplanned # {} /\ Fresh
  BY DEF StageShard, At, Opened, Working, IInv, FreshInv
<1>2. JobInv' /\ job'.pc = "commit" /\ job'.target = job.target
  BY DEF StageShard, Goto, IInv, JobInv
<1>3. state' = state /\ world' = world /\ db' = db /\ budget' = budget
      /\ Shards' = Shards /\ Planned' = Planned /\ Unplanned' = Unplanned
  BY DEF StageShard, Shards, Planned, Unplanned
<1>4. PICK s \in Shards : s = Min(Unplanned) /\ s \notin Planned
  BY <1>1, NextUnplanned DEF IInv
<1>5. /\ hub' = [t \in Shards |-> hub'[t]] /\ hub'[s] = Finalized(world.occs[s])
      /\ \A t \in Shards : t # s => hub'[t] = hub[t]
  <2>1. CASE hub[s] # None
    <3>1. hub' = hub
      BY <1>4, <2>1 DEF StageShard, Staged
    <3> QED
      BY <2>1, <3>1 DEF IInv, HubInv
  <2>2. CASE hub[s] = None
    <3>1. hub' = [hub EXCEPT ![s] = Finalized(world.occs[s])]
      BY <1>4, <2>2 DEF StageShard, Staged, Upload
    <3> QED
      BY <3>1 DEF IInv, HubInv
  <2> QED
    BY <2>1, <2>2
<1>6. Inputs' /\ HubInv'
  BY <1>3, <1>5 DEF IInv, Inputs, HubInv
<1>7. LedgerInv' /\ CommitInv'
  BY <1>1, <1>2, <1>3, <1>4, <1>5 DEF IInv, LedgerInv, CommitInv, At, Planned
<1>8. Fresh'
  BY <1>1, <1>3 DEF Fresh
<1>9. FreshInv' /\ TargetInv' /\ PlanInv' /\ HeapInv'
  BY <1>1, <1>2, <1>3, <1>8 DEF IInv, FreshInv, TargetInv, PlanInv, HeapInv, At
<1>10. CoversInv'
  BY <1>8, FreshCovers
<1> QED
  BY <1>2, <1>6, <1>7, <1>9, <1>10 DEF IInv

\* The next shard is planned after the rows already counted.
LEMMA PlanShardStep ==
  ASSUME IInv, PlanShard
  PROVE  IInv'
<1>1. job.pc = "commit" /\ Opened /\ Unplanned # {} /\ Fresh
  BY DEF PlanShard, At, Opened, Working, IInv, FreshInv, CommitInv
<1>2. JobInv' /\ job'.pc = "plan" /\ job'.target = job.target
  BY DEF PlanShard, Goto, IInv, JobInv
<1>3. state' = state /\ world' = world /\ hub' = hub /\ budget' = budget /\ Shards' = Shards
  BY DEF PlanShard, Shards
<1>4. PICK s \in Shards : s = Min(Unplanned) /\ s \notin Planned
  BY <1>1, NextUnplanned DEF IInv
<1>5. hub[s] = Finalized(world.occs[s])
  BY <1>1, <1>4 DEF IInv, CommitInv, At
<1>6. PICK n \in Nat : n = Cardinality(Counted)
  <2>1. PICK rows : rows = PlannedRows
    OBVIOUS
  <2>2. Table(rows, world.place) /\ DOMAIN rows = Counted
    BY <1>1, <2>1, RowsTable DEF IInv, PlannedRows
  <2>3. IsFiniteSet(Counted)
    BY <2>2 DEF Table
  <2> QED
    BY <2>3, FS_CardinalityType
<1>7. db' = [db EXCEPT !.offset[s] = n]
  BY <1>4, <1>6 DEF PlanShard
<1>8. /\ db = [offset |-> db.offset, kept |-> db.kept, retained |-> db.retained, cand |-> db.cand]
      /\ db.offset \in [Shards -> Nat \cup {None}] /\ db.kept \in [Shards -> Nat]
      /\ \A t \in Planned : hub[t] = Finalized(world.occs[t])
  BY <1>1 DEF IInv, LedgerInv
<1>9. /\ db' = [offset |-> db'.offset, kept |-> db'.kept, retained |-> db'.retained,
                cand |-> db'.cand]
      /\ db'.offset = [db.offset EXCEPT ![s] = n] /\ db'.kept = db.kept /\ db'.cand = db.cand
  BY <1>7, <1>8
<1>10. db'.offset \in [Shards -> Nat \cup {None}] /\ Planned' = Planned \cup {s}
  <2>1. /\ db'.offset \in [Shards -> Nat \cup {None}] /\ db'.offset[s] = n /\ n # None
        /\ \A t \in Shards : t # s => db'.offset[t] = db.offset[t]
    BY <1>8, <1>9, NoneAssumption
  <2> QED
    BY <1>3, <2>1 DEF Planned
<1>11. LedgerInv'
  BY <1>3, <1>5, <1>8, <1>9, <1>10 DEF LedgerInv
<1>12. Fresh'
  BY <1>1, <1>3, <1>9 DEF Fresh
<1>13. Inputs' /\ HubInv' /\ CommitInv'
  BY <1>2, <1>3 DEF IInv, Inputs, HubInv, CommitInv, At
<1>14. FreshInv' /\ TargetInv' /\ PlanInv' /\ HeapInv'
  BY <1>1, <1>2, <1>3, <1>12 DEF IInv, FreshInv, TargetInv, PlanInv, HeapInv, At
<1>15. CoversInv'
  BY <1>12, FreshCovers
<1> QED
  BY <1>2, <1>11, <1>13, <1>14, <1>15 DEF IInv

\* The plan is built from the rows of all shards.
LEMMA BuildPlanStep ==
  ASSUME IInv, BuildPlan
  PROVE  IInv'
<1>1. job.pc = "plan" /\ Opened /\ Unplanned = {} /\ state = job.target
  BY DEF BuildPlan, At, Opened, Working, IInv, TargetInv
<1>2. PICK rows : rows = PlannedRows
  OBVIOUS
<1>3. PICK plan, target : target = job.target /\ plan = Plan(rows, target)
  OBVIOUS
<1>4. job' = [job EXCEPT !.pc = "build", !.plan = plan]
  BY <1>2, <1>3 DEF BuildPlan
<1>5. JobInv' /\ job'.pc = "build" /\ job'.target = target /\ job'.plan = plan
  BY <1>3, <1>4 DEF IInv, JobInv
<1>6. state' = state /\ world' = world /\ hub' = hub /\ budget' = budget /\ db' = db
      /\ Shards' = Shards /\ Planned' = Planned
  BY DEF BuildPlan, durable, Shards, Planned
<1>7. Unplanned' = Unplanned /\ rows = PlannedRows'
  BY <1>2, <1>6, SameRows
<1>8. plan = Plan(rows, target)'
  BY <1>3, <1>6, SameOrder
<1>9. Inputs' /\ HubInv' /\ LedgerInv' /\ CommitInv'
  BY <1>1, <1>5, <1>6 DEF IInv, Inputs, HubInv, LedgerInv, CommitInv, At
<1>10. FreshInv' /\ TargetInv' /\ HeapInv'
  BY <1>1, <1>3, <1>5, <1>6, <1>7 DEF IInv, FreshInv, Fresh, TargetInv, HeapInv, At
<1>11. PlanInv'
  BY <1>1, <1>5, <1>7, <1>8 DEF PlanInv
<1>12. CoversInv'
  BY <1>1, <1>6, CoversKept
<1> QED
  BY <1>5, <1>9, <1>10, <1>11, <1>12 DEF IInv

-----------------------------------------------------------------------------
(* Retention.                                                              *)

\* An allocation that retains rows has a plan, and a ledger that covers it.
LEMMA Retaining ==
  ASSUME IInv, job.pc \in {"build", "retain"}, NEW rows, rows = PlannedRows,
         NEW plan, plan = job.plan, NEW scanned, scanned = Scanned(rows)
  PROVE  /\ Opened /\ state # None /\ state = job.target /\ Unplanned = {}
         /\ plan = Plan(rows, state)
         /\ Best(rows, plan, scanned) \subseteq db.cand /\ db.cand \subseteq scanned
         /\ scanned \subseteq Eligible(rows, world.place)
         /\ \A S \in SUBSET Eligible(rows, world.place) : Sampleable(rows, plan, S)
<1>1. Opened /\ state = job.target /\ Unplanned = {} /\ state \in Nat
  BY DEF IInv, Opened, Working, TargetInv, PlanInv, JobInv
<1>2. state # None
  BY <1>1, NoneAssumption
<1>3. plan = Plan(rows, state)
  BY <1>1 DEF IInv, PlanInv
<1>4. Best(rows, plan, scanned) \subseteq db.cand /\ db.cand \subseteq scanned
  BY <1>1, <1>2, <1>3 DEF IInv, CoversInv, Covers
<1>5. scanned \subseteq Eligible(rows, world.place)
  BY DEF Scanned, Located
<1>6. \A S \in SUBSET Eligible(rows, world.place) : Sampleable(rows, plan, S)
  BY <1>1, <1>3, LocatedSampleable DEF IInv
<1> QED
  BY <1>1, <1>2, <1>3, <1>4, <1>5, <1>6

\* A step of the retention that leaves the best rows in the ledger keeps the
\* invariant.
LEMMA RetentionStep ==
  ASSUME IInv, job.pc \in {"build", "retain"}, world' = world, hub' = hub, state' = state,
         budget' = budget,
         db' = [offset |-> db'.offset, kept |-> db'.kept, retained |-> db'.retained,
                cand |-> db'.cand],
         db'.offset = db.offset, db'.kept \in [Shards -> Nat],
         JobInv', job'.pc \in {"retain", "rows"}, job'.plan = job.plan, job'.target = job.target,
         NEW rows, rows = PlannedRows, NEW plan, plan = job.plan,
         NEW scanned, scanned = Scanned(rows)',
         Best(rows, plan, scanned) \subseteq db'.cand, db'.cand \subseteq scanned,
         job'.pc = "retain" =>
           job'.heap = Best(rows, plan, scanned) /\ job'.heap \subseteq db'.cand
  PROVE  IInv'
<1>1. /\ Opened /\ state # None /\ state = job.target /\ Unplanned = {}
      /\ plan = Plan(rows, state)
  BY Retaining
<1>2. Shards' = Shards /\ Planned' = Planned /\ Unplanned' = Unplanned /\ rows = PlannedRows'
  BY SameRows DEF Shards, Planned
<1>3. PICK target : target = state
  OBVIOUS
<1>4. Plan(rows, target)' = plan /\ Best(rows, plan, scanned)' = Best(rows, plan, scanned)
  BY <1>1, <1>3, SameOrder
<1>5. Inputs' /\ HubInv' /\ CommitInv'
  BY <1>2 DEF IInv, Inputs, HubInv, CommitInv, At
<1>6. LedgerInv'
  BY <1>1, <1>2 DEF IInv, LedgerInv
<1>7. FreshInv' /\ TargetInv'
  BY <1>1, <1>2 DEF FreshInv, TargetInv, At
<1>8. PlanInv'
  BY <1>1, <1>2, <1>3, <1>4 DEF PlanInv
<1>9. CoversInv'
  BY <1>2, <1>3, <1>4 DEF CoversInv, Covers
<1>10. HeapInv'
  BY <1>2, <1>4 DEF HeapInv, At
<1> QED
  BY <1>5, <1>6, <1>7, <1>8, <1>9, <1>10 DEF IInv

\* The heaps that are read back are the best of what was scanned.
LEMMA LoadHeapsStep ==
  ASSUME IInv, LoadHeaps
  PROVE  IInv'
<1>1. PICK rows, plan : rows = PlannedRows /\ plan = job.plan
  OBVIOUS
<1>2. PICK scanned, best : scanned = Scanned(rows) /\ best = Best(rows, plan, db.cand)
  OBVIOUS
<1>3. job.pc = "build"
  BY DEF LoadHeaps, At
<1>4. /\ Opened
      /\ Best(rows, plan, scanned) \subseteq db.cand /\ db.cand \subseteq scanned
      /\ scanned \subseteq Eligible(rows, world.place) /\ Sampleable(rows, plan, scanned)
  BY <1>1, <1>2, <1>3, Retaining
<1>5. best = Best(rows, plan, scanned)
  BY <1>2, <1>4, BestKept
<1>6. best \subseteq scanned
  BY <1>5 DEF Best
<1>7. job' = [job EXCEPT !.pc = "retain", !.heap = best] /\ db' = [db EXCEPT !.cand = best]
  BY <1>1, <1>2 DEF LoadHeaps
<1>8. JobInv' /\ job'.pc = "retain" /\ job'.plan = plan /\ job'.target = job.target
      /\ job'.heap = best
  BY <1>1, <1>7 DEF IInv, JobInv
<1>9. /\ db = [offset |-> db.offset, kept |-> db.kept, retained |-> db.retained, cand |-> db.cand]
      /\ db.kept \in [Shards -> Nat]
  BY <1>4 DEF IInv, LedgerInv
<1>10. /\ db' = [offset |-> db'.offset, kept |-> db'.kept, retained |-> db'.retained,
                 cand |-> db'.cand]
       /\ db'.offset = db.offset /\ db'.kept = db.kept /\ db'.cand = best
  BY <1>7, <1>9
<1>11. world' = world /\ hub' = hub /\ state' = state /\ budget' = budget
  BY DEF LoadHeaps
<1>12. scanned = Scanned(rows)'
  BY <1>2, <1>10, <1>11, SameScan
<1> QED
  BY <1>1, <1>3, <1>5, <1>6, <1>8, <1>9, <1>10, <1>11, <1>12, RetentionStep

\* The last step deletes the rows that left the heaps.
LEMMA CompactStep ==
  ASSUME IInv, Compact
  PROVE  IInv'
<1>1. PICK rows, plan : rows = PlannedRows /\ plan = job.plan
  OBVIOUS
<1>2. PICK scanned : scanned = Scanned(rows)
  OBVIOUS
<1>3. job.pc = "retain" /\ job.heap = Best(rows, plan, scanned)
  BY <1>1, <1>2 DEF Compact, At, IInv, HeapInv
<1>4. Opened
  BY <1>1, <1>2, <1>3, Retaining
<1>5. job.heap \subseteq scanned
  BY <1>3 DEF Best
<1>6. JobInv' /\ job'.pc = "rows" /\ job'.plan = plan /\ job'.target = job.target
  BY <1>1 DEF Compact, Goto, IInv, JobInv
<1>7. /\ db = [offset |-> db.offset, kept |-> db.kept, retained |-> db.retained, cand |-> db.cand]
      /\ db.kept \in [Shards -> Nat]
  BY <1>4 DEF IInv, LedgerInv
<1>8. /\ db' = [offset |-> db'.offset, kept |-> db'.kept, retained |-> db'.retained,
                cand |-> db'.cand]
      /\ db'.offset = db.offset /\ db'.kept = db.kept /\ db'.cand = job.heap
  BY <1>7 DEF Compact
<1>9. world' = world /\ hub' = hub /\ state' = state /\ budget' = budget
  BY DEF Compact
<1>10. scanned = Scanned(rows)'
  BY <1>2, <1>8, <1>9, SameScan
<1> QED
  BY <1>1, <1>3, <1>5, <1>6, <1>7, <1>8, <1>9, <1>10, RetentionStep

\* A shard that is done leaves its rows in the ledger.
LEMMA FinishRetainingStep ==
  ASSUME IInv, FinishRetaining
  PROVE  IInv'
<1>1. PICK rows, plan : rows = PlannedRows /\ plan = job.plan
  OBVIOUS
<1>2. PICK scanned : scanned = Scanned(rows)
  OBVIOUS
<1>3. job.pc = "retain" /\ job.heap = Best(rows, plan, scanned) /\ job.heap \subseteq db.cand
  BY <1>1, <1>2 DEF FinishRetaining, At, IInv, HeapInv
<1>4. Opened /\ db.cand \subseteq scanned
  BY <1>1, <1>2, <1>3, Retaining
<1>5. job' = job /\ world' = world /\ hub' = hub /\ state' = state /\ budget' = budget
  BY DEF FinishRetaining
<1>6. /\ db = [offset |-> db.offset, kept |-> db.kept, retained |-> db.retained, cand |-> db.cand]
      /\ db.kept \in [Shards -> Nat]
  BY <1>4 DEF IInv, LedgerInv
<1>7. /\ db' = [offset |-> db'.offset, kept |-> db'.kept, retained |-> db'.retained,
                cand |-> db'.cand]
      /\ db'.offset = db.offset /\ db'.kept = db.kept /\ db'.cand = db.cand
  BY <1>6 DEF FinishRetaining
<1>8. scanned = Scanned(rows)'
  BY <1>2, <1>5, <1>7, SameScan
<1>9. JobInv'
  BY <1>5 DEF IInv, JobInv
<1> QED
  BY <1>1, <1>3, <1>4, <1>5, <1>6, <1>7, <1>8, <1>9, RetentionStep

\* A batch is the rows that its new counter adds to those that were scanned.
LEMMA BatchScanned ==
  ASSUME Inputs, LedgerInv, Opened, Unplanned = {}, NEW s \in Shards,
         db.kept[s] < Len(hub[s]), NEW n, n = BatchEnd(s), NEW rows, NEW batch,
         batch = Batch(rows, s), world' = world, db'.offset = db.offset,
         db'.kept = [db.kept EXCEPT ![s] = n]
  PROVE  /\ n \in Nat /\ db.kept[s] < n
         /\ batch \subseteq Eligible(rows, world.place) /\ batch \subseteq Scanned(rows)'
         /\ Scanned(rows)' \subseteq Scanned(rows) \cup batch
         /\ Scanned(rows) \subseteq Scanned(rows)'
<1>1. /\ db.offset \in [Shards -> Nat \cup {None}] /\ db.kept \in [Shards -> Nat]
      /\ s \in Planned /\ \A t \in Planned : hub[t] = Finalized(world.occs[t])
  BY DEF LedgerInv, Unplanned
<1>2. Len(hub[s]) \in Nat
  BY <1>1, ShardNumbers, FinalizedLists DEF Lists
<1>3. PICK a, b : a = db.kept[s] + BatchSize /\ b = Len(hub[s])
  OBVIOUS
<1>4. a \in Nat /\ b \in Nat /\ db.kept[s] < a /\ db.kept[s] < b
  BY <1>1, <1>2, <1>3, BatchAssumption
<1>5. {a, b} \in SUBSET Nat /\ {a, b} # {}
  BY <1>4
<1>6. n \in {a, b}
  BY <1>3, <1>5, MinIn DEF BatchEnd
<1>7. n \in Nat /\ db.kept[s] < n
  BY <1>4, <1>6
<1>8. batch = Located(rows, {db.offset[s] + i : i \in (db.kept[s] + 1) .. n})
  BY DEF Batch
<1>9. Shards' = Shards /\ db'.kept[s] = n /\ \A t \in Shards : t # s => db'.kept[t] = db.kept[t]
  BY <1>1 DEF Shards
<1>10. 1 .. n = (1 .. db.kept[s]) \cup ((db.kept[s] + 1) .. n)
  BY <1>1, <1>7
<1>11. \A k : k \in Scanned(rows) <=>
         k \in Eligible(rows, world.place) /\ \E t \in Shards : \E i \in 1 .. db.kept[t] : k = db.offset[t] + i
  BY DEF Scanned, Located
<1>12. \A k : k \in Scanned(rows)' <=>
         k \in Eligible(rows, world.place) /\ \E t \in Shards : \E i \in 1 .. db'.kept[t] : k = db.offset[t] + i
  BY <1>9 DEF Scanned, Located
<1>13. \A k : k \in batch <=>
         k \in Eligible(rows, world.place) /\ \E i \in (db.kept[s] + 1) .. n : k = db.offset[s] + i
  BY <1>8 DEF Located
<1>14. batch \subseteq Scanned(rows)'
  BY <1>9, <1>10, <1>12, <1>13
<1>15. ASSUME NEW k \in Scanned(rows)' PROVE k \in Scanned(rows) \cup batch
  <2>1. PICK t \in Shards : \E i \in 1 .. db'.kept[t] : k = db.offset[t] + i
    BY <1>12
  <2>2. PICK i \in 1 .. db'.kept[t] : k = db.offset[t] + i
    BY <2>1
  <2>3. k \in Eligible(rows, world.place)
    BY <1>12
  <2>4. CASE t = s
    <3>1. i \in 1 .. db.kept[s] \/ i \in (db.kept[s] + 1) .. n
      BY <1>9, <1>10, <2>2, <2>4
    <3> QED
      BY <1>11, <1>13, <2>2, <2>3, <2>4, <3>1
  <2>5. CASE t # s
    BY <1>9, <1>11, <2>2, <2>3, <2>5
  <2> QED
    BY <2>4, <2>5
<1>16. ASSUME NEW k \in Scanned(rows) PROVE k \in Scanned(rows)'
  <2>1. PICK t \in Shards : \E i \in 1 .. db.kept[t] : k = db.offset[t] + i
    BY <1>11
  <2>2. PICK i \in 1 .. db.kept[t] : k = db.offset[t] + i
    BY <2>1
  <2>3. i \in 1 .. db'.kept[t]
    BY <1>9, <1>10, <2>2
  <2> QED
    BY <1>11, <1>12, <2>2, <2>3
<1> QED
  BY <1>7, <1>13, <1>14, <1>15, <1>16

\* The best of the heaps and a batch are the best of all that was scanned.
LEMMA HeapsSuffice ==
  ASSUME NEW rows, NEW plan, NEW scanned, NEW batch, NEW all, NEW heap,
         Sampleable(rows, plan, all), heap = Best(rows, plan, scanned),
         scanned \in SUBSET all, batch \in SUBSET all, \A i \in all : i \in scanned \/ i \in batch
  PROVE  Best(rows, plan, heap \cup batch) = Best(rows, plan, all)
<1>1. heap \subseteq scanned
  BY DEF Best
<1>2. heap \cup batch \in SUBSET all /\ scanned \in SUBSET all
  BY <1>1
<1>3. ASSUME NEW i \in Best(rows, plan, all) PROVE i \in heap \cup batch
  <2>1. i \in all
    BY <1>3 DEF Best
  <2>2. i \in scanned => i \in heap
    BY <1>2, <1>3, BestOfPart
  <2> QED
    BY <2>1, <2>2
<1>4. PICK part : part = heap \cup batch
  OBVIOUS
<1>5. part \in SUBSET all /\ Best(rows, plan, all) \subseteq part
  BY <1>2, <1>3, <1>4
<1>6. Best(rows, plan, part) = Best(rows, plan, all)
  BY <1>5, BestKept
<1> QED
  BY <1>4, <1>6

\* A row of a batch that stays in its heap entered it.
LEMMA EnteredHeap ==
  ASSUME NEW rows, NEW plan, plan = job.plan, NEW batch, NEW part,
         part = job.heap \cup batch, Sampleable(rows, plan, part),
         NEW i \in Best(rows, plan, part), i \in batch
  PROVE  i \in Entered(rows, batch)
<1>1. PICK sofar : sofar = job.heap \cup {j \in batch : j <= i}
  OBVIOUS
<1>2. i \in Int
  BY DEF Sampleable, Table, Eligible
<1>3. sofar \in SUBSET part /\ i \in sofar
  BY <1>1, <1>2
<1>4. i \in Best(rows, plan, sofar)
  BY <1>3, BestOfPart
<1> QED
  BY <1>1, <1>4 DEF Entered

\* After a batch the ledger has the best of all that was scanned.
LEMMA RetainBatchStep ==
  ASSUME IInv, RetainBatch
  PROVE  IInv'
<1>1. PICK rows, plan : rows = PlannedRows /\ plan = job.plan
  OBVIOUS
<1>2. PICK scanned : scanned = Scanned(rows)
  OBVIOUS
<1>3. job.pc = "retain" /\ job.heap = Best(rows, plan, scanned) /\ job.heap \subseteq db.cand
  BY <1>1, <1>2 DEF RetainBatch, At, IInv, HeapInv
<1>4. /\ Opened /\ Unplanned = {} /\ db.cand \subseteq scanned
      /\ scanned \subseteq Eligible(rows, world.place)
      /\ \A S \in SUBSET Eligible(rows, world.place) : Sampleable(rows, plan, S)
  BY <1>1, <1>2, <1>3, Retaining
<1>5. Inputs /\ LedgerInv
  BY DEF IInv
<1>6. PICK s : s = Min(Unretained)
  OBVIOUS
<1>7. s \in Shards
  <2>1. Unretained \in SUBSET Nat /\ Unretained # {}
    BY <1>5, ShardNumbers DEF RetainBatch, Unretained
  <2> QED
    BY <1>6, <2>1, MinIn DEF Unretained
<1>8. PICK batch, n : batch = Batch(rows, s) /\ n = BatchEnd(s)
  OBVIOUS
<1>9. PICK part, heap, entered : /\ part = job.heap \cup batch /\ heap = Best(rows, plan, part)
                                 /\ entered = Entered(rows, batch)
  OBVIOUS
<1>10. /\ db.kept[s] < Len(hub[s])
       /\ job' = [job EXCEPT !.heap = heap]
       /\ db' = [db EXCEPT !.cand = Ledgered(db.cand, heap, entered), !.kept[s] = n]
  BY <1>1, <1>6, <1>8, <1>9 DEF RetainBatch
<1>11. world' = world /\ hub' = hub /\ state' = state /\ budget' = budget
  BY DEF RetainBatch
<1>12. JobInv' /\ job'.pc = "retain" /\ job'.plan = plan /\ job'.target = job.target
       /\ job'.heap = heap
  BY <1>1, <1>3, <1>10 DEF IInv, JobInv
<1>13. /\ db = [offset |-> db.offset, kept |-> db.kept, retained |-> db.retained, cand |-> db.cand]
       /\ db.kept \in [Shards -> Nat]
  BY <1>4, <1>5 DEF LedgerInv
<1>14. /\ db' = [offset |-> db'.offset, kept |-> db'.kept, retained |-> db'.retained,
                 cand |-> db'.cand]
       /\ db'.offset = db.offset /\ db'.kept = [db.kept EXCEPT ![s] = n]
       /\ db'.cand = Ledgered(db.cand, heap, entered)
  BY <1>10, <1>13
<1>15. PICK all : all = Scanned(rows)'
  OBVIOUS
<1>16. /\ n \in Nat /\ batch \subseteq Eligible(rows, world.place)
       /\ scanned \cup batch = all
  BY <1>2, <1>4, <1>5, <1>7, <1>8, <1>10, <1>11, <1>14, <1>15, BatchScanned
<1>17. db'.kept \in [Shards -> Nat]
  BY <1>7, <1>13, <1>14, <1>16
<1>18. heap = Best(rows, plan, all)
  <2>1. all \in SUBSET Eligible(rows, world.place)
    BY <1>4, <1>16
  <2>2. Sampleable(rows, plan, all)
    BY <1>4, <2>1
  <2>3. PICK h : h = job.heap
    OBVIOUS
  <2>4. Best(rows, plan, h \cup batch) = Best(rows, plan, all)
    <3>1. h = Best(rows, plan, scanned)
      BY <1>3, <2>3
    <3>2. /\ scanned \in SUBSET all /\ batch \in SUBSET all
          /\ \A i \in all : i \in scanned \/ i \in batch
      BY <1>16
    <3> QED
      BY <2>2, <3>1, <3>2, HeapsSuffice
  <2> QED
    BY <1>9, <2>3, <2>4
<1>19. heap \subseteq part
  BY <1>9 DEF Best
<1>20. part \in SUBSET Eligible(rows, world.place)
  BY <1>3, <1>4, <1>9, <1>16
<1>21. heap \subseteq db'.cand
  <2>1. ASSUME NEW i \in heap PROVE i \in db'.cand
    <3>1. CASE i \in batch
      <4>1. i \in entered
        BY <1>1, <1>4, <1>9, <1>20, <2>1, <3>1, EnteredHeap
      <4> QED
        BY <1>14, <4>1 DEF Ledgered
    <3>2. CASE i \notin batch
      BY <1>3, <1>9, <1>14, <1>19, <2>1, <3>2 DEF Ledgered
    <3> QED
      BY <3>1, <3>2
  <2> QED
    BY <2>1
<1>22. db'.cand \subseteq all
  BY <1>4, <1>9, <1>14, <1>16 DEF Ledgered, Entered
<1> QED
  BY <1>1, <1>3, <1>11, <1>12, <1>14, <1>15, <1>17, <1>18, <1>21, <1>22, RetentionStep

-----------------------------------------------------------------------------
(* The candidates cover the best rows.                                    *)

\* The invariant holds of a run that has not begun, and every step keeps it.
LEMMA Inductive ==
  /\ Init => IInv
  /\ IInv /\ [Next]_vars => IInv'
<1>1. ASSUME Init PROVE IInv
  <2>1. WorldOK(world) /\ world \in Worlds
    BY <1>1, WorldsAssumption DEF Init
  <2>2. Inputs /\ HubInv
    BY <1>1, <2>1 DEF Init, Inputs, HubInv, WorldOK
  <2>3. JobInv /\ job.pc = "down"
    BY <1>1 DEF Init, NoJob, JobInv
  <2>4. ~ Opened
    BY <1>1, <2>3 DEF Init, Opened, Working
  <2>5. LedgerInv /\ CommitInv /\ FreshInv /\ CoversInv
    BY <2>3, <2>4 DEF LedgerInv, CommitInv, FreshInv, CoversInv, At
  <2>6. TargetInv /\ PlanInv /\ HeapInv
    BY <2>3 DEF TargetInv, PlanInv, HeapInv, At
  <2> QED
    BY <2>2, <2>3, <2>5, <2>6 DEF IInv
<1>2. ASSUME IInv, [Next]_vars PROVE IInv'
  <2>1. CASE UNCHANGED vars
    <3>1. budget \in Nat
      BY <1>2 DEF IInv, Inputs
    <3> QED
      BY <1>2, <2>1, <3>1, Unworked DEF vars, durable
  <2>2. CASE Done
    <3>1. budget \in Nat
      BY <1>2 DEF IInv, Inputs
    <3> QED
      BY <1>2, <2>2, <3>1, Unworked DEF Done, vars, durable
  <2>3. CASE (\E t \in Targets : RaiseTarget(t)) \/ StartJob \/ AcceptOutput \/ Kill
    BY <1>2, <2>3, OperatorStep
  <2>4. CASE \/ StreamShards \/ OpenState \/ MaterializeShard \/ DescribeCache
             \/ WriteSelected \/ Persist
    BY <1>2, <2>4, OutsideStep
  <2>5. CASE OpenLedger \/ CheckTarget \/ WriteState
    BY <1>2, <2>5, OpenLedgerStep, CheckTargetStep, WriteStateStep
  <2>6. CASE StageShard \/ PlanShard \/ BuildPlan
    BY <1>2, <2>6, StageShardStep, PlanShardStep, BuildPlanStep
  <2>7. CASE LoadHeaps \/ RetainBatch \/ FinishRetaining \/ Compact
    BY <1>2, <2>7, LoadHeapsStep, RetainBatchStep, FinishRetainingStep, CompactStep
  <2> QED
    BY <1>2, <2>1, <2>2, <2>3, <2>4, <2>5, <2>6, <2>7 DEF Next, JobStep
<1> QED
  BY <1>1, <1>2

\* Wherever allocations are killed and targets raised, the ledger has the best
\* rows among those its counters say were scanned, and only scanned ones: the
\* transaction of _retain_shard and the order of clear_candidates and state.json
\* lose no row of the sample.
THEOREM LedgerComplete == Spec => []LedgerCoversBest
<1>1. IInv => LedgerCoversBest
  BY DEF IInv, CoversInv, Covers, Opened, LedgerCoversBest
<1> QED
  BY <1>1, Inductive, PTL DEF Spec
-----------------------------------------------------------------------------
(* What an allocation delivers.                                            *)

\* The rows a target selects, of all rows that can be sampled.
Chosen(rows, target) == Best(rows, Plan(rows, target), Eligible(rows, world.place))

\* The row of a turn: as many of its stratum come before it as the turn says.
RowOf(rows, position, turn) ==
  CHOOSE i \in Eligible(rows, world.place) :
    /\ CellOf(rows, world.place, i) = turn[1]
    /\ Cardinality({j \in Eligible(rows, world.place) :
         /\ CellOf(rows, world.place, j) = turn[1]
         /\ RowBefore(rows, position, j, i)}) = turn[2]

\* The sample of a table, and the table of a run that does not sample.
Sample(rows, target) ==
  LET plan == Plan(rows, target)
  IN [k \in DOMAIN plan.schedule |-> rows[RowOf(rows, plan.position, plan.schedule[k])].id]
Whole ==
  LET rows == FlattenSeq([s \in Shards |-> Finalized(world.occs[s])])
  IN [i \in DOMAIN rows |-> rows[i].id]
Delivers(out) ==
  /\ out.target \in Nat
  /\ IF Sampled
       THEN /\ db # None /\ Unplanned = {}
            /\ \A rows \in {PlannedRows} : out.rows = Sample(rows, out.target)
       ELSE out.rows = Whole

\* Only a run with a target has a ledger, and its target only grows.
ModeInv ==
  /\ At("stream") => ~Sampled
  /\ job.pc \in Working \cup {"open", "ledger"} => Sampled
GrowInv == job.pc \in {"ledger", "state", "grow"} => state = None \/ state <= job.target

\* A retained shard was scanned to its end.
RetainedInv == Opened => \A s \in db.retained : s \in Planned /\ db.kept[s] = Len(hub[s])

\* The candidates that are materialized are the rows that the target selects.
SelectedInv ==
  job.pc \in {"rows", "meta"} =>
    /\ state = job.target /\ Unplanned = {}
    /\ \A rows \in {PlannedRows} :
         job.plan = Plan(rows, job.target) /\ db.cand = Chosen(rows, job.target)

\* A materialized table has rows that the target of the state file selects.
CacheInv ==
  /\ cache = [s \in Shards |-> [table |-> cache[s].table, meta |-> cache[s].meta]]
  /\ \A s \in Shards : cache[s].table # None =>
       /\ db # None /\ state # None /\ Unplanned = {}
       /\ \A rows \in {PlannedRows} : cache[s].table \subseteq Chosen(rows, state) \cap Numbers(s)

\* Each candidate of the shards that are done is there, with its own row.
RowsInv ==
  /\ job.pc \in {"open", "ledger", "state", "grow", "plan", "commit", "build", "retain"} =>
       job.shard = 1 /\ job.rows = {}
  /\ job.pc \in {"rows", "meta"} =>
       /\ job.shard \in 1 .. (Len(world.occs) + 1)
       /\ At("meta") => job.shard \in Shards
       /\ \A z \in job.rows : z[1] = z[2]
       /\ \A s \in Shards : s < job.shard \/ (s = job.shard /\ At("meta")) =>
            \A i \in db.cand \cap Numbers(s) : <<i, i>> \in job.rows

OutputInv ==
  /\ job.pc \in {"persist", "exit"} => Delivers(job.out)
  /\ \A out \in delivered : Delivers(out)

OInv ==
  /\ ModeInv /\ GrowInv /\ RetainedInv /\ SelectedInv /\ CacheInv /\ RowsInv /\ OutputInv

-----------------------------------------------------------------------------
(* Plans for different targets.                                            *)

\* A plan has its schedule, and its quotas count the turns of the strata.
LEMMA PlanIs ==
  ASSUME NEW rows, Table(rows, world.place), RanksDiffer(world.place), NEW target \in Nat,
         NEW plan, plan = Plan(rows, target), NEW sizes, sizes = StratumSizes(rows, world.place)
  PROVE  /\ Strata(sizes) /\ plan.schedule = Schedule(sizes, target)
         /\ plan.position = Position(PolygonOrder(Seen(rows, world.place)))
         /\ IsFiniteSet(ToSet(plan.schedule))
         /\ plan.quota = [c \in {turn[1] : turn \in ToSet(plan.schedule)} |->
              Cardinality({turn \in ToSet(plan.schedule) : turn[1] = c})]
<1>1. Strata(sizes)
  BY StrataOf
<1>2. PICK schedule : schedule = Schedule(sizes, target)
  OBVIOUS
<1>3. /\ plan.schedule = schedule
      /\ plan.position = Position(PolygonOrder(Seen(rows, world.place)))
      /\ plan.quota = [c \in {turn[1] : turn \in ToSet(schedule)} |->
           Cardinality({turn \in ToSet(schedule) : turn[1] = c})]
  BY <1>2 DEF Plan
<1>4. IsFiniteSet(Turns(sizes)) /\ schedule \in Seq(Turns(sizes))
  BY <1>1, <1>2, TurnsFinite, ScheduleTurns
<1>5. ToSet(schedule) \in SUBSET Turns(sizes)
  BY <1>4 DEF ToSet
<1>6. IsFiniteSet(ToSet(schedule))
  BY <1>4, <1>5, FS_Subset
<1> QED
  BY <1>1, <1>2, <1>3, <1>6

\* A turn of the schedule is within the quota of its stratum.
LEMMA TurnInQuota ==
  ASSUME NEW rows, Table(rows, world.place), RanksDiffer(world.place), NEW target \in Nat,
         NEW plan, plan = Plan(rows, target), NEW sizes, sizes = StratumSizes(rows, world.place),
         NEW turn \in ToSet(plan.schedule)
  PROVE  /\ turn \in Turns(sizes)
         /\ turn[1] \in DOMAIN plan.quota /\ plan.quota[turn[1]] \in Nat
         /\ turn[2] \in Nat /\ turn[2] < plan.quota[turn[1]]
<1>1. PICK schedule : schedule = plan.schedule
  OBVIOUS
<1>2. PICK S : S = ToSet(schedule)
  OBVIOUS
<1>3. /\ Strata(sizes) /\ schedule = Schedule(sizes, target) /\ IsFiniteSet(S)
      /\ plan.quota = [c \in {u[1] : u \in S} |-> Cardinality({u \in S : u[1] = c})]
  BY <1>1, <1>2, PlanIs
<1>4. PICK B : B = {u \in S : u[1] = turn[1]}
  OBVIOUS
<1>5. turn[1] \in DOMAIN plan.quota /\ plan.quota[turn[1]] = Cardinality(B)
  BY <1>1, <1>2, <1>3, <1>4
<1>6. turn \in S /\ \A n \in Nat : n <= turn[2] => turn \in Turns(sizes) /\ <<turn[1], n>> \in S
  BY <1>1, <1>2, <1>3, ScheduleFromFirst
<1>7. turn \in Turns(sizes) /\ turn[2] \in Nat
  <2>1. S \subseteq Turns(sizes)
    BY <1>2, <1>3, ScheduleTurns DEF ToSet
  <2> QED
    BY <1>3, <1>6, <2>1, TurnsAre
<1>8. PICK l : l = turn[2]
  OBVIOUS
<1>9. l \in Nat /\ \A n \in 0 .. l : <<turn[1], n>> \in B
  BY <1>4, <1>6, <1>7, <1>8
<1>10. IsFiniteSet(B) /\ Cardinality(B) \in Nat
  BY <1>3, <1>4, FS_Subset, FS_CardinalityType
<1>11. l < Cardinality(B)
  <2> DEFINE f == [n \in 0 .. l |-> <<turn[1], n>>]
  <2>1. 0 \in Int /\ l \in Int
    BY <1>9
  <2>2. IsFiniteSet(0 .. l) /\ Cardinality(0 .. l) = IF 0 > l THEN 0 ELSE l - 0 + 1
    BY <2>1, FS_Interval
  <2>3. Cardinality(0 .. l) = l + 1
    BY <1>9, <2>2
  <2>4. f \in Injection(0 .. l, B)
    BY <1>9 DEF Injection, IsInjective
  <2>5. Cardinality(0 .. l) <= Cardinality(B)
    BY <1>10, <2>4, FS_Injection
  <2> QED
    BY <1>9, <1>10, <2>3, <2>5
<1> QED
  BY <1>5, <1>7, <1>8, <1>10, <1>11

\* How many of a set of turns each stratum takes.
QuotaOver(S) == [c \in {turn[1] : turn \in S} |-> Cardinality({turn \in S : turn[1] = c})]

\* A larger target begins with the turns of a smaller one, and has its quotas.
LEMMA PlansGrow ==
  ASSUME NEW rows, Table(rows, world.place), RanksDiffer(world.place),
         NEW a \in Nat, NEW b \in Nat, a <= b,
         NEW small, small = Plan(rows, a), NEW large, large = Plan(rows, b)
  PROVE  /\ small.position = large.position
         /\ DOMAIN small.schedule = 1 .. Len(small.schedule) /\ Len(small.schedule) \in Nat
         /\ DOMAIN large.schedule = 1 .. Len(large.schedule) /\ Len(large.schedule) \in Nat
         /\ Len(small.schedule) <= Len(large.schedule)
         /\ \A k \in 1 .. Len(small.schedule) : small.schedule[k] = large.schedule[k]
         /\ \A c \in DOMAIN small.quota :
              c \in DOMAIN large.quota /\ small.quota[c] <= large.quota[c]
<1>1. PICK sizes : sizes = StratumSizes(rows, world.place)
  OBVIOUS
<1>2. PICK s, l : s = small.schedule /\ l = large.schedule
  OBVIOUS
<1>3. /\ Strata(sizes) /\ small.position = large.position
      /\ s = Schedule(sizes, a) /\ l = Schedule(sizes, b)
  <2>1. ASSUME NEW t \in Nat, NEW plan, plan = Plan(rows, t)
        PROVE  /\ Strata(sizes) /\ plan.schedule = Schedule(sizes, t)
               /\ plan.position = Position(PolygonOrder(Seen(rows, world.place)))
    BY <1>1, <2>1, StrataOf DEF Plan
  <2> QED
    BY <1>2, <2>1
<1>4. /\ s \in Seq(Turns(sizes)) /\ l \in Seq(Turns(sizes))
      /\ Len(s) <= Len(l) /\ \A k \in 1 .. Len(s) : s[k] = l[k]
  BY <1>3, ScheduleBegins
<1>5. PICK S, L : S = ToSet(s) /\ L = ToSet(l)
  OBVIOUS
<1>6. S \subseteq L
  BY <1>4, <1>5 DEF ToSet
<1>7. /\ IsFiniteSet(S) /\ small.quota = QuotaOver(S)
      /\ IsFiniteSet(L) /\ large.quota = QuotaOver(L)
  <2>1. ASSUME NEW t \in Nat, NEW plan, plan = Plan(rows, t)
        PROVE  IsFiniteSet(ToSet(plan.schedule)) /\ plan.quota = QuotaOver(ToSet(plan.schedule))
    <3>1. PICK turns : turns = ToSet(plan.schedule)
      OBVIOUS
    <3>2. /\ IsFiniteSet(turns)
          /\ plan.quota = [c \in {turn[1] : turn \in turns} |->
               Cardinality({turn \in turns : turn[1] = c})]
      BY <1>1, <2>1, <3>1, PlanIs
    <3>3. QuotaOver(turns) = [c \in {turn[1] : turn \in turns} |->
            Cardinality({turn \in turns : turn[1] = c})]
      BY DEF QuotaOver
    <3> QED
      BY <3>1, <3>2, <3>3
  <2> QED
    BY <1>2, <1>5, <2>1
<1>8. ASSUME NEW c \in DOMAIN small.quota
      PROVE  c \in DOMAIN large.quota /\ small.quota[c] <= large.quota[c]
  <2>1. PICK A, B : A = {turn \in S : turn[1] = c} /\ B = {turn \in L : turn[1] = c}
    OBVIOUS
  <2>2. IsFiniteSet(B) /\ A \in SUBSET B
    BY <1>6, <1>7, <2>1, FS_Subset
  <2>3. Cardinality(A) <= Cardinality(B)
    BY <2>2, FS_Subset
  <2>4. c \in DOMAIN large.quota
    BY <1>6, <1>7, <1>8 DEF QuotaOver
  <2> QED
    BY <1>7, <1>8, <2>1, <2>3, <2>4 DEF QuotaOver
<1> QED
  BY <1>2, <1>3, <1>4, <1>8

\* So it selects more rows.
LEMMA ChosenGrows ==
  ASSUME NEW rows, Table(rows, world.place), RanksDiffer(world.place),
         NEW a \in Nat, NEW b \in Nat, a <= b
  PROVE  Chosen(rows, a) \subseteq Chosen(rows, b)
<1>1. PICK small, large : small = Plan(rows, a) /\ large = Plan(rows, b)
  OBVIOUS
<1>2. /\ small.position = large.position
      /\ \A c \in DOMAIN small.quota :
           c \in DOMAIN large.quota /\ small.quota[c] <= large.quota[c]
  BY <1>1, PlansGrow
<1>3. PICK E : E = Eligible(rows, world.place)
  OBVIOUS
<1>4. Sampleable(rows, small, E) /\ Sampleable(rows, large, E)
  BY <1>1, <1>3, PlanBuilt DEF Sampleable
<1>5. ASSUME NEW i \in Best(rows, small, E) PROVE i \in Best(rows, large, E)
  <2>1. i \in E
    BY DEF Best
  <2>2. Ahead(rows, small, E) = Ahead(rows, large, E)
    BY <1>2 DEF Ahead
  <2>3. PICK n : n = Cardinality(Under(Ahead(rows, small, E), E, i))
    OBVIOUS
  <2>4. n \in Nat /\ n < QuotaOf(rows, small, i)
    BY <1>4, <2>1, <2>3, BestIs
  <2>5. i \in Best(rows, large, E) <=> n < QuotaOf(rows, large, i)
    BY <1>4, <2>1, <2>2, <2>3, BestIs
  <2>6. QuotaOf(rows, small, i) \in Nat /\ QuotaOf(rows, large, i) \in Nat
    BY <1>4, <2>1, AheadStrict
  <2>7. QuotaOf(rows, small, i) <= QuotaOf(rows, large, i)
    BY <1>2, <2>4, <2>6 DEF QuotaOf
  <2> QED
    BY <2>4, <2>5, <2>6, <2>7
<1> QED
  BY <1>1, <1>3, <1>5 DEF Chosen

\* Of a selected row's stratum, the rows ahead are selected too.
LEMMA ChosenAhead ==
  ASSUME NEW rows, NEW plan, NEW E, Sampleable(rows, plan, E),
         NEW i \in Best(rows, plan, E), NEW j, <<j, i>> \in Ahead(rows, plan, E)
  PROVE  j \in Best(rows, plan, E)
<1>1. i \in E /\ j \in E
  BY DEF Best, Ahead
<1>2. PICK R : R = Ahead(rows, plan, E)
  OBVIOUS
<1>3. /\ IsFiniteSet(E) /\ Strict(R, E)
      /\ QuotaOf(rows, plan, i) \in Nat /\ QuotaOf(rows, plan, j) = QuotaOf(rows, plan, i)
  BY <1>1, <1>2, AheadStrict
<1>4. Cardinality(Under(R, E, j)) < Cardinality(Under(R, E, i))
  BY <1>1, <1>2, <1>3, UnderDiffers
<1>5. /\ Cardinality(Under(R, E, i)) \in Nat
      /\ Cardinality(Under(R, E, i)) < QuotaOf(rows, plan, i)
  BY <1>1, <1>2, BestIs
<1>6. /\ Cardinality(Under(R, E, j)) \in Nat
      /\ j \in Best(rows, plan, E) <=> Cardinality(Under(R, E, j)) < QuotaOf(rows, plan, j)
  BY <1>1, <1>2, BestIs
<1> QED
  BY <1>3, <1>4, <1>5, <1>6

\* The rows of a stratum, in their order.
OrderIn(rows, position, S) == {z \in S \X S : RowBefore(rows, position, z[1], z[2])}

\* The n-th of them has n - 1 before it.
LEMMA InOrderNth ==
  ASSUME NEW rows, NEW position, NEW S, IsFiniteSet(S), Order(OrderIn(rows, position, S), S),
         NEW x \in S, NEW n \in Nat, Cardinality(Under(OrderIn(rows, position, S), S, x)) = n
  PROVE  InOrder(rows, position, S)[n + 1] = x
<1>1. PICK R : R = OrderIn(rows, position, S)
  OBVIOUS
<1>2. \A y \in S : {j \in S : RowBefore(rows, position, j, y)} = Under(R, S, y)
  BY <1>1 DEF Under, OrderIn
<1>3. n + 1 \in 1 .. Cardinality(S) /\ (n + 1) - 1 = n
  <2>1. Cardinality(Under(R, S, x)) \in 0 .. (Cardinality(S) - 1)
    BY <1>1, Ranked
  <2>2. Cardinality(S) \in Nat
    BY FS_CardinalityType
  <2> QED
    BY <1>1, <2>1, <2>2
<1>4. InOrder(rows, position, S)[n + 1] =
        CHOOSE y \in S : Cardinality({j \in S : RowBefore(rows, position, j, y)}) = (n + 1) - 1
  BY <1>3 DEF InOrder, SortedBy
<1>5. \A y \in S : Cardinality(Under(R, S, y)) = Cardinality(Under(R, S, x)) => y = x
  BY <1>1, Ranked
<1>6. \A y \in S :
        Cardinality({j \in S : RowBefore(rows, position, j, y)}) = (n + 1) - 1 <=> y = x
  BY <1>1, <1>2, <1>3, <1>5
<1> QED
  BY <1>4, <1>6

\* A turn of the schedule has one row of its stratum.
LEMMA TurnRow ==
  ASSUME NEW rows, Table(rows, world.place), RanksDiffer(world.place), NEW target \in Nat,
         NEW plan, plan = Plan(rows, target), NEW turn \in ToSet(plan.schedule), NEW cell,
         cell = {i \in Eligible(rows, world.place) : CellOf(rows, world.place, i) = turn[1]},
         NEW R, R = OrderIn(rows, plan.position, cell)
  PROVE  /\ IsFiniteSet(cell) /\ cell \in SUBSET Int /\ Order(R, cell)
         /\ turn[2] \in Nat /\ RowOf(rows, plan.position, turn) \in cell
         /\ Cardinality(Under(R, cell, RowOf(rows, plan.position, turn))) = turn[2]
<1>1. PICK sizes : sizes = StratumSizes(rows, world.place)
  OBVIOUS
<1>2. PICK c, n, position : c = turn[1] /\ n = turn[2] /\ position = plan.position
  OBVIOUS
<1>3. /\ turn \in Turns(sizes) /\ n \in Nat /\ c \in DOMAIN plan.quota
      /\ plan.quota[c] \in Nat /\ n < plan.quota[c]
  BY <1>1, <1>2, TurnInQuota
<1>4. PICK E : E = Eligible(rows, world.place)
  OBVIOUS
<1>5. cell = {i \in E : CellOf(rows, world.place, i) = c}
  BY <1>2, <1>4
<1>6. n < Cardinality(cell)
  <2>1. Strata(sizes)
    BY <1>1, StrataOf
  <2>2. c \in DOMAIN sizes /\ n < sizes[c]
    BY <1>2, <1>3, <2>1, TurnsAre
  <2>3. sizes[c] = Cardinality(cell)
    BY <1>1, <1>4, <1>5, <2>2 DEF StratumSizes
  <2> QED
    BY <2>2, <2>3
<1>7. Sampleable(rows, plan, E)
  BY <1>4, PlanBuilt DEF Sampleable
<1>8. IsFiniteSet(E) /\ E \in SUBSET Int
  BY <1>4, <1>7, AheadStrict DEF Table, Eligible
<1>9. IsFiniteSet(cell) /\ cell \in SUBSET Int
  BY <1>5, <1>8, FS_Subset
<1>10. \A i \in cell : position[rows[i].polygon] \in Nat /\ SentenceRank[rows[i].id] \in Nat
  BY <1>2, <1>4, <1>5, <1>7 DEF Sampleable, PlanFor, Table, Eligible
<1>11. R = {z \in cell \X cell : RowBefore(rows, position, z[1], z[2])}
  BY <1>2 DEF OrderIn
<1>12. Order(R, cell)
  <2>1. PICK S, Q : S = cell /\ Q = R
    OBVIOUS
  <2>2. /\ S \in SUBSET Int /\ Q = {z \in S \X S : RowBefore(rows, position, z[1], z[2])}
        /\ \A i \in S : position[rows[i].polygon] \in Nat /\ SentenceRank[rows[i].id] \in Nat
    BY <1>9, <1>10, <1>11, <2>1
  <2>3. Order(Q, S)
    BY ONLY <2>2, RowsOrdered DEF Order, Strict
  <2> QED
    BY <2>1, <2>3
<1>14. PICK x \in cell : /\ Cardinality(Under(R, cell, x)) = n
                         /\ \A y \in cell : Cardinality(Under(R, cell, y)) = n => y = x
  <2>0. Cardinality(cell) \in Nat
    BY <1>9, FS_CardinalityType
  <2>1. PICK m \in 1 .. Cardinality(cell) : m - 1 = n
    <3>1. n + 1 \in 1 .. Cardinality(cell) /\ (n + 1) - 1 = n
      BY <1>3, <1>6, <2>0
    <3> QED
      BY <3>1
  <2>2. \A k \in 1 .. Cardinality(cell) : \E x \in cell : Cardinality(Under(R, cell, x)) = k - 1
    <3>1. PICK S, Q : S = cell /\ Q = R
      OBVIOUS
    <3>2. IsFiniteSet(S) /\ Order(Q, S)
      BY <1>9, <1>12, <3>1
    <3>3. \A k \in 1 .. Cardinality(S) : \E x \in S : Cardinality(Under(Q, S, x)) = k - 1
      BY ONLY <3>2, Ranked
    <3> QED
      BY <3>1, <3>3
  <2>4. PICK x \in cell : Cardinality(Under(R, cell, x)) = m - 1
    BY <2>1, <2>2
  <2>3. \A y \in cell : Cardinality(Under(R, cell, y)) = Cardinality(Under(R, cell, x)) => y = x
    BY <1>9, <1>12, Ranked
  <2> QED
    BY <2>1, <2>3, <2>4
<1>15. \A i \in cell : {j \in E : /\ CellOf(rows, world.place, j) = c
                                  /\ RowBefore(rows, position, j, i)} = Under(R, cell, i)
  BY <1>5, <1>11 DEF Under
<1>16. RowOf(rows, position, turn) = x
  <2>1. \A i \in E :
          /\ CellOf(rows, world.place, i) = turn[1]
          /\ Cardinality({j \in E : /\ CellOf(rows, world.place, j) = turn[1]
                                    /\ RowBefore(rows, position, j, i)}) = turn[2]
          <=> i = x
    BY <1>2, <1>5, <1>14, <1>15
  <2>2. x \in E
    BY <1>5
  <2> QED
    BY <1>4, <2>1, <2>2 DEF RowOf
<1> QED
  BY <1>2, <1>3, <1>9, <1>12, <1>14, <1>16

\* The queue of a stratum has, at each turn of the schedule, the row of the turn,
\* whether all of its rows are in the queue or only those that the target selects.
LEMMA QueueRow ==
  ASSUME NEW rows, Table(rows, world.place), RanksDiffer(world.place), NEW target \in Nat,
         NEW plan, plan = Plan(rows, target), NEW turn \in ToSet(plan.schedule),
         NEW queued \in {Chosen(rows, target), Eligible(rows, world.place)}, NEW inCell,
         inCell = {i \in queued : CellOf(rows, world.place, i) = turn[1]}
  PROVE  /\ InOrder(rows, plan.position, inCell)[turn[2] + 1] = RowOf(rows, plan.position, turn)
         /\ RowOf(rows, plan.position, turn) \in queued
<1>1. PICK c, n, position, x : /\ c = turn[1] /\ n = turn[2] /\ position = plan.position
                              /\ x = RowOf(rows, position, turn)
  OBVIOUS
<1>2. PICK E, chosen : E = Eligible(rows, world.place) /\ chosen = Chosen(rows, target)
  OBVIOUS
<1>3. PICK cell, R : /\ cell = {i \in E : CellOf(rows, world.place, i) = c}
                     /\ R = OrderIn(rows, position, cell)
  OBVIOUS
<1>4. /\ IsFiniteSet(cell) /\ cell \in SUBSET Int /\ Order(R, cell)
      /\ n \in Nat /\ x \in cell /\ Cardinality(Under(R, cell, x)) = n
  BY <1>1, <1>2, <1>3, TurnRow
<1>5. CASE queued = E
  <2>1. inCell = cell /\ x \in queued
    BY <1>1, <1>3, <1>4, <1>5
  <2>2. InOrder(rows, position, cell)[n + 1] = x
    BY <1>3, <1>4, InOrderNth
  <2> QED
    BY <1>1, <2>1, <2>2
<1>6. CASE queued = chosen
  <2>1. c \in DOMAIN plan.quota /\ plan.quota[c] \in Nat /\ n < plan.quota[c]
    BY <1>1, TurnInQuota
  <2>2. Sampleable(rows, plan, E) /\ chosen = Best(rows, plan, E)
    BY <1>2, PlanBuilt DEF Sampleable, Chosen
  <2>3. inCell \in SUBSET cell /\ IsFiniteSet(inCell)
    <3>1. chosen \subseteq E
      BY <2>2 DEF Best
    <3>2. inCell \in SUBSET cell
      BY <1>1, <1>3, <1>6, <3>1
    <3> QED
      BY <1>4, <3>2, FS_Subset
  <2>4. x \in chosen
    <3>1. x \in E /\ CellOf(rows, world.place, x) = c
      BY <1>3, <1>4
    <3>2. {j \in E : /\ CellOf(rows, world.place, j) = c
                    /\ RowBefore(rows, position, j, x)} = Under(R, cell, x)
      BY <1>3, <1>4 DEF Under, OrderIn
    <3>3. Cardinality({j \in E : /\ CellOf(rows, world.place, j) = c
                                /\ RowBefore(rows, position, j, x)}) = n
      BY <1>4, <3>2
    <3> QED
      BY <1>1, <2>1, <2>2, <3>1, <3>3 DEF Best
  <2>5. x \in inCell
    BY <1>1, <1>3, <1>4, <1>6, <2>4
  <2>6. PICK Q : Q = OrderIn(rows, position, inCell)
    OBVIOUS
  <2>7. Order(Q, inCell)
    BY <1>3, <1>4, <2>3, <2>6 DEF Order, Strict, OrderIn
  <2>8. Under(Q, inCell, x) = Under(R, cell, x)
    <3>1. ASSUME NEW j \in Under(R, cell, x) PROVE j \in inCell
      <4>1. j \in cell /\ x \in cell /\ RowBefore(rows, position, j, x)
        BY <1>3 DEF Under, OrderIn
      <4>2. <<j, x>> \in Ahead(rows, plan, E)
        BY <1>1, <1>3, <4>1 DEF Ahead
      <4>3. j \in chosen
        BY <2>2, <2>4, <4>2, ChosenAhead
      <4> QED
        BY <1>1, <1>3, <1>6, <4>1, <4>3
    <3> QED
      BY <1>3, <2>3, <2>5, <2>6, <3>1 DEF Under, OrderIn
  <2>9. InOrder(rows, position, inCell)[n + 1] = x
    BY <1>4, <2>3, <2>5, <2>6, <2>7, <2>8, InOrderNth
  <2> QED
    BY <1>1, <1>6, <2>4, <2>9
<1> QED
  BY <1>2, <1>5, <1>6

-----------------------------------------------------------------------------
(* The samples of two targets.                                             *)

\* A sample has a row for every turn of its schedule, and a larger target's
\* sample begins with it.
LEMMA SampleBegins ==
  ASSUME NEW rows, Table(rows, world.place), RanksDiffer(world.place),
         NEW a \in Nat, NEW b \in Nat, a <= b
  PROVE  IsPrefix(Sample(rows, a), Sample(rows, b))
<1>1. PICK small, large : small = Plan(rows, a) /\ large = Plan(rows, b)
  OBVIOUS
<1>2. PICK m, n : m = Len(small.schedule) /\ n = Len(large.schedule)
  OBVIOUS
<1>3. /\ small.position = large.position
      /\ DOMAIN small.schedule = 1 .. m /\ m \in Nat
      /\ DOMAIN large.schedule = 1 .. n /\ n \in Nat /\ m <= n
      /\ \A k \in 1 .. m : small.schedule[k] = large.schedule[k]
  BY <1>1, <1>2, PlansGrow
<1>4. PICK s, l : s = Sample(rows, a) /\ l = Sample(rows, b)
  OBVIOUS
<1>5. /\ s = [k \in 1 .. m |-> rows[RowOf(rows, small.position, small.schedule[k])].id]
      /\ l = [k \in 1 .. n |-> rows[RowOf(rows, large.position, large.schedule[k])].id]
  BY <1>1, <1>3, <1>4 DEF Sample
<1>6. \A k \in 1 .. m : s[k] = l[k]
  BY <1>3, <1>5
<1>7. PICK V : V = {s[k] : k \in 1 .. m} \cup {l[k] : k \in 1 .. n}
  OBVIOUS
<1>8. s \in Seq(V) /\ Len(s) = m /\ l \in Seq(V) /\ Len(l) = n
  BY <1>3, <1>5, <1>7
<1>9. SubSeq(s, 1, m) = SubSeq(l, 1, m)
  BY <1>3, <1>6, <1>8
<1> QED
  BY <1>3, <1>4, <1>8, <1>9 DEF IsPrefix

-----------------------------------------------------------------------------
(* What stays once all shards are planned.                                 *)

\* A step that does not write the ledger does not open it either.
LEMMA Unwritten ==
  ASSUME JobInv,
         \/ \E t \in Targets : RaiseTarget(t)
         \/ StartJob \/ AcceptOutput \/ Kill \/ StreamShards \/ OpenState \/ WriteState
         \/ BuildPlan \/ MaterializeShard \/ DescribeCache \/ WriteSelected \/ Persist
         \/ UNCHANGED vars \/ Done
  PROVE  world' = world /\ hub' = hub /\ db' = db /\ (Opened' => Opened)
<1>1. world' = world /\ hub' = hub /\ db' = db
  BY DEF RaiseTarget, StartJob, AcceptOutput, Kill, StreamShards, OpenState, WriteState, BuildPlan,
         MaterializeShard, DescribeCache, WriteSelected, Persist, Done, vars, durable
<1>2. job'.pc \in Working => job.pc \in Working
  <2>1. CASE (\E t \in Targets : RaiseTarget(t)) \/ UNCHANGED vars \/ Done
    BY <2>1 DEF RaiseTarget, Done, vars
  <2>2. CASE StartJob \/ AcceptOutput \/ Kill
    <3>1. StartJob => job'.pc \in {"open", "stream"}
      BY DEF StartJob, NoJob
    <3>2. AcceptOutput \/ Kill => job'.pc = "down"
      BY DEF AcceptOutput, Kill, NoJob
    <3> QED
      BY <2>2, <3>1, <3>2 DEF Working
  <2>3. CASE StreamShards \/ WriteSelected \/ Persist
    BY <2>3 DEF StreamShards, WriteSelected, Persist, Goto, JobInv, Working
  <2>4. CASE OpenState
    BY <2>4 DEF OpenState, Goto, NoJob, JobInv, Working
  <2>5. CASE WriteState \/ BuildPlan \/ MaterializeShard \/ DescribeCache
    BY <2>5 DEF WriteState, BuildPlan, MaterializeShard, DescribeCache, At, Working
  <2> QED
    BY <2>1, <2>2, <2>3, <2>4, <2>5
<1> QED
  BY <1>1, <1>2 DEF Opened

\* A shard that is retained was scanned to its end, and stays so until the
\* ledger is cleared.
LEMMA RetainedStep ==
  ASSUME IInv, RetainedInv, [Next]_vars
  PROVE  RetainedInv'
<1>1. JobInv /\ Inputs
  BY DEF IInv
<1>2. CASE \/ \E t \in Targets : RaiseTarget(t)
           \/ StartJob \/ AcceptOutput \/ Kill \/ StreamShards \/ OpenState \/ WriteState
           \/ BuildPlan \/ MaterializeShard \/ DescribeCache \/ WriteSelected \/ Persist
           \/ UNCHANGED vars \/ Done
  <2>1. world' = world /\ hub' = hub /\ db' = db /\ (Opened' => Opened)
    BY <1>1, <1>2, Unwritten
  <2>2. Planned' = Planned
    BY <2>1 DEF Planned, Shards
  <2> QED
    BY <2>1, <2>2 DEF RetainedInv
<1>3. CASE OpenLedger
  <2>1. CASE db = None
    <3>1. db'.retained = {}
      BY <1>3, <2>1 DEF OpenLedger, EmptyLedger
    <3> QED
      BY <3>1 DEF RetainedInv
  <2>2. CASE db # None
    <3>1. Opened /\ db' = db /\ hub' = hub /\ Planned' = Planned
      BY <1>3, <2>2 DEF OpenLedger, Opened, Planned, Shards
    <3> QED
      BY <3>1 DEF RetainedInv
  <2> QED
    BY <2>1, <2>2
<1>4. ASSUME CheckTarget \/ StageShard \/ PlanShard \/ LoadHeaps \/ RetainBatch
             \/ FinishRetaining \/ Compact
      PROVE  /\ Opened /\ world' = world /\ Shards' = Shards
             /\ db = [offset |-> db.offset, kept |-> db.kept, retained |-> db.retained, cand |-> db.cand]
             /\ db.offset \in [Shards -> Nat \cup {None}] /\ db.kept \in [Shards -> Nat]
             /\ \A s \in db.retained : s \in Planned /\ db.kept[s] = Len(hub[s])
  <2>1. Opened /\ world' = world
    BY <1>4 DEF CheckTarget, StageShard, PlanShard, LoadHeaps, RetainBatch, FinishRetaining,
                Compact, At, Opened, Working
  <2> QED
    BY <2>1 DEF IInv, LedgerInv, RetainedInv, Shards
<1>5. CASE CheckTarget
  <2>1. hub' = hub
    BY <1>5 DEF CheckTarget
  <2>2. CASE db' = db
    BY <1>4, <1>5, <2>1, <2>2 DEF RetainedInv, Planned
  <2>3. CASE db' = Cleared(db)
    <3>1. db'.retained = {}
      BY <1>4, <1>5, <2>3 DEF Cleared
    <3> QED
      BY <3>1 DEF RetainedInv
  <2> QED
    BY <1>5, <2>2, <2>3 DEF CheckTarget
<1>6. CASE StageShard
  <2>1. PICK s \in Shards : s = Min(Unplanned) /\ s \notin Planned
    BY <1>1, <1>6, NextUnplanned DEF StageShard
  <2>2. db' = db /\ \A t \in Shards : t # s => hub'[t] = hub[t]
    BY <1>6, <2>1 DEF StageShard, Upload, IInv, HubInv
  <2>3. Planned' = Planned /\ Planned \subseteq Shards
    BY <1>4, <1>6, <2>2 DEF Planned
  <2> QED
    BY <1>4, <1>6, <2>1, <2>2, <2>3 DEF RetainedInv
<1>7. CASE PlanShard
  <2>1. Unplanned # {} /\ hub' = hub
    BY <1>7 DEF PlanShard, IInv, CommitInv
  <2>2. PICK s \in Shards : s = Min(Unplanned) /\ s \notin Planned
    BY <1>1, <2>1, NextUnplanned
  <2>3. PICK n : n = Cardinality(Counted)
    OBVIOUS
  <2>4. db' = [db EXCEPT !.offset[s] = n]
    BY <1>7, <2>2, <2>3 DEF PlanShard
  <2>5. db'.offset = [db.offset EXCEPT ![s] = n] /\ db'.kept = db.kept /\ db'.retained = db.retained
    BY <1>4, <1>7, <2>4
  <2>6. \A t \in Shards : t # s => db'.offset[t] = db.offset[t]
    BY <1>4, <1>7, <2>5
  <2>7. Planned \subseteq Planned'
    BY <1>4, <1>7, <2>2, <2>6 DEF Planned
  <2> QED
    BY <1>4, <1>7, <2>1, <2>5, <2>7 DEF RetainedInv
<1>8. CASE LoadHeaps \/ Compact
  <2>1. hub' = hub /\ db'.offset = db.offset /\ db'.kept = db.kept /\ db'.retained = db.retained
    BY <1>4, <1>8 DEF LoadHeaps, Compact
  <2>2. Planned' = Planned
    BY <1>4, <1>8, <2>1 DEF Planned
  <2> QED
    BY <1>4, <1>8, <2>1, <2>2 DEF RetainedInv
<1>9. CASE RetainBatch \/ FinishRetaining
  <2>1. PICK s : s = Min(Unretained)
    OBVIOUS
  <2>2. s \in Shards /\ s \notin db.retained
    <3>1. Unretained \in SUBSET Nat /\ Unretained # {}
      BY <1>1, <1>9, ShardNumbers DEF RetainBatch, FinishRetaining, Unretained
    <3> QED
      BY <2>1, <3>1, MinIn DEF Unretained
  <2>3. PICK n : n = BatchEnd(s)
    OBVIOUS
  <2>4. CASE RetainBatch
    <3>1. PICK cand : db' = [db EXCEPT !.cand = cand, !.kept[s] = n]
      BY <2>1, <2>3, <2>4 DEF RetainBatch
    <3>2. hub' = hub
      BY <2>4 DEF RetainBatch
    <3>3. db'.offset = db.offset /\ db'.retained = db.retained /\ db'.kept = [db.kept EXCEPT ![s] = n]
      BY <1>4, <1>9, <3>1
    <3>4. Planned' = Planned /\ Planned \subseteq Shards
      BY <1>4, <1>9, <3>3 DEF Planned
    <3>5. \A t \in Shards : t # s => db'.kept[t] = db.kept[t]
      BY <1>4, <1>9, <3>3
    <3> QED
      BY <1>4, <1>9, <2>2, <3>2, <3>3, <3>4, <3>5 DEF RetainedInv
  <2>5. CASE FinishRetaining
    <3>1. hub' = hub /\ db' = [db EXCEPT !.retained = db.retained \cup {s}] /\ db.kept[s] = Len(hub[s])
      BY <2>1, <2>5 DEF FinishRetaining
    <3>2. db'.offset = db.offset /\ db'.kept = db.kept /\ db'.retained = db.retained \cup {s}
      BY <1>4, <1>9, <3>1
    <3>3. Planned' = Planned
      BY <1>4, <1>9, <3>2 DEF Planned
    <3>4. s \in Planned
      BY <2>2, <2>5 DEF FinishRetaining, At, IInv, PlanInv, Unplanned
    <3> QED
      BY <1>4, <1>9, <3>1, <3>2, <3>3, <3>4 DEF RetainedInv
  <2> QED
    BY <1>9, <2>4, <2>5
<1> QED
  BY <1>2, <1>3, <1>5, <1>6, <1>7, <1>8, <1>9 DEF Next, JobStep

\* An open ledger is there.
LEMMA LedgerThere == IInv /\ RetainedInv /\ Opened => db # None
<1> SUFFICES ASSUME IInv, RetainedInv, Opened
             PROVE  db # None
  OBVIOUS
<1>1. /\ db = [offset |-> db.offset, kept |-> db.kept, retained |-> db.retained, cand |-> db.cand]
      /\ db.offset \in [Shards -> Nat \cup {None}] /\ db.kept \in [Shards -> Nat]
  BY DEF IInv, LedgerInv
<1>2. db.retained \in SUBSET Shards
  BY DEF RetainedInv, Planned
<1>3. db.cand \in SUBSET Int
  <2>1. CASE state = None \/ Unplanned # {}
    BY <2>1 DEF IInv, FreshInv, Fresh
  <2>2. CASE ~ (state = None \/ Unplanned # {})
    <3>1. PICK rows : rows = PlannedRows
      OBVIOUS
    <3>2. db.cand \subseteq Scanned(rows)
      BY <2>2, <3>1 DEF IInv, CoversInv, Covers
    <3>3. Scanned(rows) \subseteq DOMAIN rows
      BY DEF Scanned, Located, Eligible
    <3>4. DOMAIN rows \subseteq Int
      BY <3>1, RowsTable DEF IInv, Table
    <3> QED
      BY <3>2, <3>3, <3>4
  <2> QED
    BY <2>1, <2>2
<1>4. db \in LedgerType(world)
  BY <1>1, <1>2, <1>3 DEF LedgerType, Shards
<1> QED
  BY <1>4, NoneAssumption DEF IInv, Inputs

\* Once all shards are planned, the rows behind the ledger stay.
LEMMA RowsStay ==
  ASSUME IInv, RetainedInv, [Next]_vars
  PROVE  /\ world' = world /\ Shards' = Shards
         /\ db # None /\ Unplanned = {} =>
              /\ db' # None /\ Unplanned' = {} /\ PlannedRows' = PlannedRows
              /\ hub' = hub /\ db'.offset = db.offset
<1>1. IInv' /\ RetainedInv'
  BY Inductive, RetainedStep
<1>2. JobInv /\ Inputs
  BY DEF IInv
<1>3. CASE \/ \E t \in Targets : RaiseTarget(t)
           \/ StartJob \/ AcceptOutput \/ Kill \/ StreamShards \/ OpenState \/ WriteState
           \/ BuildPlan \/ MaterializeShard \/ DescribeCache \/ WriteSelected \/ Persist
           \/ UNCHANGED vars \/ Done
  <2>1. world' = world /\ hub' = hub /\ db' = db
    BY <1>2, <1>3, Unwritten
  <2> QED
    BY <2>1, SameRows
<1>4. CASE OpenLedger
  <2>1. world' = world /\ hub' = hub /\ (db # None => db' = db)
    BY <1>4 DEF OpenLedger
  <2>2. Shards' = Shards
    BY <2>1 DEF Shards
  <2> QED
    BY <2>1, <2>2, SameRows
<1>5. CASE StageShard \/ PlanShard
  <2>1. world' = world /\ Unplanned # {}
    BY <1>5 DEF StageShard, PlanShard, IInv, CommitInv
  <2> QED
    BY <2>1 DEF Shards
<1>6. CASE CheckTarget \/ LoadHeaps \/ RetainBatch \/ FinishRetaining \/ Compact
  <2>1. /\ world' = world /\ hub' = hub /\ Opened
    BY <1>6 DEF CheckTarget, LoadHeaps, RetainBatch, FinishRetaining, Compact, At, Opened, Working
  <2>2. db = [offset |-> db.offset, kept |-> db.kept, retained |-> db.retained, cand |-> db.cand]
    BY <2>1 DEF IInv, LedgerInv
  <2>3. db'.offset = db.offset
    BY <1>6, <2>2 DEF CheckTarget, Cleared, LoadHeaps, RetainBatch, FinishRetaining, Compact
  <2>4. Opened'
    BY <1>6, <1>2 DEF CheckTarget, LoadHeaps, RetainBatch, FinishRetaining, Compact, At, Goto,
                Opened, Working, JobInv
  <2>5. (db # None)'
    BY <1>1, <2>4, LedgerThere, PTL
  <2> QED
    BY <2>1, <2>3, <2>5, SameRows
<1> QED
  BY <1>3, <1>4, <1>5, <1>6 DEF Next, JobStep
-----------------------------------------------------------------------------
(* What was delivered stays delivered.                                     *)

\* What a table selects depends on the inputs only.
LEMMA SameSample ==
  ASSUME world' = world, NEW rows, NEW target
  PROVE  Chosen(rows, target)' = Chosen(rows, target) /\ Sample(rows, target)' = Sample(rows, target)
<1>1. Chosen(rows, target)' = Chosen(rows, target)
  BY DEF Chosen, Best, Plan
<1>2. Sample(rows, target)' = Sample(rows, target)
  BY DEF Sample, Plan, RowOf
<1> QED
  BY <1>1, <1>2

\* An output goes on to be the sample of its target.
LEMMA DeliversStays ==
  ASSUME IInv, RetainedInv, [Next]_vars, NEW out, Delivers(out)
  PROVE  Delivers(out)'
<1>1. world' = world /\ Shards' = Shards
  BY RowsStay
<1>2. Sampled' = Sampled /\ Whole' = Whole
  BY <1>1 DEF Sampled, Whole
<1>3. CASE ~ Sampled
  BY <1>2, <1>3 DEF Delivers
<1>4. CASE Sampled
  <2>1. db # None /\ Unplanned = {} /\ out.target \in Nat
    BY <1>4 DEF Delivers
  <2>2. db' # None /\ Unplanned' = {} /\ PlannedRows' = PlannedRows
    BY <2>1, RowsStay
  <2>3. PICK rows, target : rows = PlannedRows /\ target = out.target
    OBVIOUS
  <2>4. out.rows = Sample(rows, target)
    BY <1>4, <2>3 DEF Delivers
  <2>5. Sample(rows, target)' = Sample(rows, target)
    BY <1>1, SameSample
  <2> QED
    BY <1>2, <1>4, <2>1, <2>2, <2>3, <2>4, <2>5 DEF Delivers
<1> QED
  BY <1>3, <1>4

\* A materialized table goes on to be selected: a target only grows.
LEMMA CacheKept ==
  ASSUME IInv, RetainedInv, CacheInv, [Next]_vars, cache' = cache,
         state' = state \/ (state' \in Nat /\ (state = None \/ state <= state'))
  PROVE  CacheInv'
<1>1. world' = world /\ Shards' = Shards
  BY RowsStay
<1>2. cache' = [s \in Shards |-> [table |-> cache'[s].table, meta |-> cache'[s].meta]]
  BY DEF CacheInv
<1>3. ASSUME NEW s \in Shards, cache[s].table # None
      PROVE  /\ db' # None /\ state' # None /\ Unplanned' = {}
             /\ \A rows \in {PlannedRows'} :
                  cache[s].table \subseteq Chosen(rows, state)' \cap Numbers(s)'
  <2>1. db # None /\ state # None /\ Unplanned = {}
    BY <1>3 DEF CacheInv
  <2>2. /\ db' # None /\ Unplanned' = {} /\ PlannedRows' = PlannedRows
        /\ hub' = hub /\ db'.offset = db.offset
    BY <2>1, RowsStay
  <2>3. PICK rows, old, new : rows = PlannedRows /\ old = state /\ new = state'
    OBVIOUS
  <2>4. old \in Nat /\ new \in Nat /\ old <= new
    BY <2>1, <2>3 DEF IInv, Inputs
  <2>5. Table(rows, world.place) /\ RanksDiffer(world.place)
    BY <2>1, <2>3, RowsTable DEF IInv, Opened
  <2>6. Chosen(rows, old) \subseteq Chosen(rows, new)
    BY <2>4, <2>5, ChosenGrows
  <2>7. Chosen(rows, new)' = Chosen(rows, new) /\ Numbers(s)' = Numbers(s)
    BY <1>1, <2>2, SameSample DEF Numbers
  <2>8. cache[s].table \subseteq Chosen(rows, old) \cap Numbers(s)
    BY <1>3, <2>3 DEF CacheInv
  <2>9. new # None
    BY <2>4, NoneAssumption
  <2> QED
    BY <2>2, <2>3, <2>6, <2>7, <2>8, <2>9
<1> QED
  BY <1>1, <1>2, <1>3 DEF CacheInv

-----------------------------------------------------------------------------
(* Steps that do not materialize.                                          *)

\* An allocation that does not materialize or deliver.
LEMMA Undelivered ==
  ASSUME IInv, OInv, [Next]_vars, cache' = cache, delivered' = delivered,
         state' = state \/ (state' \in Nat /\ (state = None \/ state <= state')),
         ModeInv', GrowInv', job'.pc \notin {"rows", "meta", "persist", "exit"},
         job'.pc = "down" \/ (job'.shard = 1 /\ job'.rows = {})
  PROVE  OInv'
<1>1. RetainedInv' /\ CacheInv'
  BY RetainedStep, CacheKept DEF OInv
<1>2. SelectedInv' /\ RowsInv'
  BY DEF SelectedInv, RowsInv, At
<1>3. OutputInv'
  BY DeliversStays DEF OInv, OutputInv
<1> QED
  BY <1>1, <1>2, <1>3 DEF OInv

\* The operator raises the target, or nothing happens.
LEMMA IdleOut ==
  ASSUME IInv, OInv, [Next]_vars, (\E t \in Targets : RaiseTarget(t)) \/ Done \/ UNCHANGED vars
  PROVE  OInv'
<1>1. /\ world' = world /\ hub' = hub /\ state' = state /\ db' = db /\ cache' = cache
      /\ job' = job /\ delivered' = delivered
  BY DEF RaiseTarget, Done, vars, durable
<1>2. Shards' = Shards /\ Unplanned' = Unplanned /\ PlannedRows' = PlannedRows
  BY <1>1, SameRows
<1>3. RetainedInv' /\ CacheInv'
  BY <1>1, RetainedStep, CacheKept DEF OInv
<1>4. ModeInv' /\ GrowInv'
  BY <1>1 DEF OInv, ModeInv, GrowInv, Sampled, At
<1>5. RowsInv'
  <2>1. \A s : Numbers(s)' = Numbers(s)
    BY <1>1 DEF Numbers
  <2> QED
    BY <1>1, <1>2, <2>1 DEF OInv, RowsInv, At
<1>6. SelectedInv'
  <2>1. PICK rows, target : rows = PlannedRows /\ target = job.target
    OBVIOUS
  <2>2. Chosen(rows, target)' = Chosen(rows, target) /\ Plan(rows, target)' = Plan(rows, target)
    BY <1>1, SameSample, SameOrder
  <2> QED
    BY <1>1, <1>2, <2>1, <2>2 DEF OInv, SelectedInv
<1>7. OutputInv'
  BY <1>1, DeliversStays DEF OInv, OutputInv
<1> QED
  BY <1>3, <1>4, <1>5, <1>6, <1>7 DEF OInv

\* An allocation begins, ends, or checks its target.
LEMMA BeginOut ==
  ASSUME IInv, OInv, [Next]_vars,
         StartJob \/ AcceptOutput \/ Kill \/ OpenState \/ OpenLedger \/ CheckTarget \/ WriteState
  PROVE  OInv'
<1>1. JobInv /\ world' = world /\ cache' = cache /\ delivered' = delivered
      /\ Inputs /\ ModeInv /\ GrowInv /\ RowsInv
  BY DEF StartJob, AcceptOutput, Kill, OpenState, OpenLedger, CheckTarget, WriteState, durable,
         IInv, OInv
<1>2. CASE AcceptOutput \/ Kill
  <2>1. job'.pc = "down" /\ state' = state
    BY <1>2 DEF AcceptOutput, Kill, NoJob, durable
  <2>2. ModeInv' /\ GrowInv'
    BY <2>1 DEF ModeInv, GrowInv, At, Working
  <2> QED
    BY <1>1, <2>1, <2>2, Undelivered
<1>3. CASE StartJob
  <2>1. /\ job'.pc = (IF Sampled THEN "open" ELSE "stream") /\ job'.shard = 1 /\ job'.rows = {}
        /\ state' = state
    BY <1>3 DEF StartJob, NoJob, durable
  <2>2. ModeInv' /\ GrowInv'
    BY <1>1, <2>1 DEF ModeInv, GrowInv, At, Working, Sampled
  <2> QED
    BY <1>1, <2>1, <2>2, Undelivered
<1>4. CASE OpenState
  <2>1. job.pc = "open" /\ job.shard = 1 /\ job.rows = {} /\ Sampled /\ state' = state
    BY <1>1, <1>4 DEF OpenState, At, RowsInv, ModeInv, durable
  <2>2. CASE job' = NoJob
    <3>1. job'.pc = "down"
      BY <2>2 DEF NoJob
    <3>2. ModeInv' /\ GrowInv'
      BY <3>1 DEF ModeInv, GrowInv, At, Working
    <3> QED
      BY <1>1, <2>1, <3>1, <3>2, Undelivered
  <2>3. CASE Goto("ledger") /\ ~ (state # None /\ job.target < state)
    <3>1. job'.pc = "ledger" /\ job'.target = job.target /\ job'.shard = 1 /\ job'.rows = {}
      BY <1>1, <2>1, <2>3 DEF Goto, JobInv
    <3>2. ModeInv'
      BY <1>1, <2>1, <3>1 DEF ModeInv, At, Sampled
    <3>3. GrowInv'
      BY <1>1, <2>1, <2>3, <3>1 DEF GrowInv, Inputs, JobInv
    <3> QED
      BY <1>1, <2>1, <3>1, <3>2, <3>3, Undelivered
  <2> QED
    BY <1>4, <2>2, <2>3 DEF OpenState
<1>5. CASE OpenLedger \/ CheckTarget
  <2>1. job.pc \in {"ledger", "state"} /\ job.shard = 1 /\ job.rows = {} /\ Sampled
        /\ state' = state
    BY <1>1, <1>5 DEF OpenLedger, CheckTarget, At, RowsInv, ModeInv, Working
  <2>2. /\ job'.pc \in {"state", "grow", "plan"} /\ job'.target = job.target
        /\ job'.shard = 1 /\ job'.rows = {}
    BY <1>1, <1>5, <2>1 DEF OpenLedger, CheckTarget, Goto, JobInv
  <2>3. ModeInv' /\ GrowInv'
    BY <1>1, <2>1, <2>2 DEF ModeInv, GrowInv, At, Sampled
  <2> QED
    BY <1>1, <2>1, <2>2, <2>3, Undelivered
<1>6. CASE WriteState
  <2>1. /\ job.pc = "grow" /\ job.shard = 1 /\ job.rows = {} /\ Sampled
        /\ state' = job.target /\ state' \in Nat /\ (state = None \/ state <= state')
    BY <1>1, <1>6 DEF WriteState, At, RowsInv, ModeInv, GrowInv, Working, JobInv
  <2>2. job'.pc = "plan" /\ job'.shard = 1 /\ job'.rows = {}
    BY <1>1, <1>6, <2>1 DEF WriteState, Goto, JobInv
  <2>3. ModeInv' /\ GrowInv'
    BY <1>1, <2>1, <2>2 DEF ModeInv, GrowInv, At, Sampled
  <2> QED
    BY <1>1, <2>1, <2>2, <2>3, Undelivered
<1> QED
  BY <1>2, <1>3, <1>4, <1>5, <1>6

\* An allocation plans and retains.
LEMMA PlanOut ==
  ASSUME IInv, OInv, [Next]_vars, \/ StageShard \/ PlanShard \/ BuildPlan \/ LoadHeaps
                                  \/ RetainBatch \/ FinishRetaining
  PROVE  OInv'
<1>1. JobInv /\ world' = world /\ cache' = cache /\ delivered' = delivered /\ state' = state
      /\ ModeInv /\ RowsInv
  BY DEF StageShard, PlanShard, BuildPlan, LoadHeaps, RetainBatch, FinishRetaining, durable,
         IInv, OInv
<1>2. job.pc \in {"plan", "commit", "build", "retain"} /\ job.shard = 1 /\ job.rows = {} /\ Sampled
  BY <1>1 DEF StageShard, PlanShard, BuildPlan, LoadHeaps, RetainBatch, FinishRetaining, At, RowsInv,
              ModeInv, Working
<1>3. job'.pc \in {"plan", "commit", "build", "retain"} /\ job'.shard = 1 /\ job'.rows = {}
  <2>1. CASE StageShard \/ PlanShard \/ FinishRetaining
    BY <1>1, <1>2, <2>1 DEF StageShard, PlanShard, FinishRetaining, Goto, JobInv
  <2>2. CASE BuildPlan
    BY <1>1, <1>2, <2>2 DEF BuildPlan, JobInv
  <2>3. CASE LoadHeaps
    BY <1>1, <1>2, <2>3 DEF LoadHeaps, JobInv
  <2>4. CASE RetainBatch
    BY <1>1, <1>2, <2>4 DEF RetainBatch, JobInv
  <2> QED
    BY <2>1, <2>2, <2>3, <2>4
<1>4. ModeInv' /\ GrowInv'
  BY <1>1, <1>2, <1>3 DEF ModeInv, GrowInv, At, Sampled
<1> QED
  BY <1>1, <1>3, <1>4, Undelivered
-----------------------------------------------------------------------------
(* Materialization.                                                        *)

\* Numbered lists a set of row numbers.
LEMMA NumberedLists ==
  ASSUME NEW S \in SUBSET Int, IsFiniteSet(S)
  PROVE  Lists(Numbered(S), S)
<1> DEFINE R == {z \in S \X S : z[1] < z[2]}
<1>1. Order(R, S)
  <2>1. ASSUME NEW x \in S, NEW y \in S PROVE <<x, y>> \in R <=> x < y
    OBVIOUS
  <2>2. \A x \in S : x \in Int
    OBVIOUS
  <2>3. Strict(R, S)
    BY <2>1, <2>2 DEF Strict
  <2>4. \A x, y \in S : x # y => <<x, y>> \in R \/ <<y, x>> \in R
    BY <2>1, <2>2
  <2> QED
    BY <2>3, <2>4 DEF Order
<1>2. \A x \in S : {y \in S : y < x} = Under(R, S, x)
  BY DEF Under
<1> DEFINE nth(n) == CHOOSE x \in S : Cardinality({y \in S : y < x}) = n - 1
<1>3. Numbered(S) = [n \in 1 .. Cardinality(S) |-> nth(n)]
  BY DEF Numbered, SortedBy
<1> HIDE DEF R
<1>8. \A k \in 1 .. Cardinality(S) : \E x \in S : Cardinality(Under(R, S, x)) = k - 1
  <2>1. PICK T, Q : T = S /\ Q = R
    OBVIOUS
  <2>2. IsFiniteSet(T) /\ Order(Q, T)
    BY <1>1, <2>1
  <2>3. \A k \in 1 .. Cardinality(T) : \E x \in T : Cardinality(Under(Q, T, x)) = k - 1
    BY ONLY <2>2, Ranked
  <2> QED
    BY <2>1, <2>3
<1>4. ASSUME NEW n \in 1 .. Cardinality(S)
      PROVE  nth(n) \in S /\ Cardinality(Under(R, S, nth(n))) = n - 1
  <2>1. \E x \in S : Cardinality(Under(R, S, x)) = n - 1
    BY <1>8
  <2>2. PICK x \in S : Cardinality({y \in S : y < x}) = n - 1
    BY <1>2, <2>1
  <2>3. nth(n) \in S /\ Cardinality({y \in S : y < nth(n)}) = n - 1
    BY <2>2
  <2> QED
    BY <1>2, <2>3
<1> HIDE DEF nth
<1>5. PICK seq : seq = Numbered(S)
  OBVIOUS
<1>6. /\ seq = [n \in 1 .. Cardinality(S) |-> seq[n]]
      /\ \A n \in 1 .. Cardinality(S) :
           seq[n] \in S /\ Cardinality(Under(R, S, seq[n])) = n - 1
  BY <1>3, <1>4, <1>5
<1>7. Lists(seq, S)
  BY <1>1, <1>6, Listed
<1> QED
  BY <1>5, <1>7

\* A table that has the rows of the locators gives each its own row.
LEMMA MatchedSelf ==
  ASSUME NEW S \in SUBSET Int, IsFiniteSet(S)
  PROVE  /\ \A z \in Matched(S, S) : z[1] = z[2]
         /\ \A i \in S : <<i, i>> \in Matched(S, S)
<1>1. PICK seq : seq = Numbered(S)
  OBVIOUS
<1>2. Len(seq) = Cardinality(S) /\ \A i \in S : \E n \in 1 .. Len(seq) : seq[n] = i
  BY <1>1, NumberedLists DEF Lists
<1>3. Matched(S, S) = {<<seq[k], seq[k]>> : k \in 1 .. Cardinality(S)}
  BY <1>1 DEF Matched
<1> QED
  BY <1>2, <1>3

\* When every shard is retained, every row was scanned.
LEMMA AllScanned ==
  ASSUME IInv, RetainedInv, Opened, Unplanned = {}, Unretained = {}, NEW rows, rows = PlannedRows
  PROVE  Scanned(rows) = Eligible(rows, world.place)
<1>1. Scanned(rows) \subseteq Eligible(rows, world.place)
  BY DEF Scanned, Located
<1>2. ASSUME NEW k \in Eligible(rows, world.place) PROVE k \in Scanned(rows)
  <2>1. k \in Counted
    BY DEF Eligible, PlannedRows
  <2>2. PICK s \in Planned : k \in Numbers(s)
    BY <2>1 DEF Counted
  <2>3. PICK i \in 1 .. Len(hub[s]) : k = db.offset[s] + i
    BY <2>2 DEF Numbers
  <2>4. s \in Shards /\ db.kept[s] = Len(hub[s])
    BY DEF Planned, Unretained, RetainedInv
  <2>5. k \in {db.offset[s] + j : j \in 1 .. db.kept[s]}
    BY <2>3, <2>4
  <2> QED
    BY <2>4, <2>5 DEF Scanned, Located
<1> QED
  BY <1>1, <1>2

\* Materialization begins with the rows that the target selects.
LEMMA CompactOut ==
  ASSUME IInv, OInv, [Next]_vars, Compact
  PROVE  OInv'
<1>1. PICK rows, plan : rows = PlannedRows /\ plan = job.plan
  OBVIOUS
<1>2. PICK scanned, target : scanned = Scanned(rows) /\ target = job.target
  OBVIOUS
<1>3. /\ job.pc = "retain" /\ Unretained = {} /\ job.heap = Best(rows, plan, scanned)
      /\ JobInv /\ Inputs /\ RetainedInv /\ Sampled
  BY <1>1, <1>2 DEF Compact, At, IInv, HeapInv, OInv, ModeInv, Working
<1>4. Opened /\ state = target /\ Unplanned = {} /\ plan = Plan(rows, target)
  BY <1>1, <1>2, <1>3, Retaining
<1>5. scanned = Eligible(rows, world.place)
  BY <1>1, <1>2, <1>3, <1>4, AllScanned
<1>6. job.heap = Chosen(rows, target)
  BY <1>3, <1>4, <1>5 DEF Chosen
<1>7. /\ db = [offset |-> db.offset, kept |-> db.kept, retained |-> db.retained, cand |-> db.cand]
  BY <1>4 DEF IInv, LedgerInv
<1>8. /\ world' = world /\ hub' = hub /\ state' = state /\ cache' = cache
      /\ delivered' = delivered /\ db'.offset = db.offset /\ db'.cand = job.heap
  BY <1>7 DEF Compact
<1>9. /\ job'.pc = "rows" /\ job'.plan = plan /\ job'.target = target
      /\ job'.shard = 1 /\ job'.rows = {}
  BY <1>1, <1>2, <1>3 DEF Compact, Goto, JobInv, OInv, RowsInv
<1>10. Shards' = Shards /\ Unplanned' = Unplanned /\ PlannedRows' = PlannedRows
  BY <1>8, SameRows
<1>11. SelectedInv'
  <2>1. Chosen(rows, target)' = Chosen(rows, target) /\ Plan(rows, target)' = Plan(rows, target)
    BY <1>8, SameSample, SameOrder
  <2> QED
    BY <1>1, <1>4, <1>6, <1>8, <1>9, <1>10, <2>1 DEF SelectedInv
<1>12. RowsInv'
  <2>1. Len(world.occs) \in Nat /\ Shards = 1 .. Len(world.occs)
    BY <1>3, WorldsAssumption DEF Inputs, WorldOK, Shards
  <2> QED
    BY <1>8, <1>9, <1>10, <2>1 DEF RowsInv, At
<1>13. RetainedInv' /\ CacheInv'
  BY <1>8, RetainedStep, CacheKept DEF OInv
<1>14. ModeInv' /\ GrowInv' /\ OutputInv'
  <2>1. OutputInv'
    BY <1>8, <1>9, DeliversStays DEF OInv, OutputInv
  <2> QED
    BY <1>3, <1>8, <1>9, <2>1 DEF ModeInv, GrowInv, At, Sampled
<1> QED
  BY <1>11, <1>12, <1>13, <1>14 DEF OInv

\* While an allocation materializes, the ledger has the selected rows, and what
\* is cached for a shard is some of those of the shard.
LEMMA Materializing ==
  ASSUME IInv, OInv, job.pc \in {"rows", "meta"}, NEW s \in Shards,
         NEW locators, locators = db.cand \cap Numbers(s)
  PROVE  /\ db # None /\ state # None /\ state = job.target /\ Unplanned = {} /\ Sampled
         /\ locators \in SUBSET Int /\ IsFiniteSet(locators)
         /\ \A rows \in {PlannedRows} : locators \subseteq Chosen(rows, state) \cap Numbers(s)
         /\ cache[s].table # None => cache[s].table \subseteq locators
<1>1. JobInv /\ Inputs /\ RetainedInv /\ SelectedInv /\ CacheInv /\ ModeInv
  BY DEF IInv, OInv
<1>2. Opened /\ state = job.target /\ Unplanned = {} /\ Sampled
  BY <1>1 DEF Opened, Working, SelectedInv, ModeInv
<1>3. db # None
  BY <1>1, <1>2, LedgerThere
<1>4. state # None
  BY <1>1, <1>2, NoneAssumption DEF JobInv
<1>5. PICK rows : rows = PlannedRows
  OBVIOUS
<1>6. db.cand = Chosen(rows, state)
  BY <1>1, <1>2, <1>5 DEF SelectedInv
<1>7. Table(rows, world.place)
  BY <1>1, <1>2, <1>5, RowsTable DEF IInv
<1>8. locators \in SUBSET DOMAIN rows
  BY <1>6 DEF Chosen, Best, Eligible
<1>9. locators \in SUBSET Int /\ IsFiniteSet(locators)
  BY <1>7, <1>8, FS_Subset DEF Table
<1>10. cache[s].table # None => cache[s].table \subseteq locators
  BY <1>1, <1>5, <1>6 DEF CacheInv
<1> QED
  BY <1>2, <1>3, <1>4, <1>5, <1>6, <1>9, <1>10

\* A step of the materialization keeps what is delivered.
LEMMA MaterialOut ==
  ASSUME IInv, OInv, [Next]_vars, job.pc \in {"rows", "meta"}, job'.pc \in {"rows", "meta"},
         world' = world, hub' = hub, state' = state, db' = db, delivered' = delivered,
         job'.target = job.target, job'.plan = job.plan, CacheInv', RowsInv'
  PROVE  OInv'
<1>1. RetainedInv /\ RetainedInv' /\ Sampled
  BY RetainedStep DEF OInv, ModeInv, Working
<1>2. Shards' = Shards /\ Unplanned' = Unplanned /\ PlannedRows' = PlannedRows
  BY SameRows
<1>3. SelectedInv'
  <2>1. PICK rows, target : rows = PlannedRows /\ target = job.target
    OBVIOUS
  <2>2. Chosen(rows, target)' = Chosen(rows, target) /\ Plan(rows, target)' = Plan(rows, target)
    BY SameSample, SameOrder
  <2> QED
    BY <1>2, <2>1, <2>2 DEF OInv, SelectedInv
<1>4. OutputInv'
  BY <1>1, DeliversStays DEF OInv, OutputInv
<1>5. ModeInv' /\ GrowInv'
  BY <1>1 DEF ModeInv, GrowInv, At, Sampled
<1> QED
  BY <1>1, <1>3, <1>4, <1>5 DEF OInv

\* A shard is materialized, or its table is taken from the cache.
LEMMA MaterializeOut ==
  ASSUME IInv, OInv, [Next]_vars, MaterializeShard
  PROVE  OInv'
<1>1. PICK s : s = job.shard
  OBVIOUS
<1>2. PICK locators : locators = db.cand \cap Numbers(s)
  OBVIOUS
<1>3. /\ job.pc = "rows" /\ s \in Shards /\ JobInv /\ Inputs /\ CacheInv /\ RowsInv
      /\ world' = world /\ hub' = hub /\ state' = state /\ db' = db /\ delivered' = delivered
  BY <1>1 DEF MaterializeShard, At, IInv, OInv
<1>4. /\ db # None /\ state # None /\ Unplanned = {}
      /\ locators \in SUBSET Int /\ IsFiniteSet(locators)
      /\ \A rows \in {PlannedRows} : locators \subseteq Chosen(rows, state) \cap Numbers(s)
      /\ cache[s].table # None => cache[s].table \subseteq locators
  BY <1>2, <1>3, Materializing
<1>5. PICK m : m = Matched(locators, locators)
  OBVIOUS
<1>6. (\A z \in m : z[1] = z[2]) /\ (\A i \in locators : <<i, i>> \in m)
  BY <1>4, <1>5, MatchedSelf
<1>7. Len(world.occs) \in Nat /\ Shards = 1 .. Len(world.occs)
  BY <1>3, WorldsAssumption DEF Inputs, WorldOK, Shards
<1>8. Shards' = Shards /\ Unplanned' = Unplanned /\ PlannedRows' = PlannedRows
      /\ \A t : Numbers(t)' = Numbers(t)
  BY <1>3, SameRows DEF Numbers
<1>9. \A t \in Shards : t < s + 1 => t < s \/ t = s
  BY <1>3, <1>7
<1>10. CASE locators = {}
  <2>1. job' = [job EXCEPT !.shard = s + 1, !.rows = job.rows \cup {}] /\ cache' = cache
    BY <1>1, <1>2, <1>10 DEF MaterializeShard
  <2>2. /\ job'.pc = "rows" /\ job'.target = job.target /\ job'.plan = job.plan
        /\ job'.shard = s + 1 /\ job'.rows = job.rows
    BY <1>3, <2>1 DEF JobInv
  <2>3. RowsInv'
    BY <1>1, <1>2, <1>3, <1>7, <1>8, <1>9, <1>10, <2>2 DEF RowsInv, At
  <2>4. CacheInv'
    BY <1>3, <2>1, CacheKept DEF OInv
  <2> QED
    BY <1>3, <2>2, <2>3, <2>4, MaterialOut
<1>11. CASE locators # {} /\ Cached(s, locators)
  <2>1. cache[s].table = locators
    <3>1. PICK table : table = cache[s].table
      OBVIOUS
    <3>2. table \in SUBSET locators /\ Cardinality(table) = Cardinality(locators)
      BY <1>4, <1>11, <3>1 DEF Cached
    <3>3. table = locators
      BY <1>4, <3>2, FS_Subset
    <3> QED
      BY <3>1, <3>3
  <2>2. job' = [job EXCEPT !.shard = s + 1, !.rows = job.rows \cup m] /\ cache' = cache
    BY <1>1, <1>2, <1>5, <1>11, <2>1 DEF MaterializeShard
  <2>3. /\ job'.pc = "rows" /\ job'.target = job.target /\ job'.plan = job.plan
        /\ job'.shard = s + 1 /\ job'.rows = job.rows \cup m
    BY <1>3, <2>2 DEF JobInv
  <2>4. RowsInv'
    BY <1>1, <1>2, <1>3, <1>6, <1>7, <1>8, <1>9, <2>3 DEF RowsInv, At
  <2>5. CacheInv'
    BY <1>3, <2>2, CacheKept DEF OInv
  <2> QED
    BY <1>3, <2>3, <2>4, <2>5, MaterialOut
<1>12. CASE locators # {} /\ ~ Cached(s, locators)
  <2>1. /\ job' = [job EXCEPT !.pc = "meta", !.rows = job.rows \cup m]
        /\ cache' = [cache EXCEPT ![s].table = locators]
    BY <1>1, <1>2, <1>5, <1>12 DEF MaterializeShard
  <2>2. /\ job'.pc = "meta" /\ job'.target = job.target /\ job'.plan = job.plan
        /\ job'.shard = s /\ job'.rows = job.rows \cup m
    BY <1>1, <1>3, <2>1 DEF JobInv
  <2>3. RowsInv'
    BY <1>1, <1>2, <1>3, <1>6, <1>7, <1>8, <2>2 DEF RowsInv, At
  <2>4. /\ cache' = [t \in Shards |-> [table |-> cache'[t].table, meta |-> cache'[t].meta]]
        /\ cache'[s].table = locators /\ \A t \in Shards : t # s => cache'[t].table = cache[t].table
    BY <1>3, <2>1 DEF CacheInv
  <2>5. CacheInv'
    <3>1. PICK rows, target : rows = PlannedRows /\ target = state
      OBVIOUS
    <3>2. Chosen(rows, target)' = Chosen(rows, target)
      BY <1>3, SameSample
    <3> QED
      BY <1>3, <1>4, <1>8, <2>4, <3>1, <3>2 DEF CacheInv
  <2> QED
    BY <1>3, <2>2, <2>3, <2>5, MaterialOut
<1> QED
  BY <1>10, <1>11, <1>12

\* The description of a materialized table follows it.
LEMMA DescribeOut ==
  ASSUME IInv, OInv, [Next]_vars, DescribeCache
  PROVE  OInv'
<1>1. PICK s : s = job.shard
  OBVIOUS
<1>2. /\ job.pc = "meta" /\ s \in Shards /\ JobInv /\ Inputs /\ CacheInv /\ RowsInv
      /\ world' = world /\ hub' = hub /\ state' = state /\ db' = db /\ delivered' = delivered
  BY <1>1 DEF DescribeCache, At, IInv, OInv, RowsInv
<1>3. /\ job'.pc = "rows" /\ job'.target = job.target /\ job'.plan = job.plan
      /\ job'.shard = s + 1 /\ job'.rows = job.rows
  BY <1>1, <1>2 DEF DescribeCache, JobInv
<1>4. Len(world.occs) \in Nat /\ Shards = 1 .. Len(world.occs)
  BY <1>2, WorldsAssumption DEF Inputs, WorldOK, Shards
<1>5. Shards' = Shards /\ Unplanned' = Unplanned /\ PlannedRows' = PlannedRows
      /\ \A t : Numbers(t)' = Numbers(t)
  BY <1>2, SameRows DEF Numbers
<1>6. \A t \in Shards : t < s + 1 => t < s \/ t = s
  BY <1>2, <1>4
<1>7. RowsInv'
  BY <1>1, <1>2, <1>3, <1>4, <1>5, <1>6 DEF RowsInv, At
<1>8. CacheInv'
  <2>1. PICK meta : cache' = [cache EXCEPT ![s].meta = meta]
    BY <1>1 DEF DescribeCache
  <2>2. /\ cache' = [t \in Shards |-> [table |-> cache'[t].table, meta |-> cache'[t].meta]]
        /\ \A t \in Shards : cache'[t].table = cache[t].table
    BY <1>2, <2>1 DEF CacheInv
  <2>3. PICK rows, target : rows = PlannedRows /\ target = state
    OBVIOUS
  <2>4. Chosen(rows, target)' = Chosen(rows, target)
    BY <1>2, SameSample
  <2> QED
    BY <1>2, <1>5, <2>2, <2>3, <2>4 DEF CacheInv
<1> QED
  BY <1>2, <1>3, <1>7, <1>8, MaterialOut

-----------------------------------------------------------------------------
(* Delivery.                                                               *)

\* Every candidate has its own row when all shards are materialized.
LEMMA RowsMatched ==
  ASSUME IInv, OInv, job.pc = "rows", job.shard \notin Shards, NEW i \in db.cand
  PROVE  (CHOOSE z \in job.rows : z[1] = i)[2] = i
<1>1. /\ JobInv /\ Inputs /\ RowsInv /\ SelectedInv /\ Unplanned = {}
  BY DEF IInv, OInv, SelectedInv
<1>2. Len(world.occs) \in Nat /\ Shards = 1 .. Len(world.occs)
  BY <1>1, WorldsAssumption DEF Inputs, WorldOK, Shards
<1>3. \A s \in Shards : s < job.shard
  BY <1>1, <1>2 DEF RowsInv
<1>4. i \in Counted
  BY <1>1 DEF SelectedInv, Chosen, Best, Eligible, PlannedRows
<1>5. PICK s \in Shards : i \in Numbers(s)
  BY <1>4 DEF Counted, Planned
<1>6. <<i, i>> \in job.rows /\ \A z \in job.rows : z[1] = z[2]
  BY <1>1, <1>3, <1>5 DEF RowsInv
<1>7. PICK z : z = (CHOOSE y \in job.rows : y[1] = i)
  OBVIOUS
<1>8. z \in job.rows /\ z[1] = i
  BY <1>6, <1>7
<1> QED
  BY <1>6, <1>7, <1>8

\* The rows that are written are the sample of the allocation's target.
LEMMA Written ==
  ASSUME IInv, OInv, WriteSelected
  PROVE  /\ job'.pc = "persist" /\ job'.out.target = job.target
         /\ job'.out.rows = Sample(PlannedRows, job.target)
<1>1. PICK rows, plan, target : rows = PlannedRows /\ plan = job.plan /\ target = job.target
  OBVIOUS
<1>2. PICK chosen : chosen = db.cand
  OBVIOUS
<1>3. /\ job.pc = "rows" /\ job.shard \notin Shards /\ JobInv /\ Inputs /\ Unplanned = {}
      /\ plan = Plan(rows, target) /\ chosen = Chosen(rows, target) /\ target \in Nat
  BY <1>1, <1>2 DEF WriteSelected, At, IInv, OInv, SelectedInv, JobInv
<1>4. Table(rows, world.place) /\ RanksDiffer(world.place)
  BY <1>1, <1>3, RowsTable DEF IInv, Opened, Working
<1>5. PICK queue : queue = [c \in DOMAIN plan.quota |->
                      InOrder(rows, plan.position,
                              {i \in chosen : CellOf(rows, world.place, i) = c})]
  OBVIOUS
<1>6. PICK taken : taken = Dealt(plan.schedule, queue)
  OBVIOUS
<1>7. PICK table : table = [k \in DOMAIN taken |->
                              rows[(CHOOSE z \in job.rows : z[1] = taken[k])[2]].id]
  OBVIOUS
<1>8. job' = [job EXCEPT !.pc = "persist", !.out = Output(table)]
  <2> DEFINE heaps(r) == [c \in DOMAIN job.plan.quota |->
                           InOrder(r, job.plan.position,
                                   {i \in db.cand : CellOf(r, world.place, i) = c})]
             dealt(r) == Dealt(job.plan.schedule, heaps(r))
             written(r) == [k \in DOMAIN dealt(r) |->
                              r[(CHOOSE z \in job.rows : z[1] = dealt(r)[k])[2]].id]
  <2>1. \E r \in {PlannedRows} :
          job' = [job EXCEPT !.pc = "persist", !.out = Output(written(r))]
    BY DEF WriteSelected
  <2>2. dealt(rows) = taken
    BY <1>1, <1>2, <1>5, <1>6
  <2>3. written(rows) = table
    <3> HIDE DEF dealt
    <3> QED
      BY <1>7, <2>2
  <2> HIDE DEF written
  <2> QED
    BY <1>1, <2>1, <2>3
<1>9. job'.pc = "persist" /\ job'.out.target = target /\ job'.out.rows = table
  BY <1>1, <1>3, <1>8 DEF JobInv, Output
<1>10. DOMAIN taken = DOMAIN plan.schedule
  BY <1>6 DEF Dealt
<1>11. ASSUME NEW k \in DOMAIN plan.schedule
       PROVE  table[k] = rows[RowOf(rows, plan.position, plan.schedule[k])].id
  <2>1. PICK turn : turn = plan.schedule[k]
    OBVIOUS
  <2>2. turn \in ToSet(plan.schedule)
    <3>1. DOMAIN plan.schedule = 1 .. Len(plan.schedule)
      BY <1>3, <1>4, PlansGrow
    <3> QED
      BY <2>1, <3>1 DEF ToSet
  <2>3. PICK inCell : inCell = {i \in chosen : CellOf(rows, world.place, i) = turn[1]}
    OBVIOUS
  <2>4. turn[1] \in DOMAIN plan.quota
    BY <1>3, <1>4, <2>2, TurnInQuota
  <2>5. taken[k] = InOrder(rows, plan.position, inCell)[turn[2] + 1]
    BY <1>5, <1>6, <2>1, <2>3, <2>4 DEF Dealt
  <2>6. PICK i : i = RowOf(rows, plan.position, turn)
    OBVIOUS
  <2>7. taken[k] = i /\ i \in chosen
    BY <1>3, <1>4, <2>2, <2>3, <2>5, <2>6, QueueRow
  <2>8. (CHOOSE z \in job.rows : z[1] = i)[2] = i
    BY <1>2, <1>3, <2>7, RowsMatched
  <2> QED
    BY <1>7, <1>10, <2>1, <2>6, <2>7, <2>8
<1>12. table = Sample(rows, target)
  <2>1. Sample(rows, target) = [k \in DOMAIN plan.schedule |->
                                 rows[RowOf(rows, plan.position, plan.schedule[k])].id]
    BY <1>3 DEF Sample
  <2>2. table = [k \in DOMAIN plan.schedule |-> table[k]]
    BY <1>7, <1>10
  <2> QED
    BY <1>11, <2>1, <2>2
<1> QED
  BY <1>1, <1>9, <1>12

\* A step that ends the computation of an allocation, or delivers it.
LEMMA DeliverOut ==
  ASSUME IInv, OInv, [Next]_vars, StreamShards \/ WriteSelected \/ Persist
  PROVE  OInv'
<1>1. /\ world' = world /\ hub' = hub /\ state' = state /\ db' = db /\ cache' = cache
      /\ JobInv /\ Inputs /\ RetainedInv /\ ModeInv /\ OutputInv
  BY DEF StreamShards, WriteSelected, Persist, durable, IInv, OInv
<1>2. RetainedInv' /\ CacheInv'
  BY <1>1, RetainedStep, CacheKept DEF OInv
<1>3. ASSUME NEW out, Delivers(out) PROVE Delivers(out)'
  BY <1>1, <1>3, DeliversStays
<1>4. CASE StreamShards
  <2>1. job.pc = "stream" /\ ~ Sampled /\ delivered' = delivered
    BY <1>1, <1>4 DEF StreamShards, At, ModeInv
  <2>2. job'.pc = "persist" /\ job'.out.target = job.target /\ job'.out.rows = Whole
    BY <1>1, <1>4 DEF StreamShards, JobInv, Output, Whole
  <2>3. PICK out : out = job'.out
    OBVIOUS
  <2>4. Delivers(out)
    BY <1>1, <2>1, <2>2, <2>3 DEF Delivers, JobInv
  <2>5. OutputInv'
    BY <1>1, <1>3, <2>1, <2>3, <2>4 DEF OutputInv
  <2>6. ModeInv' /\ GrowInv' /\ SelectedInv' /\ RowsInv'
    BY <2>2 DEF ModeInv, GrowInv, SelectedInv, RowsInv, At, Working
  <2> QED
    BY <1>2, <2>5, <2>6 DEF OInv
<1>5. CASE WriteSelected
  <2>1. job.pc = "rows" /\ Sampled /\ delivered' = delivered
    BY <1>1, <1>5 DEF WriteSelected, At, ModeInv, Working
  <2>2. job'.pc = "persist" /\ job'.out.target = job.target
        /\ job'.out.rows = Sample(PlannedRows, job.target)
    BY <1>5, Written
  <2>3. PICK out : out = job'.out
    OBVIOUS
  <2>4. db # None /\ Unplanned = {}
    BY <1>1, <2>1, LedgerThere DEF Opened, Working, OInv, SelectedInv
  <2>5. Delivers(out)
    BY <1>1, <2>1, <2>2, <2>3, <2>4 DEF Delivers, JobInv
  <2>6. OutputInv'
    BY <1>1, <1>3, <2>1, <2>3, <2>5 DEF OutputInv
  <2>7. ModeInv' /\ GrowInv' /\ SelectedInv' /\ RowsInv'
    BY <2>2 DEF ModeInv, GrowInv, SelectedInv, RowsInv, At, Working
  <2> QED
    BY <1>2, <2>6, <2>7 DEF OInv
<1>6. CASE Persist
  <2>1. /\ job.pc = "persist" /\ job'.pc = "exit" /\ job'.out = job.out
        /\ delivered' = delivered \cup {job.out}
    BY <1>1, <1>6 DEF Persist, At, Goto, JobInv
  <2>2. PICK out : out = job.out
    OBVIOUS
  <2>3. Delivers(out) /\ \A o \in delivered : Delivers(o)
    BY <1>1, <2>1, <2>2 DEF OutputInv
  <2>4. OutputInv'
    BY <1>3, <2>1, <2>2, <2>3 DEF OutputInv
  <2>5. ModeInv' /\ GrowInv' /\ SelectedInv' /\ RowsInv'
    BY <2>1 DEF ModeInv, GrowInv, SelectedInv, RowsInv, At, Working
  <2> QED
    BY <1>2, <2>4, <2>5 DEF OInv
<1> QED
  BY <1>4, <1>5, <1>6
-----------------------------------------------------------------------------
(* A run that does not sample.                                             *)

\* The occurrences of a run are split over its shards.
LEMMA SplitWorld ==
  ASSUME Inputs
  PROVE  /\ Split(world.occs) /\ Everything = All(world.occs, DOMAIN world.occs)
         /\ Shards = DOMAIN world.occs /\ Shards = 1 .. Len(world.occs) /\ Len(world.occs) \in Nat
<1>1. WorldOK(world)
  BY WorldsAssumption DEF Inputs
<1>2. Split(world.occs)
  BY <1>1 DEF WorldOK, Split
<1> QED
  BY <1>2, SplitWhole DEF Everything, Shards, All

\* All shards finalized one after the other are the finalized table of them all.
LEMMA WholeIs ==
  ASSUME Inputs
  PROVE  /\ Whole = [k \in DOMAIN Finalized(Everything) |-> Finalized(Everything)[k].id]
         /\ Finalized(Everything) = [k \in 1 .. Len(Finalized(Everything)) |-> Finalized(Everything)[k]]
         /\ Len(Finalized(Everything)) = Cardinality(RowsFrom(Everything))
         /\ Cardinality(RowsFrom(Everything)) \in Nat
<1>1. PICK occs, all, seqs, F : /\ occs = world.occs /\ all = Everything
                               /\ seqs = [s \in Shards |-> Finalized(world.occs[s])]
                               /\ F = Finalized(all)
  OBVIOUS
<1>2. Split(occs) /\ all = All(occs, DOMAIN occs)
      /\ seqs = [s \in DOMAIN occs |-> Finalized(occs[s])]
  BY <1>1, SplitWorld
<1>3. FlattenSeq(seqs) = F
  BY ONLY <1>1, <1>2, TablesJoin
<1>4. Whole = [k \in DOMAIN F |-> F[k].id]
  BY <1>1, <1>3 DEF Whole
<1>5. all \in SUBSET OccurrenceType /\ IsFiniteSet(all) /\ Placed(all)
  BY ONLY <1>2, SplitWhole
<1>6. Lists(F, RowsFrom(all))
  BY ONLY <1>1, <1>5, FinalizedLists
<1>7. F = [k \in 1 .. Len(F) |-> F[k]] /\ Len(F) = Cardinality(RowsFrom(all)) /\ Len(F) \in Nat
  BY <1>6 DEF Lists
<1> QED
  BY <1>1, <1>4, <1>7

\* The table of all shards is a sequence.
LEMMA WholeLength ==
  ASSUME Inputs
  PROVE  Len(Whole) \in Nat
<1>1. PICK F : F = Finalized(Everything)
  OBVIOUS
<1>2. /\ Whole = [k \in DOMAIN F |-> F[k].id]
      /\ F = [k \in 1 .. Len(F) |-> F[k]] /\ Len(F) \in Nat
  BY <1>1, WholeIs
<1>3. Len([k \in 1 .. Len(F) |-> F[k].id]) = Len(F)
  BY <1>2
<1> QED
  BY <1>2, <1>3

\* Of what is delivered, the smaller target's is the beginning of the larger's.
LEMMA DeliveredNested ==
  ASSUME IInv, OInv
  PROVE  SamplesNested
<1> SUFFICES ASSUME NEW a \in delivered, NEW b \in delivered, a.target <= b.target
             PROVE  IsPrefix(a.rows, b.rows)
  BY DEF SamplesNested
<1>1. Delivers(a) /\ Delivers(b)
  BY DEF OInv, OutputInv
<1>2. CASE ~ Sampled
  <2>1. PICK table : table = Whole
    OBVIOUS
  <2>2. a.rows = table /\ b.rows = table
    BY <1>1, <1>2, <2>1 DEF Delivers
  <2>3. Len(table) \in Nat
    BY <2>1, WholeLength DEF IInv
  <2> QED
    BY <2>2, <2>3 DEF IsPrefix
<1>3. CASE Sampled
  <2>1. PICK rows, m, n : rows = PlannedRows /\ m = a.target /\ n = b.target
    OBVIOUS
  <2>2. /\ db # None /\ m \in Nat /\ n \in Nat /\ m <= n
        /\ a.rows = Sample(rows, m) /\ b.rows = Sample(rows, n)
    BY <1>1, <1>3, <2>1 DEF Delivers
  <2>3. Table(rows, world.place) /\ RanksDiffer(world.place)
    BY <2>1, <2>2, RowsTable DEF IInv, Opened
  <2> QED
    BY <2>2, <2>3, SampleBegins
<1> QED
  BY <1>2, <1>3

\* Nothing is delivered at first, and every step keeps what is promised.
LEMMA OutInductive ==
  /\ Init => OInv
  /\ IInv /\ OInv /\ [Next]_vars => OInv'
<1>1. ASSUME Init PROVE OInv
  <2>1. job.pc = "down" /\ delivered = {} /\ db = None
    BY <1>1 DEF Init, NoJob
  <2>2. ModeInv /\ GrowInv /\ SelectedInv /\ RowsInv /\ OutputInv
    BY <2>1 DEF ModeInv, GrowInv, SelectedInv, RowsInv, OutputInv, At, Working
  <2>3. RetainedInv
    BY <2>1 DEF RetainedInv, Opened, Working
  <2>4. CacheInv
    BY <1>1 DEF Init, NoCache, CacheInv
  <2> QED
    BY <2>2, <2>3, <2>4 DEF OInv
<1>2. ASSUME IInv, OInv, [Next]_vars PROVE OInv'
  <2>1. CASE (\E t \in Targets : RaiseTarget(t)) \/ Done \/ UNCHANGED vars
    BY <1>2, <2>1, IdleOut
  <2>2. CASE \/ StartJob \/ AcceptOutput \/ Kill \/ OpenState \/ OpenLedger \/ CheckTarget
             \/ WriteState
    BY <1>2, <2>2, BeginOut
  <2>3. CASE StageShard \/ PlanShard \/ BuildPlan \/ LoadHeaps \/ RetainBatch \/ FinishRetaining
    BY <1>2, <2>3, PlanOut
  <2>4. CASE Compact \/ MaterializeShard \/ DescribeCache
    BY <1>2, <2>4, CompactOut, MaterializeOut, DescribeOut
  <2>5. CASE StreamShards \/ WriteSelected \/ Persist
    BY <1>2, <2>5, DeliverOut
  <2> QED
    BY <1>2, <2>1, <2>2, <2>3, <2>4, <2>5 DEF Next, JobStep
<1> QED
  BY <1>1, <1>2

\* Of two outputs of a run the one of the smaller target is the beginning of the
\* other, through any kills and raised targets in between: what labeling.md says of
\* a selection ("the smaller selection is always contained in the larger one")
\* holds of what the resumed allocations of _write_selected deliver.
THEOREM Nested == Spec => []SamplesNested
<1>1. IInv /\ OInv => SamplesNested
  BY DeliveredNested
<1> QED
  BY <1>1, Inductive, OutInductive, PTL DEF Spec
-----------------------------------------------------------------------------
(* The rows behind the ledger are the table of all occurrences.            *)

\* The in-memory selection writes the row of each turn of the schedule.
LEMMA SampleSelected ==
  ASSUME NEW rows, Table(rows, world.place), RanksDiffer(world.place), NEW target \in Nat,
         NEW s, s = Selected(rows, world.place, target)
  PROVE  [k \in DOMAIN s |-> rows[s[k]].id] = Sample(rows, target)
<1>1. PICK plan, sizes, E : /\ plan = Plan(rows, target) /\ sizes = StratumSizes(rows, world.place)
                            /\ E = Eligible(rows, world.place)
  OBVIOUS
<1>2. PICK position, schedule : position = plan.position /\ schedule = plan.schedule
  OBVIOUS
<1>3. /\ Strata(sizes) /\ schedule = Schedule(sizes, target)
      /\ position = Position(PolygonOrder(Seen(rows, world.place)))
  <2>1. Strata(sizes)
    BY <1>1, StrataOf
  <2>2. /\ plan.schedule = Schedule(sizes, target)
        /\ plan.position = Position(PolygonOrder(Seen(rows, world.place)))
    BY <1>1 DEF Plan
  <2> QED
    BY <1>2, <2>1, <2>2
<1>4. PICK queue : queue = [c \in DOMAIN sizes |->
                             InOrder(rows, position, {i \in E : CellOf(rows, world.place, i) = c})]
  OBVIOUS
<1>6. s = Dealt(schedule, queue)
  BY <1>1, <1>3, <1>4 DEF Selected
<1>7. DOMAIN s = DOMAIN schedule
  BY <1>6 DEF Dealt
<1>8. ASSUME NEW k \in DOMAIN schedule PROVE s[k] = RowOf(rows, position, schedule[k])
  <2>1. PICK turn : turn = schedule[k]
    OBVIOUS
  <2>2. turn \in ToSet(schedule)
    <3>1. DOMAIN schedule = 1 .. Len(schedule)
      BY <1>1, <1>2, PlansGrow
    <3> QED
      BY <2>1, <3>1 DEF ToSet
  <2>3. turn \in Turns(sizes)
    BY <1>1, <1>2, <2>2, TurnInQuota
  <2>4. turn[1] \in DOMAIN sizes
    BY <1>3, <2>3, TurnsAre
  <2>5. PICK inCell : inCell = {i \in E : CellOf(rows, world.place, i) = turn[1]}
    OBVIOUS
  <2>6. s[k] = InOrder(rows, position, inCell)[turn[2] + 1]
    BY <1>4, <1>6, <2>1, <2>4, <2>5 DEF Dealt
  <2>7. InOrder(rows, position, inCell)[turn[2] + 1] = RowOf(rows, position, turn)
    BY <1>1, <1>2, <2>2, <2>5, QueueRow
  <2> QED
    BY <2>1, <2>6, <2>7
<1>9. Sample(rows, target) =
        [k \in DOMAIN schedule |-> rows[RowOf(rows, position, schedule[k])].id]
  BY <1>1, <1>2 DEF Sample
<1> QED
  BY <1>7, <1>8, <1>9

\* A sample is of ids of rows.
LEMMA SampleIds ==
  ASSUME NEW rows, Table(rows, world.place), RanksDiffer(world.place), NEW target \in Nat,
         NEW V, \A i \in DOMAIN rows : rows[i].id \in V
  PROVE  Sample(rows, target) \in Seq(V)
<1>1. PICK plan : plan = Plan(rows, target)
  OBVIOUS
<1>2. PICK n : n = Len(plan.schedule)
  OBVIOUS
<1>3. DOMAIN plan.schedule = 1 .. n /\ n \in Nat
  BY <1>1, <1>2, PlansGrow
<1>4. ASSUME NEW k \in 1 .. n
      PROVE  rows[RowOf(rows, plan.position, plan.schedule[k])].id \in V
  <2>1. PICK turn : turn = plan.schedule[k]
    OBVIOUS
  <2>2. turn \in ToSet(plan.schedule)
    BY <1>3, <2>1, <1>2 DEF ToSet
  <2>3. PICK E, inCell : /\ E = Eligible(rows, world.place)
                         /\ inCell = {i \in E : CellOf(rows, world.place, i) = turn[1]}
    OBVIOUS
  <2>4. RowOf(rows, plan.position, turn) \in E
    BY <1>1, <2>2, <2>3, QueueRow
  <2> QED
    BY <2>1, <2>3, <2>4 DEF Eligible
<1>5. Sample(rows, target) =
        [k \in 1 .. n |-> rows[RowOf(rows, plan.position, plan.schedule[k])].id]
  BY <1>1, <1>3 DEF Sample
<1> QED
  BY <1>3, <1>4, <1>5

\* The rows of each shard.
ShardRows == [s \in Shards |-> RowsFrom(world.occs[s])]

\* The shards that are planned are the first ones, and the rows of each are numbered
\* from where those of the shards before it end.
OffsetInv ==
  Opened =>
    \E m \in 0 .. Len(world.occs) :
      /\ Planned = 1 .. m /\ Counted = 1 .. Cardinality(All(ShardRows, 1 .. m))
      /\ \A s \in Planned : db.offset[s] = Cardinality(All(ShardRows, 1 .. (s - 1)))

\* They stay so numbered.
LEMMA OffsetsKept ==
  ASSUME OffsetInv, Opened, world' = world, Planned' = Planned,
         \A s \in Planned : db'.offset[s] = db.offset[s] /\ hub'[s] = hub[s]
  PROVE  OffsetInv'
<1>1. ShardRows' = ShardRows
  BY DEF ShardRows, Shards
<1>2. ASSUME NEW s \in Planned PROVE Numbers(s)' = Numbers(s)
  BY DEF Numbers
<1>3. Counted' = Counted
  BY <1>2 DEF Counted
<1>4. PICK m \in 0 .. Len(world.occs) :
        /\ Planned = 1 .. m /\ Counted = 1 .. Cardinality(All(ShardRows, 1 .. m))
        /\ \A s \in Planned : db.offset[s] = Cardinality(All(ShardRows, 1 .. (s - 1)))
  BY DEF OffsetInv
<1>5. PICK rows : rows = ShardRows
  OBVIOUS
<1>6. /\ Planned' = 1 .. m /\ Counted' = 1 .. Cardinality(All(rows, 1 .. m))
      /\ \A s \in Planned' : db'.offset[s] = Cardinality(All(rows, 1 .. (s - 1)))
  BY <1>3, <1>4, <1>5
<1>7. m \in 0 .. Len(world'.occs) /\ rows = ShardRows'
  BY <1>1, <1>5
<1> QED
  BY <1>6, <1>7 DEF OffsetInv

\* A new ledger has no rows.
LEMMA NoneNumbered ==
  ASSUME Inputs, world' = world, Planned' = {}
  PROVE  OffsetInv'
<1>1. Counted' = {}
  BY DEF Counted
<1>2. PICK rows : rows = ShardRows'
  OBVIOUS
<1>3. All(rows, 1 .. 0) = {}
  BY DEF All
<1>4. Cardinality(All(rows, 1 .. 0)) = 0
  BY <1>3, FS_EmptySet
<1>5. 0 \in 0 .. Len(world'.occs)
  BY SplitWorld
<1>6. Planned' = 1 .. 0 /\ Counted' = 1 .. Cardinality(All(rows, 1 .. 0))
  BY <1>1, <1>4
<1> QED
  BY <1>2, <1>5, <1>6 DEF OffsetInv

\* The next shard to plan is the first after those that are planned.
LEMMA NextPlanned ==
  ASSUME Inputs, Unplanned # {}, NEW m \in 0 .. Len(world.occs), Planned = 1 .. m
  PROVE  Min(Unplanned) = m + 1 /\ m + 1 \in Shards
<1>1. Shards = 1 .. Len(world.occs) /\ Len(world.occs) \in Nat
  BY SplitWorld
<1>2. Unplanned = (m + 1) .. Len(world.occs)
  BY <1>1 DEF Unplanned
<1>3. Unplanned \in SUBSET Nat /\ m + 1 \in Unplanned
  BY <1>1, <1>2
<1>4. Min(Unplanned) \in Unplanned /\ Min(Unplanned) <= m + 1
  BY <1>3, MinIn
<1> QED
  BY <1>1, <1>2, <1>3, <1>4

\* What is planned next is numbered on.
LEMMA NumberedOn ==
  ASSUME IInv, OffsetInv, PlanShard
  PROVE  OffsetInv'
<1>1. /\ Opened /\ Unplanned # {} /\ Inputs /\ world' = world /\ hub' = hub
      /\ hub[Min(Unplanned)] = Finalized(world.occs[Min(Unplanned)])
  BY DEF PlanShard, At, Opened, Working, IInv, CommitInv
<1>2. PICK m \in 0 .. Len(world.occs) :
        /\ Planned = 1 .. m /\ Counted = 1 .. Cardinality(All(ShardRows, 1 .. m))
        /\ \A s \in Planned : db.offset[s] = Cardinality(All(ShardRows, 1 .. (s - 1)))
  BY <1>1 DEF OffsetInv
<1>3. PICK s, rows, before, seq :
        /\ s = m + 1 /\ rows = ShardRows /\ before = Cardinality(All(ShardRows, 1 .. m))
        /\ seq = Finalized(world.occs[s])
  OBVIOUS
<1>4. Min(Unplanned) = s /\ s \in Shards /\ s - 1 = m /\ m \in Nat
  BY <1>1, <1>2, <1>3, NextPlanned, SplitWorld
<1>5. /\ before \in Nat /\ Len(seq) \in Nat
      /\ Cardinality(All(rows, 1 .. s)) = before + Len(seq)
  <2>1. PICK occs, all : occs = world.occs /\ all = Everything
    OBVIOUS
  <2>2. /\ Split(occs) /\ all = All(occs, DOMAIN occs) /\ s \in DOMAIN occs
        /\ rows = [t \in DOMAIN occs |-> RowsFrom(occs[t])]
        /\ before = Cardinality(All(rows, 1 .. (s - 1))) /\ seq = Finalized(occs[s])
    BY <1>1, <1>3, <1>4, <2>1, SplitWorld DEF ShardRows
  <2>3. before \in Nat /\ Cardinality(All(rows, 1 .. s)) = before + Len(seq)
    BY ONLY <2>2, Concatenated
  <2>4. PICK part : part = occs[s]
    OBVIOUS
  <2>5. part \in SUBSET OccurrenceType /\ IsFiniteSet(part) /\ Placed(part)
    BY ONLY <2>2, <2>4 DEF Split
  <2>6. Lists(seq, RowsFrom(part))
    BY ONLY <2>2, <2>4, <2>5, FinalizedLists
  <2> QED
    BY <2>3, <2>6 DEF Lists
<1>6. PICK n \in Nat : n = Cardinality(Counted)
  <2>1. Cardinality(1 .. before) \in Nat
    <3>1. 1 \in Int /\ before \in Int
      BY <1>5
    <3> QED
      BY <3>1, FS_Interval, FS_CardinalityType
  <2> QED
    BY <1>2, <1>3, <2>1
<1>7. n = before
  <2>1. 1 \in Int /\ before \in Int /\ before - 1 + 1 = before
    BY <1>5
  <2>2. Cardinality(1 .. before) = IF 1 > before THEN 0 ELSE before - 1 + 1
    BY <2>1, FS_Interval
  <2> QED
    BY <1>2, <1>3, <1>5, <1>6, <2>1, <2>2
<1>8. /\ db'.offset = [db.offset EXCEPT ![s] = n]
      /\ db.offset \in [Shards -> Nat \cup {None}]
  <2>1. db' = [db EXCEPT !.offset[s] = n]
    BY <1>4, <1>6 DEF PlanShard
  <2>2. /\ db = [offset |-> db.offset, kept |-> db.kept, retained |-> db.retained, cand |-> db.cand]
        /\ db.offset \in [Shards -> Nat \cup {None}]
    BY <1>1 DEF IInv, LedgerInv
  <2> QED
    BY <2>1, <2>2
<1>9. db'.offset[s] = n /\ \A t \in Shards : t # s => db'.offset[t] = db.offset[t]
  BY <1>4, <1>8
<1>10. Planned' = 1 .. s /\ Shards' = Shards
  <2>1. Shards' = Shards
    BY <1>1 DEF Shards
  <2>2. Planned' = Planned \cup {s}
    BY <1>4, <1>6, <1>9, <2>1, NoneAssumption DEF Planned
  <2>3. (1 .. m) \cup {s} = 1 .. s
    BY <1>3, <1>4
  <2> QED
    BY <1>2, <2>1, <2>2, <2>3
<1>11. Counted' = 1 .. Cardinality(All(rows, 1 .. s))
  <2>1. \A t \in Planned : t \in Shards /\ t # s
    BY <1>2, <1>3, <1>4 DEF Planned
  <2>2. ASSUME NEW t \in Planned PROVE Numbers(t)' = Numbers(t)
    BY <1>1, <1>9, <2>1 DEF Numbers
  <2>3. Numbers(s)' = {before + i : i \in 1 .. Len(seq)}
    BY <1>1, <1>3, <1>4, <1>7, <1>9 DEF Numbers
  <2>4. Planned' = Planned \cup {s}
    BY <1>2, <1>3, <1>4, <1>10
  <2>5. Counted' = Counted \cup Numbers(s)'
    BY <2>2, <2>4 DEF Counted
  <2>6. (1 .. before) \cup {before + i : i \in 1 .. Len(seq)} = 1 .. (before + Len(seq))
    <3>1. ASSUME NEW k \in 1 .. (before + Len(seq)), k \notin 1 .. before
          PROVE  k \in {before + i : i \in 1 .. Len(seq)}
      <4>1. k - before \in 1 .. Len(seq) /\ before + (k - before) = k
        BY <1>5, <3>1
      <4> QED
        BY <4>1
    <3>2. \A i \in 1 .. Len(seq) : before + i \in 1 .. (before + Len(seq))
      BY <1>5
    <3>3. 1 .. before \subseteq 1 .. (before + Len(seq))
      BY <1>5
    <3> QED
      BY <3>1, <3>2, <3>3
  <2> QED
    BY <1>2, <1>3, <1>5, <2>3, <2>5, <2>6
<1>12. \A t \in 1 .. s : db'.offset[t] = Cardinality(All(rows, 1 .. (t - 1)))
  <2>1. \A t \in 1 .. s : t = s \/ t \in 1 .. m
    BY <1>3, <1>4
  <2>2. \A t \in 1 .. m : t \in Shards /\ t # s
    BY <1>2, <1>3, <1>4 DEF Planned
  <2>3. db'.offset[s] = Cardinality(All(rows, 1 .. (s - 1)))
    BY <1>3, <1>4, <1>7, <1>9
  <2>4. \A t \in 1 .. m : db'.offset[t] = Cardinality(All(rows, 1 .. (t - 1)))
    BY <1>2, <1>3, <1>9, <2>2
  <2> QED
    BY <2>1, <2>3, <2>4
<1>13. s \in 0 .. Len(world'.occs) /\ ShardRows' = rows
  <2>1. s \in 0 .. Len(world.occs)
    BY <1>1, <1>4, SplitWorld
  <2> QED
    BY <1>1, <1>3, <2>1 DEF ShardRows, Shards
<1> QED
  BY <1>10, <1>11, <1>12, <1>13 DEF OffsetInv

\* Every step keeps the rows numbered.
LEMMA OffsetStep ==
  ASSUME IInv, OffsetInv, [Next]_vars
  PROVE  OffsetInv'
<1>1. JobInv /\ Inputs
  BY DEF IInv
<1>2. CASE \/ \E t \in Targets : RaiseTarget(t)
           \/ StartJob \/ AcceptOutput \/ Kill \/ StreamShards \/ OpenState \/ WriteState
           \/ BuildPlan \/ MaterializeShard \/ DescribeCache \/ WriteSelected \/ Persist
           \/ UNCHANGED vars \/ Done
  <2>1. world' = world /\ hub' = hub /\ db' = db /\ (Opened' => Opened)
    BY <1>1, <1>2, Unwritten
  <2>2. CASE Opened
    <3>1. Planned' = Planned
      BY <2>1 DEF Planned, Shards
    <3> QED
      BY <2>1, <2>2, <3>1, OffsetsKept
  <2>3. CASE ~ Opened
    BY <2>1, <2>3 DEF OffsetInv
  <2> QED
    BY <2>2, <2>3
<1>3. CASE OpenLedger
  <2>1. world' = world /\ hub' = hub
    BY <1>3 DEF OpenLedger
  <2>2. CASE db = None
    <3>1. db'.offset = [s \in Shards |-> None] /\ Shards' = Shards
      BY <1>3, <2>1, <2>2 DEF OpenLedger, EmptyLedger, Shards
    <3>2. Planned' = {}
      BY <3>1 DEF Planned
    <3> QED
      BY <1>1, <2>1, <3>2, NoneNumbered
  <2>3. CASE db # None
    <3>1. Opened /\ db' = db /\ Planned' = Planned
      BY <1>3, <2>1, <2>3 DEF OpenLedger, Opened, Planned, Shards
    <3> QED
      BY <2>1, <3>1, OffsetsKept
  <2> QED
    BY <2>2, <2>3
<1>4. CASE StageShard
  <2>1. Opened /\ world' = world /\ db' = db /\ Unplanned # {}
    BY <1>4 DEF StageShard, At, Opened, Working
  <2>2. PICK s \in Shards : s = Min(Unplanned) /\ s \notin Planned
    BY <1>1, <2>1, NextUnplanned
  <2>3. \A t \in Shards : t # s => hub'[t] = hub[t]
    BY <1>4, <2>2 DEF StageShard, Upload, IInv, HubInv
  <2>4. Planned' = Planned /\ Planned \subseteq Shards
    BY <2>1 DEF Planned, Shards
  <2> QED
    BY <2>1, <2>2, <2>3, <2>4, OffsetsKept
<1>5. CASE PlanShard
  BY <1>5, NumberedOn
<1>6. CASE CheckTarget \/ LoadHeaps \/ RetainBatch \/ FinishRetaining \/ Compact
  <2>1. /\ world' = world /\ hub' = hub /\ Opened
    BY <1>6 DEF CheckTarget, LoadHeaps, RetainBatch, FinishRetaining, Compact, At, Opened, Working
  <2>2. db = [offset |-> db.offset, kept |-> db.kept, retained |-> db.retained, cand |-> db.cand]
    BY <2>1 DEF IInv, LedgerInv
  <2>3. db'.offset = db.offset
    BY <1>6, <2>2 DEF CheckTarget, Cleared, LoadHeaps, RetainBatch, FinishRetaining, Compact
  <2>4. Planned' = Planned
    BY <2>1, <2>3 DEF Planned, Shards
  <2> QED
    BY <2>1, <2>3, <2>4, OffsetsKept
<1> QED
  BY <1>2, <1>3, <1>4, <1>5, <1>6 DEF Next, JobStep

\* The rows behind the ledger are among those of one table of all occurrences.
LEMMA RowsPlaced ==
  ASSUME IInv, OffsetInv, Opened, NEW k \in Counted
  PROVE  /\ k \in 1 .. Cardinality(RowsFrom(Everything))
         /\ PlannedRows[k] = Finalized(Everything)[k]
<1>1. PICK occs, all, rows : occs = world.occs /\ all = Everything /\ rows = ShardRows
  OBVIOUS
<1>2. /\ Split(occs) /\ all = All(occs, DOMAIN occs) /\ Shards = DOMAIN occs /\ Inputs
      /\ rows = [t \in DOMAIN occs |-> RowsFrom(occs[t])]
  BY <1>1, SplitWorld DEF ShardRows, IInv
<1>3. PICK s : s = ShardOf(k) /\ s \in Planned /\ k \in Numbers(s)
  BY DEF Counted, ShardOf
<1>4. s \in Shards /\ hub[s] = Finalized(occs[s]) /\ db.offset[s] = Cardinality(All(rows, 1 .. (s - 1)))
  BY <1>1, <1>3 DEF OffsetInv, IInv, LedgerInv, Planned
<1>5. PICK before, seq : before = db.offset[s] /\ seq = Finalized(occs[s])
  OBVIOUS
<1>6. PICK i \in 1 .. Len(seq) : k = before + i
  BY <1>3, <1>4, <1>5 DEF Numbers
<1>7. /\ before \in Nat
      /\ \A j \in 1 .. Len(Finalized(occs[s])) :
           /\ before + j \in 1 .. Cardinality(RowsFrom(all))
           /\ Finalized(all)[before + j] = Finalized(occs[s])[j]
  <2>1. before = Cardinality(All(rows, 1 .. (s - 1))) /\ s \in DOMAIN occs
    BY <1>2, <1>4, <1>5
  <2> QED
    BY ONLY <1>2, <2>1, Concatenated
<1>8. k \in 1 .. Cardinality(RowsFrom(all)) /\ Finalized(all)[k] = seq[i]
  BY <1>5, <1>6, <1>7
<1>9. PlannedRows[k] = seq[i]
  <2>1. k - before = i
    <3>1. i \in Int
      BY <1>6
    <3> QED
      BY <1>6, <1>7, <3>1
  <2> QED
    BY <1>3, <1>4, <1>5, <2>1 DEF PlannedRows
<1> QED
  BY <1>1, <1>8, <1>9

\* When all shards are planned they are that table.
LEMMA RowsWhole ==
  ASSUME IInv, OffsetInv, Opened, Unplanned = {}
  PROVE  PlannedRows = Finalized(Everything)
<1>1. PICK occs, all, rows, N : /\ occs = world.occs /\ all = Everything /\ rows = ShardRows
                               /\ N = Len(world.occs)
  OBVIOUS
<1>2. /\ Split(occs) /\ all = All(occs, DOMAIN occs) /\ Shards = 1 .. N /\ N \in Nat
      /\ DOMAIN occs = 1 .. N /\ rows = [t \in DOMAIN occs |-> RowsFrom(occs[t])]
  BY <1>1, SplitWorld DEF ShardRows, IInv
<1>3. PICK m \in 0 .. N : Planned = 1 .. m /\ Counted = 1 .. Cardinality(All(rows, 1 .. m))
  BY <1>1 DEF OffsetInv
<1>4. Planned = 1 .. N
  BY <1>2 DEF Unplanned, Planned
<1>5. m = N
  <2>1. N # 0 => N \in 1 .. N
    BY <1>2
  <2>2. m # 0 => m \in 1 .. m
    OBVIOUS
  <2> QED
    BY <1>2, <1>3, <1>4, <2>1, <2>2
<1>6. All(rows, 1 .. N) = RowsFrom(all)
  <2>1. RowsFrom(all) = All(rows, DOMAIN rows)
    BY ONLY <1>2, SplitRows
  <2> QED
    BY <1>2, <2>1
<1>7. PICK F : F = Finalized(all)
  OBVIOUS
<1>8. /\ F = [k \in 1 .. Len(F) |-> F[k]] /\ Len(F) = Cardinality(RowsFrom(all))
  BY <1>1, <1>7, WholeIs DEF IInv
<1>9. Counted = 1 .. Len(F)
  BY <1>3, <1>5, <1>6, <1>8
<1>10. PICK table : table = PlannedRows
  OBVIOUS
<1>11. \A k \in Counted : table[k] = F[k]
  BY <1>1, <1>7, <1>10, RowsPlaced
<1>12. table = [k \in Counted |-> table[k]]
  BY <1>10 DEF PlannedRows
<1>13. table = F
  BY <1>8, <1>9, <1>11, <1>12
<1> QED
  BY <1>1, <1>7, <1>10, <1>13

-----------------------------------------------------------------------------
(* The counters stay within the shards.                                    *)

\* The table staged for a shard is a sequence.
LEMMA StagedLength ==
  ASSUME Inputs, NEW s \in Shards
  PROVE  Len(Finalized(world.occs[s])) \in Nat
<1>1. PICK part : part = world.occs[s]
  OBVIOUS
<1>2. part \in SUBSET OccurrenceType /\ IsFiniteSet(part) /\ Placed(part)
  BY <1>1, ShardNumbers
<1>3. Lists(Finalized(part), RowsFrom(part))
  BY ONLY <1>2, FinalizedLists
<1> QED
  BY <1>1, <1>3 DEF Lists

\* No shard is scanned beyond its end.
KeptInv == Opened => \A s \in Planned : db.kept[s] <= Len(hub[s])

\* A batch ends where its shard does.
LEMMA KeptStep ==
  ASSUME IInv, KeptInv, [Next]_vars
  PROVE  KeptInv'
<1>1. JobInv /\ Inputs
  BY DEF IInv
<1>2. CASE \/ \E t \in Targets : RaiseTarget(t)
           \/ StartJob \/ AcceptOutput \/ Kill \/ StreamShards \/ OpenState \/ WriteState
           \/ BuildPlan \/ MaterializeShard \/ DescribeCache \/ WriteSelected \/ Persist
           \/ UNCHANGED vars \/ Done
  <2>1. world' = world /\ hub' = hub /\ db' = db /\ (Opened' => Opened)
    BY <1>1, <1>2, Unwritten
  <2>2. Planned' = Planned
    BY <2>1 DEF Planned, Shards
  <2> QED
    BY <2>1, <2>2 DEF KeptInv
<1>3. CASE OpenLedger
  <2>1. world' = world /\ hub' = hub
    BY <1>3 DEF OpenLedger
  <2>2. CASE db = None
    <3>1. db'.offset = [s \in Shards |-> None] /\ Shards' = Shards
      BY <1>3, <2>1, <2>2 DEF OpenLedger, EmptyLedger, Shards
    <3>2. Planned' = {}
      BY <3>1 DEF Planned
    <3> QED
      BY <3>2 DEF KeptInv
  <2>3. CASE db # None
    <3>1. Opened /\ db' = db /\ Planned' = Planned
      BY <1>3, <2>1, <2>3 DEF OpenLedger, Opened, Planned, Shards
    <3> QED
      BY <2>1, <3>1 DEF KeptInv
  <2> QED
    BY <2>2, <2>3
<1>4. ASSUME CheckTarget \/ StageShard \/ PlanShard \/ LoadHeaps \/ RetainBatch
             \/ FinishRetaining \/ Compact
      PROVE  /\ Opened /\ world' = world /\ Shards' = Shards
             /\ db = [offset |-> db.offset, kept |-> db.kept, retained |-> db.retained, cand |-> db.cand]
             /\ db.offset \in [Shards -> Nat \cup {None}] /\ db.kept \in [Shards -> Nat]
             /\ \A s \in Planned : /\ s \in Shards /\ db.kept[s] <= Len(hub[s])
                                   /\ hub[s] = Finalized(world.occs[s])
  <2>1. Opened /\ world' = world
    BY <1>4 DEF CheckTarget, StageShard, PlanShard, LoadHeaps, RetainBatch, FinishRetaining,
                Compact, At, Opened, Working
  <2> QED
    BY <2>1 DEF IInv, LedgerInv, KeptInv, Shards, Planned
<1>5. IInv'
  BY Inductive
<1>6. ASSUME \A s \in Shards : db'.kept[s] = 0
      PROVE  KeptInv'
  <2>1. SUFFICES ASSUME Opened', NEW s \in Planned' PROVE db'.kept[s] <= Len(hub'[s])
    BY DEF KeptInv
  <2>2. hub'[s] = Finalized(world'.occs[s]) /\ s \in Shards'
    BY <1>5, <2>1 DEF IInv, LedgerInv, Planned
  <2>3. world' = world /\ Shards' = Shards
    <3>1. world' = world
      BY DEF Next, JobStep, RaiseTarget, StartJob, AcceptOutput, Kill, StreamShards, OpenState,
             OpenLedger, CheckTarget, WriteState, StageShard, PlanShard, BuildPlan, LoadHeaps,
             RetainBatch, FinishRetaining, Compact, MaterializeShard, DescribeCache,
             WriteSelected, Persist, Done, vars
    <3> QED
      BY <3>1 DEF Shards
  <2>4. Len(hub'[s]) \in Nat
    BY <1>1, <2>2, <2>3, StagedLength
  <2> QED
    BY <1>6, <2>2, <2>3, <2>4
<1>7. CASE CheckTarget
  <2>1. hub' = hub
    BY <1>7 DEF CheckTarget
  <2>2. CASE db' = db
    BY <1>4, <1>7, <2>1, <2>2 DEF KeptInv, Planned
  <2>3. CASE db' = Cleared(db)
    <3>1. db'.kept = [s \in Shards |-> 0]
      BY <1>4, <1>7, <2>3 DEF Cleared
    <3> QED
      BY <1>6, <3>1
  <2> QED
    BY <1>7, <2>2, <2>3 DEF CheckTarget
<1>8. CASE StageShard
  <2>1. PICK s \in Shards : s = Min(Unplanned) /\ s \notin Planned
    BY <1>1, <1>8, NextUnplanned DEF StageShard
  <2>2. db' = db /\ \A t \in Shards : t # s => hub'[t] = hub[t]
    BY <1>8, <2>1 DEF StageShard, Upload, IInv, HubInv
  <2>3. Planned' = Planned /\ Planned \subseteq Shards
    BY <1>4, <1>8, <2>2 DEF Planned
  <2> QED
    BY <1>4, <1>8, <2>1, <2>2, <2>3 DEF KeptInv
<1>9. CASE PlanShard
  <2>1. Fresh
    BY <1>9 DEF PlanShard, IInv, CommitInv, FreshInv, At, Opened, Working
  <2>2. PICK s, n : s = Min(Unplanned) /\ n = Cardinality(Counted)
    OBVIOUS
  <2>3. db' = [db EXCEPT !.offset[s] = n]
    BY <1>9, <2>2 DEF PlanShard
  <2>4. db'.kept = db.kept
    BY <1>4, <1>9, <2>3
  <2> QED
    BY <1>6, <2>1, <2>4 DEF Fresh
<1>10. CASE LoadHeaps \/ Compact \/ FinishRetaining
  <2>1. hub' = hub /\ db'.offset = db.offset /\ db'.kept = db.kept
    BY <1>4, <1>10 DEF LoadHeaps, Compact, FinishRetaining
  <2>2. Planned' = Planned
    BY <1>4, <1>10, <2>1 DEF Planned
  <2> QED
    BY <1>4, <1>10, <2>1, <2>2 DEF KeptInv
<1>11. CASE RetainBatch
  <2>1. PICK s : s = Min(Unretained)
    OBVIOUS
  <2>2. s \in Shards
    <3>1. Unretained \in SUBSET Nat /\ Unretained # {}
      BY <1>1, <1>11, ShardNumbers DEF RetainBatch, Unretained
    <3> QED
      BY <2>1, <3>1, MinIn DEF Unretained
  <2>3. PICK n, cand : n = BatchEnd(s) /\ db' = [db EXCEPT !.cand = cand, !.kept[s] = n]
    BY <1>11, <2>1 DEF RetainBatch
  <2>4. hub' = hub
    BY <1>11 DEF RetainBatch
  <2>5. db'.offset = db.offset /\ db'.kept = [db.kept EXCEPT ![s] = n]
    BY <1>4, <1>11, <2>3
  <2>6. Planned' = Planned
    BY <1>4, <1>11, <2>5 DEF Planned
  <2>7. s \in Planned => n <= Len(hub[s])
    <3>1. SUFFICES ASSUME s \in Planned PROVE n <= Len(hub[s])
      OBVIOUS
    <3>2. Len(hub[s]) \in Nat /\ db.kept[s] + BatchSize \in Nat
      BY <1>1, <1>4, <1>11, <2>2, <3>1, StagedLength, BatchAssumption
    <3>3. PICK S : S = {db.kept[s] + BatchSize, Len(hub[s])}
      OBVIOUS
    <3>4. S \in SUBSET Nat /\ S # {} /\ Len(hub[s]) \in S /\ n = Min(S)
      BY <2>3, <3>2, <3>3 DEF BatchEnd
    <3> QED
      BY <3>4, MinIn
  <2>8. \A t \in Shards : db'.kept[t] = IF t = s THEN n ELSE db.kept[t]
    BY <1>4, <1>11, <2>2, <2>5
  <2> QED
    BY <1>4, <1>11, <2>4, <2>6, <2>7, <2>8 DEF KeptInv
<1> QED
  BY <1>2, <1>3, <1>7, <1>8, <1>9, <1>10, <1>11 DEF Next, JobStep

-----------------------------------------------------------------------------
(* The ranges of the targets, the heaps and the reports.                   *)

\* There are finitely many occurrences, at most as many rows, and the report counts them.
LEMMA RowsBound ==
  ASSUME Inputs
  PROVE  /\ Cardinality(Everything) \in Nat /\ Cardinality(RowsFrom(Everything)) \in Nat
         /\ Cardinality(RowsFrom(Everything)) <= Cardinality(Everything)
         /\ 1 .. Cardinality(RowsFrom(Everything)) \subseteq Rows
         /\ IsFiniteSet(RowsFrom(Everything)) /\ Report(Everything).input \in Nat
         /\ Report(Everything).output \in Nat /\ Report(Everything).removed \in Nat
         /\ Report(Everything).crossSource \in Nat
<1>1. PICK occs, all : occs = world.occs /\ all = Everything
  OBVIOUS
<1>2. Split(occs) /\ all = All(occs, DOMAIN occs)
  BY <1>1, SplitWorld
<1>3. IsFiniteSet(all)
  BY ONLY <1>2, SplitWhole
<1>4. PICK groups, rows : groups = DedupGroups(all) /\ rows = RowsFrom(all)
  OBVIOUS
<1> DEFINE group == [o \in all |-> {p \in all : SentenceId(p) = SentenceId(o)}]
           row == [g \in groups |-> OutputRow(all, g)]
<1>5. group \in Surjection(all, groups)
  BY <1>4 DEF Surjection, DedupGroups
<1>6. row \in Surjection(groups, rows)
  BY <1>4 DEF Surjection, RowsFrom
<1> HIDE DEF group, row
<1>7. IsFiniteSet(groups) /\ Cardinality(groups) <= Cardinality(all)
  BY <1>3, <1>5, FS_Surjection
<1>8. IsFiniteSet(rows) /\ Cardinality(rows) <= Cardinality(groups)
  BY <1>6, <1>7, FS_Surjection
<1>9. Cardinality(all) \in Nat /\ Cardinality(groups) \in Nat /\ Cardinality(rows) \in Nat
  BY <1>3, <1>7, <1>8, FS_CardinalityType
<1>10. PICK report, cross :
         /\ report = Report(all)
         /\ cross = {g \in groups : {"wikipedia", "wikivoyage"} \subseteq {p.source : p \in g}}
  OBVIOUS
<1>11. Cardinality(cross) \in Nat
  <2>1. cross \in SUBSET groups
    BY <1>10
  <2> QED
    BY <1>7, <2>1, FS_Subset, FS_CardinalityType
<1>12. /\ report.input = Cardinality(all) /\ report.output = Cardinality(groups)
       /\ report.removed = Cardinality(all) - Cardinality(groups)
       /\ report.crossSource = Cardinality(cross)
  BY <1>4, <1>10 DEF Report
<1>13. Cardinality(all) - Cardinality(groups) \in Nat
  BY <1>7, <1>9
<1> QED
  BY <1>1, <1>4, <1>7, <1>8, <1>9, <1>10, <1>11, <1>12, <1>13 DEF Rows

\* The rows of the ledger are among them.
LEMMA RowsIn ==
  ASSUME IInv, OffsetInv, Opened
  PROVE  Counted \subseteq Rows /\ db.cand \subseteq Counted
<1>1. Counted \subseteq Rows
  BY RowsPlaced, RowsBound DEF IInv
<1>2. CASE state = None \/ Unplanned # {}
  BY <1>1, <1>2 DEF IInv, FreshInv, Fresh
<1>3. CASE ~ (state = None \/ Unplanned # {})
  <2>1. PICK rows : rows = PlannedRows
    OBVIOUS
  <2>2. db.cand \subseteq Scanned(rows)
    BY <1>3, <2>1 DEF IInv, CoversInv, Covers
  <2>3. Scanned(rows) \subseteq DOMAIN rows
    BY DEF Scanned, Located, Eligible
  <2>4. DOMAIN rows = Counted
    BY <2>1 DEF PlannedRows
  <2> QED
    BY <1>1, <2>2, <2>3, <2>4
<1> QED
  BY <1>2, <1>3

\* A run has the target it began with or one it was raised to, and its heaps and
\* shards are those of the input.
RunTargets == {world.target} \cup Targets
RangeInv ==
  /\ budget \in RunTargets /\ state \in {None} \cup RunTargets
  /\ ~At("down") => job.target \in RunTargets
  /\ job.pc \in Points /\ job.shard \in 1 .. (Len(world.occs) + 1) /\ job.heap \subseteq Rows
  /\ kills \in 0 .. MaxKills

\* An allocation that is done has the report of all shards, and what the operator
\* recorded was renamed into place.
Totals == TotalReport([s \in Shards |-> Report(world.occs[s])])
ReportInv ==
  /\ IF job.pc \in {"persist", "exit"}
       THEN job.out = [target |-> job.target, rows |-> job.out.rows, total |-> Totals]
       ELSE job.out = None
  /\ At("exit") => job.out \in delivered
  /\ accepted = None \/ accepted \in delivered

\* The steps that work towards an output.
Toils ==
  \/ OpenState \/ OpenLedger \/ CheckTarget \/ WriteState
  \/ StageShard \/ PlanShard \/ BuildPlan \/ LoadHeaps \/ RetainBatch \/ FinishRetaining
  \/ Compact \/ MaterializeShard \/ DescribeCache

\* They are taken by a running allocation without an output.
LEMMA ToilsAre ==
  ASSUME JobInv, Toils
  PROVE  /\ job.pc \in Working \cup {"open", "ledger"}
         /\ world' = world /\ budget' = budget /\ delivered' = delivered
         /\ accepted' = accepted /\ kills' = kills
         /\ \/ job' = NoJob
            \/ /\ job'.pc \in Working \cup {"open", "ledger"}
               /\ job'.target = job.target /\ job'.out = job.out
         /\ job'.heap = {} \/ job'.heap = job.heap \/ LoadHeaps \/ RetainBatch
         /\ job'.shard = 1 \/ job'.shard = job.shard \/ DescribeCache
              \/ (job.shard \in Shards /\ job'.shard = job.shard + 1)
<1>1. CASE OpenState
  BY <1>1 DEF OpenState, At, Goto, JobInv, Working, NoJob
<1>2. CASE OpenLedger \/ CheckTarget \/ WriteState \/ StageShard \/ PlanShard
  BY <1>2 DEF OpenLedger, CheckTarget, WriteState, StageShard, PlanShard, At, Goto, JobInv,
              Working, durable
<1>3. CASE BuildPlan
  <2>1. PICK plan : job' = [job EXCEPT !.pc = "build", !.plan = plan]
    BY <1>3 DEF BuildPlan
  <2> QED
    BY <1>3, <2>1 DEF BuildPlan, At, JobInv, Working
<1>4. CASE LoadHeaps
  <2>1. PICK best : job' = [job EXCEPT !.pc = "retain", !.heap = best]
    BY <1>4 DEF LoadHeaps
  <2> QED
    BY <1>4, <2>1 DEF LoadHeaps, At, JobInv, Working
<1>5. CASE RetainBatch
  <2>1. PICK heap : job' = [job EXCEPT !.heap = heap]
    BY <1>5 DEF RetainBatch
  <2> QED
    BY <1>5, <2>1 DEF RetainBatch, At, JobInv, Working
<1>6. CASE FinishRetaining \/ Compact
  BY <1>6 DEF FinishRetaining, Compact, At, Goto, JobInv, Working
<1>7. CASE MaterializeShard
  <2>1. PICK rows : \/ job' = [job EXCEPT !.shard = job.shard + 1, !.rows = rows]
                    \/ job' = [job EXCEPT !.pc = "meta", !.rows = rows]
    BY <1>7 DEF MaterializeShard
  <2> QED
    BY <1>7, <2>1 DEF MaterializeShard, At, JobInv, Working
<1>8. CASE DescribeCache
  BY <1>8 DEF DescribeCache, At, JobInv, Working
<1> QED
  BY <1>1, <1>2, <1>3, <1>4, <1>5, <1>6, <1>7, <1>8 DEF Toils

\* A heap has rows of the input.
LEMMA HeapsIn ==
  ASSUME IInv, OffsetInv, job.heap \subseteq Rows, LoadHeaps \/ RetainBatch
  PROVE  job'.heap \subseteq Rows
<1>1. JobInv /\ Opened /\ Counted \subseteq Rows /\ db.cand \subseteq Counted
  BY RowsIn DEF IInv, LoadHeaps, RetainBatch, At, Opened, Working
<1>2. CASE LoadHeaps
  <2>1. PICK best : best = Best(PlannedRows, job.plan, db.cand)
    OBVIOUS
  <2>2. job' = [job EXCEPT !.pc = "retain", !.heap = best]
    BY <1>2, <2>1 DEF LoadHeaps
  <2>3. best \subseteq db.cand
    BY <2>1 DEF Best
  <2> QED
    BY <1>1, <2>2, <2>3 DEF JobInv
<1>3. CASE RetainBatch
  <2>1. PICK rows, s : rows = PlannedRows /\ s = Min(Unretained)
    OBVIOUS
  <2>2. PICK batch : batch = Batch(rows, s)
    OBVIOUS
  <2>3. PICK heap : heap = Best(rows, job.plan, job.heap \cup batch)
    OBVIOUS
  <2>4. job' = [job EXCEPT !.heap = heap]
    BY <1>3, <2>1, <2>2, <2>3 DEF RetainBatch
  <2>5. heap \subseteq job.heap \cup batch
    BY <2>3 DEF Best
  <2>6. batch \subseteq DOMAIN rows
    BY <2>2 DEF Batch, Located, Eligible
  <2>7. DOMAIN rows = Counted
    BY <2>1 DEF PlannedRows
  <2> QED
    BY <1>1, <2>4, <2>5, <2>6, <2>7 DEF JobInv
<1> QED
  BY <1>2, <1>3

\* The input stays.
LEMMA SameInput ==
  ASSUME [Next]_vars
  PROVE  /\ world' = world /\ Shards' = Shards /\ Everything' = Everything /\ Rows' = Rows
         /\ Totals' = Totals /\ RunTargets' = RunTargets
<1>1. world' = world
  BY DEF Next, JobStep, RaiseTarget, StartJob, AcceptOutput, Kill, StreamShards, OpenState,
         OpenLedger, CheckTarget, WriteState, StageShard, PlanShard, BuildPlan, LoadHeaps,
         RetainBatch, FinishRetaining, Compact, MaterializeShard, DescribeCache,
         WriteSelected, Persist, Done, vars
<1> QED
  BY <1>1 DEF Shards, Everything, Rows, Totals, RunTargets

\* Every step keeps the ranges.
LEMMA RangeStep ==
  ASSUME IInv, OInv, OffsetInv, RangeInv, [Next]_vars
  PROVE  RangeInv'
<1>1. /\ JobInv /\ Inputs /\ Len(world.occs) \in Nat /\ Shards = 1 .. Len(world.occs)
  BY SplitWorld DEF IInv
<1>2. world' = world /\ Rows' = Rows /\ RunTargets' = RunTargets
  BY SameInput
<1>3. /\ NoJob.pc = "down" /\ NoJob.shard = 1 /\ NoJob.heap = {} /\ NoJob.target = 0
  BY DEF NoJob
<1>4. 1 \in 1 .. (Len(world.occs) + 1) /\ "down" \in Points /\ MaxKills \in Nat
  BY <1>1, KillsAssumption DEF Points
<1>5. CASE (\E t \in Targets : RaiseTarget(t)) \/ Done \/ UNCHANGED vars
  <2>1. /\ job' = job /\ state' = state /\ kills' = kills
        /\ budget' = budget \/ budget' \in Targets
    BY <1>5 DEF RaiseTarget, Done, vars, durable
  <2> QED
    BY <1>2, <2>1 DEF RangeInv, RunTargets, At
<1>6. CASE StartJob
  <2>1. /\ job' = [NoJob EXCEPT !.pc = IF Sampled THEN "open" ELSE "stream", !.target = budget]
        /\ state' = state /\ kills' = kills /\ budget' = budget
    BY <1>6 DEF StartJob, durable
  <2>2. job'.pc \in {"open", "stream"} /\ job'.target = budget /\ job'.shard = 1 /\ job'.heap = {}
    BY <2>1 DEF NoJob
  <2> QED
    BY <1>2, <1>4, <2>1, <2>2 DEF RangeInv, Points
<1>7. CASE AcceptOutput \/ Kill
  <2>1. /\ job' = NoJob /\ state' = state /\ budget' = budget /\ kills' \in 0 .. MaxKills
    BY <1>4, <1>7 DEF AcceptOutput, Kill, durable, RangeInv
  <2> QED
    BY <1>2, <1>3, <1>4, <2>1 DEF RangeInv, At
<1>8. CASE StreamShards \/ WriteSelected \/ Persist
  <2>1. state' = state /\ kills' = kills /\ budget' = budget
    BY <1>8 DEF StreamShards, WriteSelected, Persist, durable
  <2>2. /\ ~ At("down") /\ job'.pc \in {"persist", "exit"} /\ job'.target = job.target
        /\ job'.shard = job.shard /\ job'.heap = job.heap
    <3>1. CASE StreamShards
      BY <1>1, <3>1 DEF StreamShards, At, JobInv
    <3>2. CASE Persist
      BY <1>1, <3>2 DEF Persist, At, Goto, JobInv
    <3>3. CASE WriteSelected
      <4>1. PICK out : job' = [job EXCEPT !.pc = "persist", !.out = out]
        BY <3>3 DEF WriteSelected
      <4> QED
        BY <1>1, <3>3, <4>1 DEF WriteSelected, At, JobInv
    <3> QED
      BY <1>8, <3>1, <3>2, <3>3
  <2> QED
    BY <1>2, <2>1, <2>2 DEF RangeInv, Points
<1>9. CASE Toils
  <2>1. /\ job.pc \in Working \cup {"open", "ledger"} /\ budget' = budget /\ kills' = kills
        /\ \/ job' = NoJob
           \/ job'.pc \in Working \cup {"open", "ledger"} /\ job'.target = job.target
        /\ job'.heap = {} \/ job'.heap = job.heap \/ LoadHeaps \/ RetainBatch
        /\ job'.shard = 1 \/ job'.shard = job.shard \/ DescribeCache
              \/ (job.shard \in Shards /\ job'.shard = job.shard + 1)
    BY <1>1, <1>9, ToilsAre
  <2>2. ~ At("down") /\ job.target \in RunTargets
    BY <2>1 DEF RangeInv, At, Working
  <2>3. state' \in {None} \cup RunTargets
    <3>1. state' = state \/ state' = job.target
      BY <1>9 DEF Toils, OpenState, OpenLedger, CheckTarget, WriteState, StageShard, PlanShard,
             BuildPlan, LoadHeaps, RetainBatch, FinishRetaining, Compact, MaterializeShard,
             DescribeCache, durable
    <3> QED
      BY <2>2, <3>1 DEF RangeInv
  <2>4. job'.heap \subseteq Rows
    BY <2>1, HeapsIn DEF RangeInv
  <2>5. job'.shard \in 1 .. (Len(world.occs) + 1)
    <3>1. DescribeCache => job.shard \in Shards /\ job'.shard = job.shard + 1
      BY <1>1 DEF DescribeCache, At, OInv, RowsInv, JobInv
    <3> QED
      BY <1>1, <1>4, <2>1, <3>1 DEF RangeInv
  <2>6. job'.pc \in Points /\ (job'.pc # "down" => job'.target = job.target)
    BY <1>3, <2>1 DEF Working, Points
  <2> QED
    BY <1>2, <2>1, <2>2, <2>3, <2>4, <2>5, <2>6 DEF RangeInv, At
<1> QED
  BY <1>5, <1>6, <1>7, <1>8, <1>9 DEF Next, JobStep, Toils

\* Every step keeps the reports.
LEMMA ReportStep ==
  ASSUME IInv, ReportInv, [Next]_vars
  PROVE  ReportInv'
<1>1. JobInv /\ Totals' = Totals
  BY SameInput DEF IInv
<1>2. CASE (\E t \in Targets : RaiseTarget(t)) \/ Done \/ UNCHANGED vars
  <2>1. job' = job /\ delivered' = delivered /\ accepted' = accepted
    BY <1>2 DEF RaiseTarget, Done, vars
  <2> QED
    BY <1>1, <2>1 DEF ReportInv, At
<1>3. CASE StartJob \/ AcceptOutput \/ Kill
  <2>1. job'.pc \in {"down", "open", "stream"} /\ job'.out = None /\ delivered' = delivered
    <3>1. CASE StartJob
      BY <3>1 DEF StartJob, NoJob
    <3>2. CASE AcceptOutput \/ Kill
      BY <3>2 DEF AcceptOutput, Kill, NoJob
    <3> QED
      BY <1>3, <3>1, <3>2
  <2>2. accepted' = accepted \/ accepted' \in delivered
    BY <1>3 DEF StartJob, AcceptOutput, Kill, ReportInv
  <2> QED
    BY <2>1, <2>2 DEF ReportInv, At
<1>4. CASE StreamShards \/ WriteSelected
  <2>1. PICK rows : job' = [job EXCEPT !.pc = "persist", !.out = Output(rows)]
    <3>1. CASE StreamShards
      BY <3>1 DEF StreamShards
    <3>2. CASE WriteSelected
      <4> HIDE DEF Output
      <4> QED
        BY <3>2 DEF WriteSelected
    <3> QED
      BY <1>4, <3>1, <3>2
  <2>2. PICK out : out = Output(rows)
    OBVIOUS
  <2>3. job'.pc = "persist" /\ job'.out = out /\ job'.target = job.target
    BY <1>1, <2>1, <2>2 DEF JobInv
  <2>4. out = [target |-> job.target, rows |-> out.rows, total |-> Totals]
    BY <2>2 DEF Output, Totals
  <2>5. delivered' = delivered /\ accepted' = accepted
    BY <1>4 DEF StreamShards, WriteSelected
  <2> QED
    BY <1>1, <2>3, <2>4, <2>5 DEF ReportInv, At
<1>5. CASE Persist
  <2>1. /\ job.pc = "persist" /\ job'.pc = "exit" /\ job'.out = job.out
        /\ job'.target = job.target
        /\ delivered' = delivered \cup {job.out} /\ accepted' = accepted
    BY <1>1, <1>5 DEF Persist, At, Goto, JobInv
  <2> QED
    BY <1>1, <2>1 DEF ReportInv, At
<1>6. CASE Toils
  <2>1. /\ job.pc \in Working \cup {"open", "ledger"}
        /\ delivered' = delivered /\ accepted' = accepted
        /\ \/ job' = NoJob
           \/ job'.pc \in Working \cup {"open", "ledger"} /\ job'.out = job.out
    BY <1>1, <1>6, ToilsAre
  <2>2. job'.pc \notin {"persist", "exit"} /\ job'.out = None
    BY <2>1 DEF ReportInv, NoJob, Working
  <2> QED
    BY <2>1, <2>2 DEF ReportInv, At
<1> QED
  BY <1>2, <1>3, <1>4, <1>5, <1>6 DEF Next, JobStep, Toils

-----------------------------------------------------------------------------
(* The output is the sample of one table.                                  *)

EInv == OffsetInv /\ KeptInv /\ RangeInv /\ ReportInv

\* The ledger is empty at first, and every step keeps its places and ranges.
LEMMA ExactInductive ==
  /\ Init => EInv
  /\ IInv /\ OInv /\ EInv /\ [Next]_vars => EInv'
<1>1. ASSUME Init PROVE EInv
  <2>1. /\ db = None /\ world \in Worlds /\ budget = world.target /\ state = None
        /\ accepted = None /\ kills = 0
        /\ job.pc = "down" /\ job.shard = 1 /\ job.heap = {} /\ job.out = None
    BY <1>1 DEF Init, NoJob
  <2>2. ~ Opened
    BY <2>1 DEF Opened, Working
  <2>3. OffsetInv /\ KeptInv
    BY <2>2 DEF OffsetInv, KeptInv
  <2>4. 1 \in 1 .. (Len(world.occs) + 1) /\ 0 \in 0 .. MaxKills /\ "down" \in Points
    <3>1. Len(world.occs) \in Nat
      BY <2>1, WorldsAssumption DEF WorldOK
    <3> QED
      BY <3>1, KillsAssumption DEF Points
  <2>5. RangeInv
    BY <2>1, <2>4 DEF RangeInv, RunTargets, At
  <2>6. ReportInv
    BY <2>1 DEF ReportInv, At
  <2> QED
    BY <2>3, <2>5, <2>6 DEF EInv
<1>2. ASSUME IInv, OInv, EInv, [Next]_vars PROVE EInv'
  BY <1>2, OffsetStep, KeptStep, RangeStep, ReportStep DEF EInv
<1> QED
  BY <1>1, <1>2

\* What is delivered is selected from the table of all occurrences.
LEMMA DeliversWhole ==
  ASSUME IInv, OInv, EInv, NEW out, Delivers(out), NEW F, F = Finalized(Everything)
  PROVE  /\ out.rows = IF Sampled THEN Sample(F, out.target) ELSE [k \in DOMAIN F |-> F[k].id]
         /\ F = [k \in 1 .. Len(F) |-> F[k]] /\ Len(F) \in Nat
         /\ \A k \in DOMAIN F : F[k].id \in Nat \X Nat
         /\ Sampled => /\ out.target \in Nat /\ Table(F, world.place) /\ RanksDiffer(world.place)
<1>1. Inputs
  BY DEF IInv
<1>2. /\ Whole = [k \in DOMAIN F |-> F[k].id] /\ F = [k \in 1 .. Len(F) |-> F[k]]
      /\ Len(F) = Cardinality(RowsFrom(Everything)) /\ Len(F) \in Nat
  BY <1>1, WholeIs
<1>3. \A k \in DOMAIN F : F[k].id \in Nat \X Nat
  <2>1. PICK occs, all : occs = world.occs /\ all = Everything
    OBVIOUS
  <2>2. Split(occs) /\ all = All(occs, DOMAIN occs)
    BY <1>1, <2>1, SplitWorld
  <2>3. all \in SUBSET OccurrenceType /\ IsFiniteSet(all) /\ Placed(all)
    BY ONLY <2>2, SplitWhole
  <2>4. Lists(F, RowsFrom(all))
    BY <2>1, <2>3, FinalizedLists
  <2>5. ASSUME NEW r \in RowsFrom(all) PROVE r.id \in Nat \X Nat
    <3>1. PICK o \in all : r.id = SentenceId(o)
      BY <2>3, <2>5, RowFacts
    <3>2. o.polygon \in Nat /\ o.text \in Nat
      BY <2>3, <3>1 DEF OccurrenceType
    <3> QED
      BY <3>1, <3>2 DEF SentenceId
  <2> QED
    BY <1>2, <2>4, <2>5 DEF Lists
<1>4. CASE ~ Sampled
  BY <1>2, <1>3, <1>4 DEF Delivers
<1>5. CASE Sampled
  <2>1. /\ db # None /\ Unplanned = {} /\ out.target \in Nat
        /\ \A rows \in {PlannedRows} : out.rows = Sample(rows, out.target)
    BY <1>5 DEF Delivers
  <2>2. PlannedRows = F /\ Opened
    BY <2>1, RowsWhole DEF EInv, Opened
  <2>3. Table(F, world.place) /\ RanksDiffer(world.place)
    BY <1>1, <2>2, RowsTable DEF IInv
  <2> QED
    BY <1>2, <1>3, <1>5, <2>1, <2>2, <2>3
<1> QED
  BY <1>4, <1>5

\* An allocation that is done has the reference's rows and report.
LEMMA ExitReference ==
  ASSUME IInv, OInv, EInv
  PROVE  SampleIsReference
<1>1. SUFFICES ASSUME At("exit")
               PROVE  Reference(job.target) = {job.out.rows} /\ job.out.total = Report(Everything)
  BY DEF SampleIsReference
<1>2. PICK out, target, F : out = job.out /\ target = job.target /\ F = Finalized(Everything)
  OBVIOUS
<1>3. /\ Delivers(out) /\ Inputs /\ out.target = target /\ out.total = Totals
  BY <1>1, <1>2 DEF At, OInv, OutputInv, IInv, EInv, ReportInv
<1>4. out.total = Report(Everything)
  <2>1. PICK occs, all : occs = world.occs /\ all = Everything
    OBVIOUS
  <2>2. Split(occs) /\ all = All(occs, DOMAIN occs) /\ Shards = DOMAIN occs
    BY <1>3, <2>1, SplitWorld
  <2>3. TotalReport([s \in DOMAIN occs |-> Report(occs[s])]) = Report(all)
    BY ONLY <2>2, TotalsAdd
  <2> QED
    BY <1>3, <2>1, <2>2, <2>3 DEF Totals
<1>5. /\ out.rows = IF Sampled THEN Sample(F, target) ELSE [k \in DOMAIN F |-> F[k].id]
      /\ Sampled => /\ target \in Nat /\ Table(F, world.place) /\ RanksDiffer(world.place)
  BY <1>2, <1>3, DeliversWhole
<1>6. CASE Sampled
  <2>1. PICK s : s = Selected(F, world.place, target)
    OBVIOUS
  <2>2. [k \in DOMAIN s |-> F[s[k]].id] = out.rows
    BY <1>5, <1>6, <2>1, SampleSelected
  <2>3. Reference(target) = {[k \in DOMAIN s |-> F[s[k]].id]}
    BY <1>2, <1>6, <2>1 DEF Reference
  <2> QED
    BY <1>2, <1>4, <2>2, <2>3
<1>7. CASE ~ Sampled
  <2>1. PICK s : s = [k \in DOMAIN F |-> k]
    OBVIOUS
  <2>2. [k \in DOMAIN s |-> F[s[k]].id] = out.rows
    BY <1>5, <1>7, <2>1
  <2>3. Reference(target) = {[k \in DOMAIN s |-> F[s[k]].id]}
    BY <1>2, <1>7, <2>1 DEF Reference
  <2> QED
    BY <1>2, <1>4, <2>2, <2>3
<1> QED
  BY <1>6, <1>7

\* Wherever allocations were killed and however the target was raised in between, what
\* an allocation delivers at its end is what one in-memory pass over all occurrences
\* selects (select_v2_rows) and counts: sampling shard by shard through the ledger, as
\* select_v2_shards_resumable does, loses no row, no order and no duplicate.
THEOREM SameAsOnePass == Spec => []SampleIsReference
<1>1. IInv /\ OInv /\ EInv => SampleIsReference
  BY ExitReference
<1> QED
  BY <1>1, Inductive, OutInductive, ExactInductive, PTL DEF Spec

\* The ledger's offsets and counters are within the shards they describe.
LEMMA LedgerTyped ==
  ASSUME IInv, OInv, EInv, db # None
  PROVE  /\ db.retained \subseteq Planned /\ db.cand \subseteq Rows
         /\ \A s \in Planned : /\ db.offset[s] \in 0 .. Cardinality(Everything)
                               /\ db.kept[s] \in 0 .. Len(hub[s])
<1>1. Opened /\ Inputs /\ RetainedInv /\ OffsetInv /\ KeptInv
  BY DEF Opened, IInv, OInv, EInv
<1>2. db.retained \subseteq Planned /\ db.cand \subseteq Rows
  BY <1>1, RowsIn DEF RetainedInv
<1>3. ASSUME NEW s \in Planned PROVE db.offset[s] \in 0 .. Cardinality(Everything)
  <2>1. PICK occs, all, rows : occs = world.occs /\ all = Everything /\ rows = ShardRows
    OBVIOUS
  <2>2. /\ Split(occs) /\ all = All(occs, DOMAIN occs) /\ DOMAIN occs = 1 .. Len(occs)
        /\ rows = [t \in DOMAIN occs |-> RowsFrom(occs[t])] /\ Len(occs) \in Nat
        /\ s \in 1 .. Len(occs)
    BY <1>1, <2>1, SplitWorld DEF ShardRows, Planned
  <2>3. RowsFrom(all) = All(rows, DOMAIN rows)
    BY ONLY <2>2, SplitRows
  <2>4. PICK T, A : T = All(rows, 1 .. (s - 1)) /\ A = RowsFrom(all)
    OBVIOUS
  <2>5. T \in SUBSET A
    BY <2>2, <2>3, <2>4 DEF All
  <2>6. /\ IsFiniteSet(A) /\ Cardinality(A) \in Nat /\ Cardinality(Everything) \in Nat
        /\ Cardinality(A) <= Cardinality(Everything)
    BY <1>1, <2>1, <2>4, RowsBound
  <2>7. IsFiniteSet(T) /\ Cardinality(T) <= Cardinality(A) /\ Cardinality(T) \in Nat
    BY <2>5, <2>6, FS_Subset, FS_CardinalityType
  <2>8. db.offset[s] = Cardinality(T)
    BY <1>1, <2>1, <2>4 DEF OffsetInv
  <2> QED
    BY <2>6, <2>7, <2>8
<1>4. ASSUME NEW s \in Planned PROVE db.kept[s] \in 0 .. Len(hub[s])
  <2>1. /\ s \in Shards /\ db.kept[s] \in Nat /\ hub[s] = Finalized(world.occs[s])
        /\ db.kept[s] <= Len(hub[s])
    BY <1>1 DEF IInv, LedgerInv, KeptInv, Planned
  <2>2. Len(hub[s]) \in Nat
    BY <1>1, <2>1, StagedLength
  <2> QED
    BY <2>1, <2>2
<1> QED
  BY <1>2, <1>3, <1>4

\* An output is a target, a sequence of ids and a report.
LEMMA OutTyped ==
  ASSUME IInv, OInv, EInv, job.out # None
  PROVE  job.out \in OutputType
<1>1. PICK out, F : out = job.out /\ F = Finalized(Everything)
  OBVIOUS
<1>2. /\ job.pc \in {"persist", "exit"} /\ Delivers(out) /\ JobInv /\ Inputs
      /\ out = [target |-> job.target, rows |-> out.rows, total |-> Totals]
  BY <1>1 DEF EInv, ReportInv, OInv, OutputInv, IInv
<1>3. /\ out.rows = IF Sampled THEN Sample(F, out.target) ELSE [k \in DOMAIN F |-> F[k].id]
      /\ F = [k \in 1 .. Len(F) |-> F[k]] /\ Len(F) \in Nat
      /\ \A k \in DOMAIN F : F[k].id \in Nat \X Nat
      /\ Sampled => /\ out.target \in Nat /\ Table(F, world.place) /\ RanksDiffer(world.place)
  BY <1>1, <1>2, DeliversWhole
<1>4. out.rows \in Seq(Nat \X Nat)
  <2>1. PICK V : V = Nat \X Nat
    OBVIOUS
  <2>2. \A k \in DOMAIN F : F[k].id \in V
    BY <1>3, <2>1
  <2>3. CASE Sampled
    <3>1. Sample(F, out.target) \in Seq(V)
      BY <1>3, <2>2, <2>3, SampleIds
    <3> QED
      BY <1>3, <2>1, <2>3, <3>1
  <2>4. CASE ~ Sampled
    <3>1. PICK n : n = Len(F)
      OBVIOUS
    <3>2. n \in Nat /\ out.rows = [k \in 1 .. n |-> F[k].id] /\ \A k \in 1 .. n : F[k].id \in V
      BY <1>3, <2>2, <2>4, <3>1
    <3>3. out.rows \in Seq(V)
      BY ONLY <3>2
    <3> QED
      BY <2>1, <3>3
  <2> QED
    BY <2>3, <2>4
<1>5. Totals \in [input : Nat, output : Nat, removed : Nat, crossSource : Nat]
  <2>1. PICK occs, all : occs = world.occs /\ all = Everything
    OBVIOUS
  <2>2. Split(occs) /\ all = All(occs, DOMAIN occs) /\ Shards = DOMAIN occs
    BY <1>2, <2>1, SplitWorld
  <2>3. TotalReport([s \in DOMAIN occs |-> Report(occs[s])]) = Report(all)
    BY ONLY <2>2, TotalsAdd
  <2>4. PICK report : report = Report(all)
    OBVIOUS
  <2>5. Totals = report
    BY <2>1, <2>2, <2>3, <2>4 DEF Totals
  <2>6. report = [input |-> report.input, output |-> report.output, removed |-> report.removed,
                  crossSource |-> report.crossSource]
    BY <2>4 DEF Report
  <2>7. report.input \in Nat /\ report.output \in Nat /\ report.removed \in Nat
        /\ report.crossSource \in Nat
    BY <1>2, <2>1, <2>4, RowsBound
  <2> QED
    BY <2>5, <2>6, <2>7
<1>6. job.target \in Nat
  BY <1>2 DEF JobInv
<1>7. out \in OutputType
  <2>1. PICK rows, total : rows = out.rows /\ total = Totals
    OBVIOUS
  <2>2. out = [target |-> job.target, rows |-> rows, total |-> total]
    BY <1>2, <2>1
  <2> QED
    BY <1>4, <1>5, <1>6, <2>1, <2>2 DEF OutputType
<1> QED
  BY <1>1, <1>7

\* The invariants give every part of the state its type.
LEMMA TypesHold ==
  ASSUME IInv, OInv, EInv
  PROVE  TypeOK
<1>1. Inputs /\ HubInv /\ RangeInv /\ ReportInv /\ CacheInv
  BY DEF IInv, EInv, OInv
<1>2. \A s \in Shards : hub[s] = None \/ Len(hub[s]) \in Nat
  BY <1>1, StagedLength DEF HubInv
<1>3. \A s \in Shards : cache[s].table = None \/ cache[s].table \subseteq Rows
  <2>1. SUFFICES ASSUME NEW s \in Shards, cache[s].table # None PROVE cache[s].table \subseteq Rows
    OBVIOUS
  <2>2. PICK rows : rows = PlannedRows
    OBVIOUS
  <2>3. db # None /\ cache[s].table \subseteq Chosen(rows, state)
    BY <1>1, <2>1, <2>2 DEF CacheInv
  <2>4. Chosen(rows, state) \subseteq DOMAIN rows
    BY DEF Chosen, Best, Eligible
  <2>5. DOMAIN rows = Counted /\ Counted \subseteq Rows
    BY <2>2, <2>3, RowsIn DEF PlannedRows, EInv, Opened
  <2> QED
    BY <2>3, <2>4, <2>5
<1>4. Cardinality(Shards) = Len(world.occs)
  <2>1. PICK n : n = Len(world.occs)
    OBVIOUS
  <2>2. 1 \in Int /\ n \in Int /\ n \in Nat /\ n - 1 + 1 = n /\ Shards = 1 .. n
    BY <1>1, <2>1, SplitWorld
  <2>3. Cardinality(1 .. n) = IF 1 > n THEN 0 ELSE n - 1 + 1
    BY <2>2, FS_Interval
  <2> QED
    BY <2>1, <2>2, <2>3
<1>5. job.out = None \/ job.out \in OutputType
  BY OutTyped
<1>6. db # None =>
        /\ db.retained \subseteq Planned /\ db.cand \subseteq Rows
        /\ \A s \in Planned : /\ db.offset[s] \in 0 .. Cardinality(Everything)
                              /\ db.kept[s] \in 0 .. Len(hub[s])
  BY LedgerTyped
<1> QED
  BY <1>1, <1>2, <1>3, <1>4, <1>5, <1>6 DEF TypeOK, RangeInv, RunTargets, ReportInv

\* The ledger's counters, its candidates and the heaps are those of rows that exist, and
\* the operator records an output that was delivered.
THEOREM Typing == Spec => []TypeOK
<1>1. IInv /\ OInv /\ EInv => TypeOK
  BY TypesHold
<1> QED
  BY <1>1, Inductive, OutInductive, ExactInductive, PTL DEF Spec
=============================================================================
