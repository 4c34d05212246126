------------------------------ MODULE Sampling ------------------------------
(***************************************************************************)
(* The deterministic V2 sample (labeling/v2_sampling.py): which sentences  *)
(* of a table a target selects, and in which order.                        *)
(*                                                                         *)
(* A place function gives each polygon its H3 cell and whether its area    *)
(* bucket is "large"; a polygon without coordinates has the cell NoCell.   *)
(* The seeded SHA-256 of a polygon, cell or sentence id is a number, and   *)
(* no two of a kind collide.                                               *)
(***************************************************************************)
EXTENDS SequencesExt, Sorting

CONSTANTS
  PolygonRank, CellRank, SentenceRank,   \* _rank, per kind of value
  NoCell

\* No two polygons and no two cells have the same hash.
RanksDiffer(place) ==
  \A p, q \in DOMAIN place :
    /\ PolygonRank[p] \in Nat /\ (PolygonRank[p] = PolygonRank[q] => p = q)
    /\ LET c == place[p].cell
           d == place[q].cell
       IN c # NoCell => /\ CellRank[c] \in Nat
                        /\ d # NoCell /\ CellRank[c] = CellRank[d] => c = d

ByRank(S) == SortedBy(S, LAMBDA a, b : PolygonRank[a] < PolygonRank[b])

\* The turns of the strata: the n-th of each, from 0.
Turns(sizes) == UNION {{k} \X (0 .. (sizes[k] - 1)) : k \in DOMAIN sizes}
RankBefore(a, b) == CellRank[a[1]] < CellRank[b[1]]
FirstTurns(turns, limit) == SubSeq(turns, 1, IF limit < Len(turns) THEN limit ELSE Len(turns))

\* A turn comes at n / size; equal priorities go by rank.
Earlier(sizes, a, b) ==
  LET x == a[2] * sizes[b[1]]
      y == b[2] * sizes[a[1]]
  IN x < y \/ (x = y /\ RankBefore(a, b))

InTurn(sizes) == SortedBy(Turns(sizes), LAMBDA a, b : Earlier(sizes, a, b))

\* Mutant: the chosen turns are written stratum by stratum.
ScheduleGrouped(sizes, limit) ==
  LET chosen == FirstTurns(InTurn(sizes), limit)
  IN SortedBy(ToSet(chosen), LAMBDA a, b : RankBefore(a, b) \/ (a[1] = b[1] /\ a[2] < b[2]))

\* _weighted_schedule
Schedule(sizes, limit) == FirstTurns(InTurn(sizes), limit)

\* queues[stratum].popleft() for each turn of a schedule.
Dealt(schedule, queues) ==
  [i \in DOMAIN schedule |-> queues[schedule[i][1]][schedule[i][2] + 1]]

\* The polygons that can be sampled, those that are not large by cell.
Sited(place) == {p \in DOMAIN place : place[p].cell # NoCell}
Small(place) == {p \in Sited(place) : ~place[p].large}
InCell(place, c) == {p \in Small(place) : place[p].cell = c}
Queued(place) ==
  [c \in {place[p].cell : p \in Small(place)} |-> ByRank(InCell(place, c))]

\* ordered_polygon_ids: large polygons first, the others interleaved over the
\* cells in proportion.
PolygonOrder(place) ==
  LET queue == Queued(place)
      turns == Schedule([c \in DOMAIN queue |-> Len(queue[c])], Cardinality(Small(place)))
  IN ByRank(Sited(place) \ Small(place)) \o Dealt(turns, queue)

Position(order) == [p \in ToSet(order) |-> CHOOSE i \in DOMAIN order : order[i] = p]

\* The metadata of the polygons a table mentions.
Seen(rows, place) == [p \in {rows[i].polygon : i \in DOMAIN rows} |-> place[p]]

\* The rows of a table that can be sampled, by cell.
Eligible(rows, place) == {i \in DOMAIN rows : place[rows[i].polygon].cell # NoCell}
CellOf(rows, place, i) == place[rows[i].polygon].cell
StratumSizes(rows, place) ==
  LET rowsIn(c) == {i \in Eligible(rows, place) : CellOf(rows, place, i) = c}
  IN [c \in {CellOf(rows, place, i) : i \in Eligible(rows, place)} |-> Cardinality(rowsIn(c))]

\* The order of the rows of one stratum: by polygon, by rank, by position.
RowBefore(rows, position, i, j) ==
  LET key(k) == <<position[rows[k].polygon], SentenceRank[rows[k].id], k>>
      a == key(i)
      b == key(j)
  IN \/ a[1] < b[1]
     \/ a[1] = b[1] /\ a[2] < b[2]
     \/ a[1] = b[1] /\ a[2] = b[2] /\ a[3] < b[3]

InOrder(rows, position, S) ==
  SortedBy(S, LAMBDA i, j : RowBefore(rows, position, i, j))

\* select_v2_rows: all strata in memory, the first `target` rows.
Selected(rows, place, target) ==
  LET position == Position(PolygonOrder(Seen(rows, place)))
      sizes == StratumSizes(rows, place)
      queue == [c \in DOMAIN sizes |->
                 InOrder(rows, position,
                         {i \in Eligible(rows, place) : CellOf(rows, place, i) = c})]
  IN Dealt(Schedule(sizes, target), queue)
=============================================================================
