--------------------------- MODULE MCSampleLedger ---------------------------
(* Two shards of two polygons: documents shared by polygons of both shards, *)
(* sentences repeated within a section, across sources and across polygons. *)
EXTENDS SampleLedger

CONSTANTS c1, c2

Occ(polygon, source, doc, index, text) ==
  [polygon |-> polygon, source |-> source, doc |-> doc, section |-> 1,
   index |-> index, text |-> text]
Wp(polygon, doc, index, text) == Occ(polygon, "wikipedia", doc, index, text)
Wv(polygon, doc, index, text) == Occ(polygon, "wikivoyage", doc, index, text)

Rich == <<{Wp(1, 1, 1, 1), Wp(1, 1, 2, 2), Wp(1, 1, 3, 1), Wv(1, 2, 1, 2), Wv(1, 2, 2, 3),
           Wp(2, 1, 2, 1), Wp(2, 1, 4, 4)},
          {Wp(3, 1, 1, 1), Wp(3, 1, 5, 2), Wv(4, 3, 1, 5), Wv(4, 3, 2, 4)}>>
Lean == <<{Wp(1, 1, 1, 2)}, {Wp(3, 1, 1, 2), Wp(4, 1, 2, 1), Wv(4, 1, 1, 1)}>>

Cellings == {<<c1, c1, c2, c2>>, <<c1, c2, c1, c1>>, <<c2, NoCell, c1, c2>>}
Larges == {{}, {2}, {1, 3}, {4}}
Place(cells, large) == [p \in 1 .. 4 |-> [cell |-> cells[p], large |-> p \in large]]

World(occs, place, target) == [occs |-> occs, place |-> place, target |-> target]
SomeWorlds ==
  {World(Rich, Place(k, l), 3) : k \in Cellings, l \in Larges}
    \cup {World(Lean, Place(k, {1}), 2) : k \in Cellings}
    \cup {World(Rich, Place(<<c1, c1, c2, c2>>, {}), 0)}

\* Hash orders that differ from the order of the ids.
PolygonRanks == <<3, 1, 4, 2>>
CellRanks == (c1 :> 2) @@ (c2 :> 1)
SentenceRanks == [x \in (1 .. 4) \X (1 .. 5) |-> (3 * x[2] + x[1]) % 7]
=============================================================================
