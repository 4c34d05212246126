------------------------------ MODULE MCBuild -------------------------------
(***************************************************************************)
(* Two shards.  The first links two polygons to one document and gains a   *)
(* Wikivoyage pair that repeats a Wikipedia sentence; the second has the   *)
(* older layout, and its second version breaks the join.                   *)
(***************************************************************************)
EXTENDS Build

SectionRow(id, document, text) ==
  [id |-> id, document |-> document, article |-> 0, qids |-> {1}, page |-> 1,
   index |-> id, text |-> text, parses |-> TRUE]
Link(polygon, key, project) ==
  [polygon |-> polygon, key |-> key, project |-> project, qids |-> {1}, page |-> 1]

North ==
  [files |-> CoreTables, layout |-> "document_id",
   polygons |-> {[id |-> 1, qids |-> {1}], [id |-> 2, qids |-> {1, 2}]},
   links |-> {Link(1, 7, "wikipedia"), Link(2, 7, "wikipedia"), Link(1, 9, "wikivoyage")},
   documents |-> {[id |-> 7, article |-> 5, qids |-> {1}, page |-> 1]},
   sections |-> {SectionRow(1, 7, <<3, 0, 4, 3>>), SectionRow(2, 7, <<4>>)},
   voyageDocuments |-> {}, voyageSections |-> {}]

NorthVoyage ==
  [North EXCEPT !.files = CoreTables \cup VoyageTables,
     !.voyageDocuments = {[id |-> 9, article |-> 0, qids |-> {1}, page |-> 1]},
     !.voyageSections = {SectionRow(4, 9, <<6, 3>>)}]

NorthRevised == [North EXCEPT !.sections = {SectionRow(1, 7, <<3, 0, 4>>)}]

South ==
  [files |-> CoreTables, layout |-> "article_id",
   polygons |-> {[id |-> 3, qids |-> {1}]},
   links |-> {Link(3, 5, "wikipedia")},
   documents |-> {[id |-> 8, article |-> 5, qids |-> {1}, page |-> 1]},
   sections |-> {SectionRow(1, 8, <<3, 4>>)},
   voyageDocuments |-> {}, voyageSections |-> {}]

SouthOrphan == [South EXCEPT !.links = {Link(3, 6, "wikipedia")}]

MCTables == <<<<North, NorthVoyage, NorthRevised>>, <<South, SouthOrphan>>>>
=============================================================================
