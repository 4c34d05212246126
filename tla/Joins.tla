------------------------------- MODULE Joins --------------------------------
(***************************************************************************)
(* From the input tables of a regional shard to its sentence occurrences   *)
(* (joins/, sentences/segmentation.py, sentences/table.py).                *)
(*                                                                         *)
(* A shard's input is a record                                             *)
(*   [files, layout, polygons, links, documents, sections,                 *)
(*    voyageDocuments, voyageSections]                                     *)
(* of which only the tables named by "files" exist.  A table is a set of   *)
(* rows, so two identical rows are one.  Identifiers are numbers and 0     *)
(* stands for a blank one; a Wikidata column is the set of QIDs it lists;  *)
(* language, site, page and revision are one value, "page".  The text of a *)
(* section is the sequence of sentences the segmenter finds in it, where 0 *)
(* is a segment that is empty after trimming or normalization.             *)
(***************************************************************************)
EXTENDS Integers, FiniteSets, Sequences, Sorting

CoreTables == {"polygons", "links", "documents", "sections"}
VoyageTables == {"voyageDocuments", "voyageSections"}

\* The columns of the input tables that the joins read.
DocumentType == [id : Nat, article : Nat, qids : SUBSET Nat, page : Nat]
SectionType ==
  [id : Nat, document : Nat, article : Nat, qids : SUBSET Nat, page : Nat, index : Int,
   text : Seq(Nat), parses : BOOLEAN]
ShardType ==
  [files : SUBSET (CoreTables \cup VoyageTables), layout : {"document_id", "article_id"},
   polygons : SUBSET [id : Nat, qids : SUBSET Nat],
   links : SUBSET [polygon : Nat, key : Nat, project : {"wikipedia", "wikivoyage"},
                   qids : SUBSET Nat, page : Nat],
   documents : SUBSET DocumentType, sections : SUBSET SectionType,
   voyageDocuments : SUBSET DocumentType, voyageSections : SUBSET SectionType]
Finite(t) == \A rows \in {t.polygons, t.links, t.sections, t.voyageSections} : IsFiniteSet(rows)

\* discover_shards: every core table, and both Wikivoyage tables or neither.
Complete(t) ==
  /\ CoreTables \subseteq t.files
  /\ VoyageTables \cap t.files \in {{}, VoyageTables}

\* _check_non_empty, _check_unique and _check_unique_pairs, _check_no_orphans,
\* _check_section_index
NonEmpty(rows, column) == \A r \in rows : r[column] # 0
Unique(rows, columns) ==
  \A r, q \in rows : (\A c \in columns : r[c] = q[c]) => r = q
NoOrphans(children, foreign, parents, column) ==
  \A c \in children : \E p \in parents : p[column] = c[foreign]
Indexed(sections) == \A s \in sections : s.index >= 0

\* _wikidata_values_match: one list of QIDs contains the other.
QidsMatch(a, b) ==
  a # {} /\ b # {} /\ (a \subseteq b \/ b \subseteq a)

\* The rows of polygon_articles that the Wikipedia join reads: the current
\* layout also carries the Wikivoyage links.
WikipediaLinks(t) ==
  IF t.layout = "document_id"
  THEN {l \in t.links : l.project = "wikipedia"}
  ELSE t.links

\* The column of wikipedia_documents that a link's key names.
LinkedColumn(t) == IF t.layout = "document_id" THEN "id" ELSE "article"

\* A section agrees with the document it belongs to.
SectionAgrees(s, d) == s.page = d.page /\ (s.article # 0 => s.article = d.article)

\* join_wikipedia_sections raises no JoinIntegrityError.
WikipediaSound(t) ==
  LET links == WikipediaLinks(t)
      column == LinkedColumn(t)
  IN /\ NonEmpty(t.polygons, "id") /\ Unique(t.polygons, {"id"})
     /\ NonEmpty(links, "polygon") /\ NonEmpty(links, "key")
     /\ NonEmpty(t.documents, "id") /\ Unique(t.documents, {"id"})
     /\ NonEmpty(t.documents, "article") /\ Unique(t.documents, {"article"})
     /\ NonEmpty(t.sections, "id") /\ Unique(t.sections, {"id"})
     /\ NonEmpty(t.sections, "document") /\ Indexed(t.sections)
     /\ Unique(links, {"polygon", "key"})
     /\ NoOrphans(links, "polygon", t.polygons, "id")
     /\ NoOrphans(links, "key", t.documents, column)
     /\ NoOrphans(t.sections, "document", t.documents, "id")
     /\ \A l \in links : \A p \in t.polygons : \A d \in t.documents :
          (p.id = l.polygon /\ d[column] = l.key) =>
            /\ QidsMatch(p.qids, l.qids)
            /\ QidsMatch(d.qids, l.qids)
            /\ d.page = l.page
     /\ \A s \in t.sections : \A d \in t.documents :
          d.id = s.document => QidsMatch(d.qids, s.qids) /\ SectionAgrees(s, d)

\* join_wikivoyage_sections raises no JoinIntegrityError: a Wikivoyage QID
\* has to be the whole Wikidata value of a polygon.
WikivoyageSound(t) ==
  /\ NonEmpty(t.voyageDocuments, "id") /\ Unique(t.voyageDocuments, {"id"})
  /\ \A d \in t.voyageDocuments : d.qids # {}
  /\ NonEmpty(t.voyageSections, "id") /\ Unique(t.voyageSections, {"id"})
  /\ NonEmpty(t.voyageSections, "document") /\ Indexed(t.voyageSections)
  /\ NoOrphans(t.voyageSections, "document", t.voyageDocuments, "id")
  /\ \A d \in t.voyageDocuments : \E p \in t.polygons : p.qids = d.qids
  /\ \A s \in t.voyageSections : \A d \in t.voyageDocuments :
       d.id = s.document => d.qids = s.qids /\ SectionAgrees(s, d)

Joined(source, polygon, section) ==
  [polygon |-> polygon, source |-> source, doc |-> section.document,
   section |-> section.id, text |-> section.text, parses |-> section.parses]

\* The sections of each linked document, once per link.
WikipediaSections(t) ==
  {Joined("wikipedia", pair[1].polygon, pair[2]) :
     pair \in {pair \in WikipediaLinks(t) \X t.sections :
       \E d \in t.documents :
         d[LinkedColumn(t)] = pair[1].key /\ d.id = pair[2].document}}

\* Mutant: one common QID is enough.
WikivoyageSectionsShared(t) ==
  {Joined("wikivoyage", pair[1].id, pair[2]) :
     pair \in {pair \in t.polygons \X t.voyageSections :
       \E d \in t.voyageDocuments :
         pair[1].qids \cap d.qids # {} /\ d.id = pair[2].document}}

\* The sections of each Wikivoyage document, once per polygon of its QID.
WikivoyageSections(t) ==
  {Joined("wikivoyage", pair[1].id, pair[2]) :
     pair \in {pair \in t.polygons \X t.voyageSections :
       \E d \in t.voyageDocuments :
         pair[1].qids = d.qids /\ d.id = pair[2].document}}

\* build_region_section_occurrences
HasVoyage(t) == VoyageTables \subseteq t.files
JoinSound(t) == WikipediaSound(t) /\ (HasVoyage(t) => WikivoyageSound(t))
JoinedSections(t) ==
  WikipediaSections(t) \cup (IF HasVoyage(t) THEN WikivoyageSections(t) ELSE {})

\* The preflight of segmentation: every section path and tag list parses.
Parses(t) == \A j \in JoinedSections(t) : j.parses

\* _prepare_section: empty segments are dropped, then sentences are numbered.
Segments(text) == SortedBy({i \in DOMAIN text : text[i] # 0}, LAMBDA i, j : i < j)
Prepared(text) == [n \in DOMAIN Segments(text) |-> text[Segments(text)[n]]]

\* segment_joined_sections
Occurrences(t) ==
  UNION {{[polygon |-> j.polygon, source |-> j.source, doc |-> j.doc,
           section |-> j.section, index |-> i - 1, text |-> Prepared(j.text)[i]] :
             i \in DOMAIN Prepared(j.text)} : j \in JoinedSections(t)}

\* A shard from which a checkpoint can be made.
Segmentable(t) == Complete(t) /\ JoinSound(t) /\ Parses(t)
=============================================================================
