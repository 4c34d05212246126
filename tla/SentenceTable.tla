---------------------------- MODULE SentenceTable ----------------------------
(***************************************************************************)
(* Sentence finalization (sentences/finalization.py): the segmented        *)
(* occurrences of a shard become the public sentence rows.                 *)
(*                                                                         *)
(* An occurrence is a record [polygon, source, doc, section, index, text]. *)
(* Texts are numbers that stand for a language and a normalized sentence,  *)
(* so a sentence id is a polygon and a text, and the hash order of the     *)
(* output is the order of the texts.  Columns that are only carried along  *)
(* are left out.                                                           *)
(***************************************************************************)
EXTENDS FiniteSetsExt, SequencesExt, Sorting

CONSTANT NoText   \* a sentence at the edge of its section

OccurrenceType ==
  [polygon : Nat, source : {"wikipedia", "wikivoyage"}, doc : Nat, section : Nat,
   index : Nat, text : Nat]

Section(o) == <<o.polygon, o.source, o.doc, o.section>>

\* Segmentation numbers the sentences of a section, so no two have the same place.
Placed(occs) ==
  \A o, p \in occs : Section(o) = Section(p) /\ o.index = p.index => o = p

SentenceId(o) == <<o.polygon, o.text>>

\* The ids of a shard's polygons begin with its key (_verify_shard_namespace), and the
\* shards come in the order of their keys (_validate_inventory).
Namespaced(shards) ==
  \A s, t \in DOMAIN shards :
    s < t => \A o \in shards[s], p \in shards[t] : o.polygon < p.polygon

\* The text of the occurrence before (or after) o in its section.
Previous(occs, o) ==
  LET before == {p \in occs : Section(p) = Section(o) /\ p.index < o.index}
  IN IF before = {} THEN NoText
     ELSE (CHOOSE p \in before : \A q \in before : q.index <= p.index).text

Following(occs, o) ==
  LET after == {p \in occs : Section(p) = Section(o) /\ p.index > o.index}
  IN IF after = {} THEN NoText
     ELSE (CHOOSE p \in after : \A q \in after : q.index >= p.index).text

\* canonical_sort_key: Wikipedia first, then the position in the document.
Source(o) == IF o.source = "wikipedia" THEN 0 ELSE 1
SortKey(o) == <<Source(o), o.doc, o.section, o.index>>
Lexicographic(a, b) ==
  \E i \in DOMAIN a : a[i] < b[i] /\ \A j \in 1 .. (i - 1) : a[j] = b[j]
Canonical(group) ==
  CHOOSE o \in group : \A p \in group \ {o} : Lexicographic(SortKey(o), SortKey(p))

\* The row kept for the occurrences of one sentence of one polygon.
OutputRow(occs, group) ==
  LET o == Canonical(group)
  IN [id |-> SentenceId(o), polygon |-> o.polygon, source |-> o.source,
      prev |-> Previous(occs, o), next |-> Following(occs, o),
      count |-> Cardinality(group), sources |-> {p.source : p \in group}]

DedupGroups(occs) ==
  {{p \in occs : SentenceId(p) = SentenceId(o)} : o \in occs}

\* finalize_sentence_dataset: one row per polygon and sentence, in id order.
Finalized(occs) ==
  SortedBy({OutputRow(occs, g) : g \in DedupGroups(occs)},
               LAMBDA a, b : Lexicographic(a.id, b.id))

\* FinalizationReport
Report(occs) ==
  LET kept == Cardinality(DedupGroups(occs))
  IN [input |-> Cardinality(occs), output |-> kept,
      removed |-> Cardinality(occs) - kept,
      crossSource |-> Cardinality({g \in DedupGroups(occs) :
                        {"wikipedia", "wikivoyage"} \subseteq {p.source : p \in g}})]

\* _aggregate_reports
TotalReport(reports) ==
  [input |-> SumFunction([s \in DOMAIN reports |-> reports[s].input]),
   output |-> SumFunction([s \in DOMAIN reports |-> reports[s].output]),
   removed |-> SumFunction([s \in DOMAIN reports |-> reports[s].removed]),
   crossSource |-> SumFunction([s \in DOMAIN reports |-> reports[s].crossSource])]
=============================================================================
