------------------------------ MODULE Readers -------------------------------
(***************************************************************************)
(* What readers get of the store that Ingest writes (projection.rs and     *)
(* store/queries.rs), held against the source that was ingested.           *)
(***************************************************************************)
EXTENDS IngestInv, Projection

(* get_nodes_by_doc, and the projection of the document. *)
Loaded(d) == [u \in NodesByDoc(d) |-> nodes[u]]
ReadDocument(d) == ProjectDocument(Loaded(d), content)

(* The tree of a source, read as if it were stored under its own numbers.  *)
(* Which blocks of the document those are is a matter of Segmenter.        *)
SourceRows(src) ==
  [i \in DOMAIN src.nodes |-> [type |-> src.nodes[i].type, parent |-> src.nodes[i].par, pos |-> i,
                               content |-> src.nodes[i].body # NoBody]]
SourceFiles(src) == [i \in DOMAIN src.nodes |-> src.nodes[i].body]
BlocksOf(src) == ProjectDocument(SourceRows(src), SourceFiles(src))

(* A document ingested for the first time reads back as its source,        *)
(* whatever other documents, cut short or complete, are in the store.      *)
FirstReadExact ==
  stage = "activity" /\ ~job.diff => ReadDocument(job.doc) = BlocksOf(job.src)

(* found lists the nodes I of the source, in their order.                  *)
ListsNodes(found, I) ==
  /\ Len(found) = Cardinality(I)
  /\ \A i \in I : found[Cardinality({j \in I : j <= i})] = ids[i].uuid

Headings(src) == {i \in DOMAIN src.nodes : src.nodes[i].type = "heading"}
TocExact == ListsNodes(Toc(Loaded(job.doc)), Headings(job.src))

SiblingsIn(src, i) == {j \in 2 .. Len(src.nodes) : src.nodes[j].par = src.nodes[i].par} \ {i}
NeighboursExact ==
  \A i \in 2 .. Len(job.src.nodes) :
     LET rows == Loaded(job.doc)
         u == ids[i].uuid
         before == {j \in SiblingsIn(job.src, i) : j < i}
         after == {j \in SiblingsIn(job.src, i) : j > i}
         only(S) == {ids[j].uuid : j \in S}
     IN /\ ListsNodes(Siblings(rows, u), SiblingsIn(job.src, i))
        /\ PrevOf(rows, u) = only({j \in before : \A k \in before : k <= j})
        /\ NextOf(rows, u) = only({j \in after : \A k \in after : j <= k})

(* The queries on a stored document answer what its source says, whatever  *)
(* rows of other documents, or of the ingestions before, have positions    *)
(* like theirs: the table of contents lists the headings in their order in *)
(* the text, after a re-ingestion that moved them too, and each node of a  *)
(* document ingested for the first time has the neighbours it has in the   *)
(* source.                                                                 *)
QueriesExact == stage = "activity" => TocExact /\ (~job.diff => NeighboursExact)

(* "The reverse of ingestion": a document reads back as what was ingested  *)
(* last.  Refuted: a re-ingestion writes its rows without parents, and a   *)
(* read finds no block below the root.                                     *)
ReadIsReverse == stage = "activity" => ReadDocument(job.doc) = BlocksOf(job.src)
=============================================================================
