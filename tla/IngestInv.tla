----------------------------- MODULE IngestInv ------------------------------
(***************************************************************************)
(* The inductive invariant behind the theorems of Ingest_proofs, in parts. *)
(* Each part says what one stage of the pipeline has already established   *)
(* and the next one relies on.                                             *)
(***************************************************************************)
EXTENDS Ingest

(* How far the tree walk has come in each stage. *)
Walking ==
  /\ stage = "idle" => at = 1 /\ ids = <<>>
  /\ stage # "idle" => job \in Job /\ at \in 1 .. Len(job.src.nodes)
  /\ stage \in {"assign", "match"} => Len(ids) = at - 1
  /\ stage \in {"retire", "orphan", "content", "document", "rows", "activity"} =>
       Len(ids) = Len(job.src.nodes)
  /\ stage \in {"retire", "orphan", "document", "activity"} => at = 1

(* Documents get consecutive numbers; the one being ingested is known or   *)
(* the next one, and known once the pipeline writes rows.                  *)
Numbering ==
  /\ Len(docs) <= ingests
  /\ stage # "idle" => job.doc <= ingests /\ job.doc <= Len(docs) + 1
  /\ stage \in {"rows", "activity"} => job.doc <= Len(docs)

(* The rows the diff loaded are in the table. *)
RowsLoaded == job.existing \subseteq DOMAIN nodes

TypeInv == TypeOK /\ Walking /\ Numbering /\ RowsLoaded

(* Fresh UUIDs are fresh, and the pipeline gives no UUID twice. *)
FreshUuids ==
  /\ \A u \in DOMAIN nodes : u < next
  /\ \A i \in DOMAIN ids : ids[i].uuid < next
  /\ \A i, j \in DOMAIN ids : ids[i].uuid = ids[j].uuid => i = j

(* Rows belong to documents that are there. *)
RowsHaveDocument == \A u \in DOMAIN nodes : nodes[u].doc \in DOMAIN docs

(* The rows the diff loaded are those of the document, active until it has *)
(* seen every node; a new document has none.                               *)
LoadedRows ==
  /\ stage = "assign" => job.existing = {} /\ NodesByDoc(job.doc) = {}
  /\ \A u \in job.existing : nodes[u].doc = job.doc
  /\ stage = "match" => \A u \in job.existing : nodes[u].status = "active"

(* What the diff decided for node i still holds until its row is written,  *)
(* and its row is there afterwards.                                        *)
RowWritten(i) == stage = "activity" \/ (stage = "rows" /\ i < at)
Decided(i) ==
  LET u == ids[i].uuid
  IN \/ u \notin DOMAIN nodes /\ ids[i].version = 1
     \/ /\ u \in job.existing /\ IsActive(u)
        /\ \/ ids[i].version = nodes[u].version /\ nodes[u].text = job.src.nodes[i].text
           \/ ids[i].version = nodes[u].version + 1
Decisions ==
  \A i \in DOMAIN ids :
     IF RowWritten(i) THEN ids[i].uuid \in DOMAIN nodes /\ nodes[ids[i].uuid] = RowOf(i)
                      ELSE Decided(i)

(* The same, as far as it holds even if the second lookup of a document    *)
(* fails: rows that were loaded or given belong to the document, and a     *)
(* row that was written is the one of its node.                            *)
OwnRows ==
  /\ \A u \in job.existing : nodes[u].doc = job.doc
  /\ \A i \in DOMAIN ids :
        ids[i].uuid \in DOMAIN nodes => nodes[ids[i].uuid].doc = job.doc
WrittenRows ==
  \A i \in DOMAIN ids :
     RowWritten(i) => ids[i].uuid \in DOMAIN nodes /\ nodes[ids[i].uuid] = RowOf(i)

(* No active row of the document escapes the diff, and after its deletions *)
(* the unmatched ones are deleted.                                         *)
DiffCovers ==
  /\ stage # "idle" => NodesByDoc(job.doc) \subseteq job.existing \cup Matched
  /\ stage \in {"orphan", "content", "document", "rows", "activity"} =>
       \A u \in Unmatched : ~IsActive(u)

(* Content files come before rows. *)
FileWritten(i) == \/ stage \in {"document", "rows", "activity"}
                  \/ stage = "content" /\ i < at
FilesFirst ==
  \A i \in DOMAIN ids :
     FileWritten(i) /\ HasContent(i) =>
        /\ ids[i].uuid \in DOMAIN content
        /\ content[ids[i].uuid] = job.src.nodes[i].body

EdgesHaveNodes == \A e \in edges : e.source \in DOMAIN nodes /\ e.target \in DOMAIN nodes

IInv == /\ TypeInv
        /\ FreshUuids
        /\ RowsHaveDocument
        /\ LoadedRows
        /\ Decisions
        /\ DiffCovers
        /\ FilesFirst
        /\ EdgesHaveNodes
        /\ ActiveBlocksReadable
        /\ ForeignKeysHold
=============================================================================
