---------------------------- MODULE MCSegmenter -----------------------------
(***************************************************************************)
(* The tree of Segmenter, stored as an ingestion stores it and read back   *)
(* by projection.rs.                                                       *)
(***************************************************************************)
EXTENDS Segmenter, Projection

StoredRows ==
  [i \in DOMAIN out |-> [type |-> out[i].type, parent |-> out[i].par, pos |-> out[i].pos,
                         content |-> out[i].body # NoBody]]
StoredFiles == [i \in DOMAIN out |-> out[i].body]

(* "The reverse of ingestion": the blocks read back are those of the       *)
(* document, in its order and each once, with Divs and Figures replaced by *)
(* what they hold, although the blocks inside quotes and lists have rows   *)
(* and files of their own.                                                 *)
ReadBack == stage = "done" => ProjectDocument(StoredRows, StoredFiles) = loose
=============================================================================
