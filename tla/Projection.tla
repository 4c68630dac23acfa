----------------------------- MODULE Projection -----------------------------
(***************************************************************************)
(* Reading a document back: build_block_list of projection.rs, and the     *)
(* queries on the node tree of store/queries.rs.                           *)
(*                                                                         *)
(* rows are the rows a query loaded, a function whose values have the      *)
(* fields type, parent, pos and content; files are the content files.      *)
(***************************************************************************)
EXTENDS Naturals, Sequences, FiniteSets, SequencesExt

(* ORDER BY position; rows at the same position as they were inserted.  A  *)
(* row is listed behind as many others as come before it.                  *)
Before(rows, u, v) == \/ rows[u].pos < rows[v].pos
                      \/ rows[u].pos = rows[v].pos /\ u < v
ByPosition(rows, S) ==
  [k \in 1 .. Cardinality(S) |->
     CHOOSE u \in S : Cardinality({v \in S : Before(rows, v, u)}) = k - 1]

Children(rows, p) == {u \in DOMAIN rows : rows[u].parent = p}
ChildRows(rows, p) == ByPosition(rows, Children(rows, p))

(* build_block_list: a section is read through, whether it has a file or   *)
(* not; a sentence is no block; another node gives its file, or, if it has *)
(* none, what is below it.                                                 *)
ReadThrough(row) == row.type \in {"section", "document"} \/ ~row.content
BlocksAt(rows, files, below, u) ==
  IF rows[u].type = "sentence" THEN <<>>
  ELSE IF ReadThrough(rows[u]) THEN below[u]
  ELSE <<files[u]>>

BlockList(rows, files, root) ==
  LET below[p \in DOMAIN rows] ==
        LET kids == ChildRows(rows, p)
        IN FlattenSeq([k \in 1 .. Len(kids) |-> BlocksAt(rows, files, below, kids[k])])
  IN below[root]

(* project_document: the first row of type document is the root.           *)
RootsOf(rows) == ByPosition(rows, {u \in DOMAIN rows : rows[u].type = "document"})
ProjectDocument(rows, files) == BlockList(rows, files, Head(RootsOf(rows)))

(* store/queries.rs: the neighbours of a node among its parent's children. *)
Siblings(rows, u) == ByPosition(rows, Children(rows, rows[u].parent) \ {u})
Place(rows, u) == CHOOSE i \in DOMAIN ChildRows(rows, rows[u].parent) :
                     ChildRows(rows, rows[u].parent)[i] = u
SlipNextOf(rows, u) ==
  LET kids == ChildRows(rows, rows[u].parent)
  IN IF Place(rows, u) + 1 < Len(kids) THEN {kids[Place(rows, u) + 1]} ELSE {}
NextOf(rows, u) ==
  LET kids == ChildRows(rows, rows[u].parent)
  IN IF Place(rows, u) < Len(kids) THEN {kids[Place(rows, u) + 1]} ELSE {}
PrevOf(rows, u) ==
  IF Place(rows, u) > 1 THEN {ChildRows(rows, rows[u].parent)[Place(rows, u) - 1]} ELSE {}

(* toc: the headings of the document. *)
Toc(rows) == ByPosition(rows, {u \in DOMAIN rows : rows[u].type = "heading"})
=============================================================================
