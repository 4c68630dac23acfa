----------------------------- MODULE Segmenter ------------------------------
(***************************************************************************)
(* The block walk of pipeline/segmenter.rs: from the blocks of a parsed    *)
(* document to the tree of structural nodes that an ingestion stores.      *)
(*                                                                         *)
(* The document is read as it is walked: each step meets some block, or    *)
(* the end of the innermost list of blocks or items.  The tree is kept in  *)
(* preorder, each node with the index of its parent.  A text is the        *)
(* sequence of its bytes, a byte being told apart by the block it comes    *)
(* from; what join puts between the parts is left out.  The fragment of    *)
(* the syntax tree that a node stores is the number of its block.          *)
(*                                                                         *)
(* Module Inlines shows which sentences a paragraph can have: spans that   *)
(* tile its text, and none if the text is blank.                           *)
(*                                                                         *)
(* Definitions named Slip... are plausible slips in the definition that    *)
(* follows them; no specification uses them.                               *)
(***************************************************************************)
EXTENDS Integers, Sequences, FiniteSets

CONSTANTS
  MaxBlocks,  \* bound: blocks and list items of the document
  MaxText     \* bound: bytes of the text of one block

ASSUME BoundsAssumption == MaxBlocks \in Nat /\ MaxText \in Nat

VARIABLES
  stage,    \* "walk" or "done"
  out,      \* the nodes so far, in preorder
  open,     \* the nodes whose children are being walked, innermost last
  counter,  \* position_counter, in steps of 1000
  count,    \* blocks and items met
  loose,    \* history: the blocks that stand in nothing but Divs and Figures
  written   \* history: the texts of all blocks

vars == <<stage, out, open, counter, count, loose, written>>

-----------------------------------------------------------------------------
NodeType == {"document", "section", "paragraph", "heading", "sentence",
             "code_block", "list_item", "table", "blockquote", "thematic_break"}
NoBody == 0  \* pandoc_ast_json = None, has_content = false
Byte == [block : Nat, at : Nat]
Node == [type : NodeType, par : Nat, pos : Nat, body : Nat, text : Seq(Byte)]
(* The loop over a node's children: whether they are blocks or list items, *)
(* the texts of those it has left, joined, and (history) whether the node  *)
(* stands in nothing but Divs and Figures.                                 *)
Frame == [node : Nat, holds : {"blocks", "items"}, text : Seq(Byte), loose : BOOLEAN]

TypeOK ==
  /\ stage \in {"walk", "done"}
  /\ out \in Seq(Node)
  /\ open \in Seq(Frame)
  /\ counter \in Nat /\ count \in Nat
  /\ loose \in Seq(Nat)
  /\ written \in Seq(Byte)

Root == [type |-> "document", par |-> 0, pos |-> 0, body |-> NoBody, text |-> <<>>]

(* segment *)
Init ==
  /\ stage = "walk"
  /\ out = <<Root>>
  /\ open = <<[node |-> 1, holds |-> "blocks", text |-> <<>>, loose |-> TRUE]>>
  /\ counter = 1 /\ count = 0
  /\ loose = <<>> /\ written = <<>>

-----------------------------------------------------------------------------
Top == open[Len(open)]

SlipChild(type, pos, body, text) ==
  [type |-> type, par |-> Top.node, body |-> body, text |-> text,
   pos |-> 1 + Cardinality({i \in DOMAIN out : out[i].par = Top.node})]
Child(type, pos, body, text) ==
  [type |-> type, par |-> Top.node, pos |-> pos, body |-> body, text |-> text]

Text(len) == [i \in 1 .. len |-> [block |-> count + 1, at |-> i]]

Meet(holds) ==
  /\ stage = "walk"
  /\ count < MaxBlocks
  /\ Top.holds = holds
  /\ count' = count + 1

(* The innermost loop has one more child, of this text. *)
Joined(frames, text) == [frames EXCEPT ![Len(frames)].text = @ \o text]

(* A block that becomes one node and stores its own fragment. *)
Single(type, text) ==
  /\ Meet("blocks")
  /\ out' = Append(out, Child(type, counter, count + 1, text))
  /\ counter' = counter + 1
  /\ loose' = IF Top.loose THEN Append(loose, count + 1) ELSE loose
  /\ open' = Joined(open, text)
  /\ written' = written \o text
  /\ UNCHANGED stage

Header(len) == Single("heading", Text(len))
CodeBlock(len) == Single("code_block", Text(len))
Table == Single("table", <<>>)
HorizontalRule == Single("thematic_break", <<>>)
LineBlock(len) == Single("paragraph", Text(len))
RawBlock(len) == Single("paragraph", Text(len))
(* Only the terms of a definition list give text. *)
DefinitionList(len) == Single("paragraph", Text(len))

(* Sentences that tile a text, given by their ends; none if it is blank.   *)
Tilings(len) ==
  {ends \in UNION {[1 .. k -> 1 .. len] : k \in 0 .. len} :
     /\ \A i \in 1 .. Len(ends) - 1 : ends[i] < ends[i + 1]
     /\ ends # <<>> => ends[Len(ends)] = len}

SlipSpanText(text, ends, k) == SubSeq(text, IF k = 1 THEN 1 ELSE ends[k - 1], ends[k])
SpanText(text, ends, k) == SubSeq(text, IF k = 1 THEN 1 ELSE ends[k - 1] + 1, ends[k])

(* Para and Plain: the paragraph, then its sentences. *)
Para(len, ends) ==
  /\ Meet("blocks")
  /\ out' = Append(out, Child("paragraph", counter, count + 1, Text(len)))
              \o [k \in 1 .. Len(ends) |->
                    [type |-> "sentence", par |-> Len(out) + 1, pos |-> counter + k,
                     body |-> NoBody, text |-> SpanText(Text(len), ends, k)]]
  /\ counter' = counter + 1 + Len(ends)
  /\ loose' = IF Top.loose THEN Append(loose, count + 1) ELSE loose
  /\ open' = Joined(open, Text(len))
  /\ written' = written \o Text(len)
  /\ UNCHANGED stage

(* A block or an item with children of its own. *)
Open(met, type, hasContent, holds) ==
  /\ Meet(met)
  /\ out' = Append(out, Child(type, counter, IF hasContent THEN count + 1 ELSE NoBody, <<>>))
  /\ open' = Append(open, [node |-> Len(out) + 1, holds |-> holds, text |-> <<>>,
                           loose |-> Top.loose /\ type = "section"])
  /\ counter' = counter + 1
  /\ loose' = IF Top.loose /\ type # "section" THEN Append(loose, count + 1) ELSE loose
  /\ UNCHANGED <<stage, written>>

SlipBlockQuote == Open("blocks", "blockquote", FALSE, "blocks")
BlockQuote == Open("blocks", "blockquote", TRUE, "blocks")
(* OrderedList and BulletList: the list itself is a list_item too. *)
List == Open("blocks", "list_item", TRUE, "items")
Item == Open("items", "list_item", FALSE, "blocks")
Div == Open("blocks", "section", FALSE, "blocks")
Figure == Open("blocks", "section", TRUE, "blocks")

Null == Meet("blocks") /\ UNCHANGED <<stage, out, open, counter, loose, written>>

(* The children are walked: a container joins the texts of its children, a *)
(* list keeps an empty text.                                               *)
SlipTextOf(frame) == frame.text
TextOf(frame) == IF frame.holds = "items" THEN <<>> ELSE frame.text

Close ==
  /\ stage = "walk"
  /\ Len(open) > 1
  /\ out' = [out EXCEPT ![Top.node].text = TextOf(Top)]
  /\ open' = Joined(SubSeq(open, 1, Len(open) - 1), TextOf(Top))
  /\ UNCHANGED <<stage, counter, count, loose, written>>

Finish ==
  /\ stage = "walk"
  /\ Len(open) = 1
  /\ stage' = "done"
  /\ UNCHANGED <<out, open, counter, count, loose, written>>

Done == stage = "done" /\ UNCHANGED vars

Next ==
  \/ \E len \in 0 .. MaxText :
        \/ \E ends \in Tilings(len) : Para(len, ends)
        \/ Header(len) \/ CodeBlock(len) \/ LineBlock(len) \/ RawBlock(len)
        \/ DefinitionList(len)
  \/ Table \/ HorizontalRule \/ Null
  \/ BlockQuote \/ List \/ Item \/ Div \/ Figure
  \/ Close \/ Finish \/ Done

Spec == Init /\ [][Next]_vars

-----------------------------------------------------------------------------
(* collect_plain_text of pipeline/ingest.rs.  A node whose children have   *)
(* any text gives theirs, joined in their order; another gives its own.    *)
ChildTexts(tree, of, i) ==
  LET upTo[j \in i .. Len(tree)] ==
        IF j = i THEN <<>>
        ELSE upTo[j - 1] \o (IF tree[j].par = i THEN of[j] ELSE <<>>)
  IN upTo
PlainTexts(tree) ==
  LET of[i \in 1 .. Len(tree)] ==
        LET parts == ChildTexts(tree, of, i)[Len(tree)]
        IN IF parts = <<>> THEN tree[i].text ELSE parts
  IN of
Collected == PlainTexts(out)[1]

-----------------------------------------------------------------------------
(* The tree is one that an ingestion can store: the root first and alone,  *)
(* every parent before its children and able to have them, and positions   *)
(* that put the rows back into preorder when they are read by position,    *)
(* whatever was nested and left between two of them.                       *)
Storable ==
  /\ out[1].type = "document" /\ out[1].par = 0 /\ out[1].body = NoBody
  /\ \A i \in 2 .. Len(out) :
        /\ out[i].type # "document"
        /\ out[i].par \in 1 .. i - 1
        /\ out[i].pos > out[i - 1].pos
        /\ (out[i].type = "sentence" <=> out[out[i].par].type = "paragraph")

(* The text of the finished document is that of all its blocks, in their   *)
(* order and each once, though containers have copies of their children's  *)
(* texts and lists have none.                                              *)
RootCollectsAll == stage = "done" => Collected = written

(* A container that was left has the text of a block in it, each byte      *)
(* once, exactly if no list stands between them; a list has none.          *)
Ancestors ==
  LET of[i \in 1 .. Len(out)] ==
        IF i = 1 THEN {} ELSE {out[i].par} \cup of[out[i].par]
  IN of
IsList(i) == out[i].type = "list_item" /\ out[i].body # NoBody
Left == (2 .. Len(out)) \ {open[k].node : k \in 1 .. Len(open)}
Bytes(i) == {out[i].text[k] : k \in 1 .. Len(out[i].text)}
OwnText(i) == ~ \E j \in 2 .. Len(out) : out[j].par = i /\ out[j].type # "sentence"
HiddenBetween(i, c) == \E l \in Ancestors[i] : IsList(l) /\ (l = c \/ c \in Ancestors[l])
ContainersCollect ==
  \A c \in Left :
     /\ Cardinality(Bytes(c)) = Len(out[c].text)
     /\ \A i \in Left :
          c \in Ancestors[i] /\ OwnText(i) /\ out[i].text # <<>> =>
             IF HiddenBetween(i, c) THEN Bytes(i) \cap Bytes(c) = {}
                                    ELSE Bytes(i) \subseteq Bytes(c)
=============================================================================
