--------------------------- MODULE Segmenter_proofs ----------------------------
(***************************************************************************)
(* The tree of the block walk can be stored, its containers have the texts *)
(* they should, its root collects the text of every block, and what is     *)
(* stored reads back as the blocks of the document, for documents of any   *)
(* size and any depth.                                                     *)
(***************************************************************************)
EXTENDS MCSegmenter, SequenceTheorems, FiniteSetTheorems, WellFoundedInduction, TLAPS

USE BoundsAssumption

\* The nodes that the walk can be inside of: those that may have children, but for the
\* paragraph, whose sentences come with it.
Holder == {"document", "section", "blockquote", "list_item"}

\* The walk is inside nodes of the tree.
InsideHolders ==
  /\ Len(open) \in Nat \ {0}
  /\ \A k \in 1 .. Len(open) :
        open[k].node \in 1 .. Len(out) /\ out[open[k].node].type \in Holder

\* The counter is ahead of the position of the last node.
CounterAhead == Len(out) \in Nat \ {0} /\ out[Len(out)].pos < counter

TreeInv == TypeOK /\ Storable /\ InsideHolders /\ CounterAhead

-----------------------------------------------------------------------------
\* The text of a block has its bytes.
LEMMA TextIsBytes == ASSUME TypeOK, NEW len \in 0 .. MaxText PROVE Text(len) \in Seq(Byte) /\ Len(Text(len)) = len
<1>1. \A i \in 1 .. len : [block |-> count + 1, at |-> i] \in Byte
  BY DEF TypeOK, Byte
<1> QED  BY <1>1 DEF Text

\* The innermost loop is over the children of a node of the tree.
LEMMA TopIsHolder ==
  ASSUME TreeInv
  PROVE  /\ Top \in Frame /\ Len(open) \in 1 .. Len(open)
         /\ Top.node \in 1 .. Len(out) /\ out[Top.node].type \in Holder
  BY DEF TreeInv, TypeOK, InsideHolders, Top

\* A child of the innermost node is a node.
LEMMA ChildIsNode ==
  ASSUME TreeInv, NEW type \in NodeType, NEW pos \in Nat, NEW body \in Nat, NEW text \in Seq(Byte)
  PROVE  Child(type, pos, body, text) \in Node
  BY TopIsHolder DEF Child, Node, Frame

\* Joining one more text changes the text of the innermost loop only.
LEMMA JoinedFrames ==
  ASSUME NEW frames \in Seq(Frame), Len(frames) # 0, NEW text \in Seq(Byte)
  PROVE  /\ Joined(frames, text) \in Seq(Frame)
         /\ Len(Joined(frames, text)) = Len(frames)
         /\ \A k \in 1 .. Len(frames) : /\ Joined(frames, text)[k].node = frames[k].node
                                        /\ Joined(frames, text)[k].loose = frames[k].loose
<1> DEFINE n == Len(frames)
           last == [frames[n] EXCEPT !.text = @ \o text]
<1>1. n \in 1 .. Len(frames) /\ frames[n] \in Frame
  OBVIOUS
<1>2. frames[n].text \o text \in Seq(Byte)
  BY <1>1, ConcatProperties DEF Frame
<1>3. last \in Frame /\ last.node = frames[n].node /\ last.loose = frames[n].loose
  BY <1>1, <1>2 DEF Frame
<1>4. Joined(frames, text) = [frames EXCEPT ![n] = last]
  BY <1>1 DEF Joined, Frame
<1> HIDE DEF last
<1> QED  BY <1>1, <1>3, <1>4, ExceptSeq

-----------------------------------------------------------------------------
\* One more node, a child of the innermost node at the counter's position, leaves a tree
\* that can be stored, and the walk inside it.
LEMMA OneMore ==
  ASSUME TreeInv, NEW type \in NodeType \ {"document", "sentence"}, NEW body \in Nat,
         NEW text \in Seq(Byte), out' = Append(out, Child(type, counter, body, text)),
         counter' = counter + 1
  PROVE  /\ out' \in Seq(Node) /\ counter' \in Nat /\ Storable' /\ CounterAhead'
         /\ Len(out') = Len(out) + 1
         /\ out'[Len(out) + 1].type = type
         /\ \A i \in 1 .. Len(out) : out'[i] = out[i]
<1> DEFINE new == Child(type, counter, body, text)
<1>1. new \in Node /\ out \in Seq(Node) /\ counter \in Nat
  BY ChildIsNode DEF TreeInv, TypeOK
<1>2. /\ new.type = type /\ new.pos = counter
      /\ new.par \in 1 .. Len(out) /\ out[new.par].type # "paragraph"
  BY TopIsHolder DEF Child, Holder
<1> HIDE DEF new
<1>3. /\ out' \in Seq(Node) /\ Len(out') = Len(out) + 1
      /\ out'[Len(out) + 1] = new
      /\ \A i \in 1 .. Len(out) : out'[i] = out[i]
  BY <1>1 DEF new
<1>4. Storable'
  <2>1. Len(out) \in Nat \ {0}
    BY DEF TreeInv, CounterAhead
  <2>2. ASSUME NEW i \in 2 .. Len(out)
        PROVE  /\ out'[i].type # "document"
               /\ out'[i].par \in 1 .. i - 1
               /\ out'[i].pos > out'[i - 1].pos
               /\ (out'[i].type = "sentence" <=> out'[out'[i].par].type = "paragraph")
    <3>1. /\ out[i].type # "document"
          /\ out[i].par \in 1 .. i - 1
          /\ out[i].pos > out[i - 1].pos
          /\ (out[i].type = "sentence" <=> out[out[i].par].type = "paragraph")
      BY DEF TreeInv, Storable
    <3>2. out'[i] = out[i] /\ out'[i - 1] = out[i - 1] /\ out'[out[i].par] = out[out[i].par]
      BY <1>3, <2>1, <3>1, SMTT(40)
    <3> QED  BY <3>1, <3>2
  <2>3. LET i == Len(out) + 1
        IN  /\ out'[i].type # "document"
            /\ out'[i].par \in 1 .. i - 1
            /\ out'[i].pos > out'[i - 1].pos
            /\ (out'[i].type = "sentence" <=> out'[out'[i].par].type = "paragraph")
    BY <1>2, <1>3, <2>1 DEF TreeInv, CounterAhead
  <2>4. out'[1] = out[1]
    BY <1>3, <2>1
  <2> QED  BY <1>3, <2>1, <2>2, <2>3, <2>4, SMTT(40) DEF TreeInv, Storable
<1>5. CounterAhead'
  BY <1>1, <1>2, <1>3 DEF TreeInv, CounterAhead
<1> QED  BY <1>1, <1>2, <1>3, <1>4, <1>5

\* The walk stays inside the same nodes when nodes are added after them.
LEMMA StillInside ==
  ASSUME TreeInv, open' \in Seq(Frame), Len(open') = Len(open), Len(out') >= Len(out), Len(out') \in Nat,
         \A k \in 1 .. Len(open) : open'[k].node = open[k].node,
         \A i \in 1 .. Len(out) : out'[i].type = out[i].type
  PROVE  InsideHolders'
<1>1. /\ Len(open) \in Nat \ {0} /\ Len(out) \in Nat
      /\ \A k \in 1 .. Len(open) :
            open[k].node \in 1 .. Len(out) /\ out[open[k].node].type \in Holder
  BY DEF TreeInv, InsideHolders, CounterAhead
<1>2. \A k \in 1 .. Len(open) :
         open'[k].node \in 1 .. Len(out') /\ out'[open'[k].node].type \in Holder
  BY <1>1, SMTT(40)
<1> QED  BY <1>1, <1>2 DEF InsideHolders

\* What is met is counted.
LEMMA Counted ==
  ASSUME TreeInv PROVE count + 1 \in Nat /\ NoBody \in Nat /\ Append(loose, count + 1) \in Seq(Nat)
  BY DEF TreeInv, TypeOK, NoBody

-----------------------------------------------------------------------------
\* The document alone.
LEMMA InitTree == Init => TreeInv
  BY DEF Init, Root, TreeInv, TypeOK, Node, NodeType, NoBody, Byte, Frame, Storable, InsideHolders,
         CounterAhead, Holder

\* A block that becomes one node.
LEMMA SingleTree ==
  ASSUME TreeInv, NEW type \in NodeType \ {"document", "sentence"}, NEW text \in Seq(Byte),
         Single(type, text)
  PROVE  TreeInv'
<1>1. /\ out' \in Seq(Node) /\ counter' \in Nat /\ Storable' /\ CounterAhead'
      /\ Len(out') = Len(out) + 1
      /\ \A i \in 1 .. Len(out) : out'[i] = out[i]
  BY OneMore, Counted DEF Single
<1>2. /\ open' \in Seq(Frame) /\ Len(open') = Len(open)
      /\ \A k \in 1 .. Len(open) : open'[k].node = open[k].node
  BY JoinedFrames DEF Single, TreeInv, TypeOK, InsideHolders
<1>3. InsideHolders'
  BY <1>1, <1>2, StillInside DEF TreeInv, TypeOK
<1>4. written' \in Seq(Byte)
  BY ConcatProperties DEF Single, TreeInv, TypeOK
<1>5. TypeOK'
  BY <1>1, <1>2, <1>4, Counted DEF Single, Meet, TreeInv, TypeOK
<1> QED  BY <1>1, <1>3, <1>5 DEF TreeInv

\* A block or an item with children of its own: the walk goes inside it.
LEMMA OpenTree ==
  ASSUME TreeInv, NEW met, NEW type \in Holder \ {"document"}, NEW hasContent \in BOOLEAN,
         NEW holds \in {"blocks", "items"}, Open(met, type, hasContent, holds)
  PROVE  TreeInv'
<1> DEFINE frame == [node |-> Len(out) + 1, holds |-> holds, text |-> <<>>,
                     loose |-> Top.loose /\ type = "section"]
           body == IF hasContent THEN count + 1 ELSE NoBody
<1>1. body \in Nat /\ type \in NodeType \ {"document", "sentence"} /\ <<>> \in Seq(Byte)
  BY Counted DEF Holder, NodeType
<1>2. /\ out' \in Seq(Node) /\ counter' \in Nat /\ Storable' /\ CounterAhead'
      /\ Len(out') = Len(out) + 1
      /\ out'[Len(out) + 1].type = type
      /\ \A i \in 1 .. Len(out) : out'[i] = out[i]
  <2> HIDE DEF body
  <2>1. out' = Append(out, Child(type, counter, body, <<>>)) /\ counter' = counter + 1
    BY DEF Open, body
  <2> QED  BY <1>1, <2>1, OneMore
<1>3. frame \in Frame /\ frame.node = Len(out) + 1
  BY TopIsHolder DEF TreeInv, TypeOK, Frame
<1>4. open' = Append(open, frame)
  BY DEF Open
<1> HIDE DEF frame, body
<1>5. open' \in Seq(Frame) /\ InsideHolders'
  <2>1. open \in Seq(Frame) /\ Len(open) \in Nat \ {0} /\ Len(out) \in Nat
    BY DEF TreeInv, TypeOK, InsideHolders
  <2>2. /\ open' \in Seq(Frame) /\ Len(open') = Len(open) + 1
        /\ open'[Len(open) + 1] = frame
        /\ \A k \in 1 .. Len(open) : open'[k] = open[k]
    BY <1>3, <1>4, <2>1
  <2>3. \A k \in 1 .. Len(open) : /\ open'[k].node \in 1 .. Len(out')
                                  /\ out'[open'[k].node].type \in Holder
    BY <1>2, <2>1, <2>2 DEF TreeInv, InsideHolders
  <2>4. /\ open'[Len(open) + 1].node \in 1 .. Len(out')
        /\ out'[open'[Len(open) + 1].node].type \in Holder
    BY <1>2, <1>3, <2>1, <2>2
  <2> QED  BY <2>1, <2>2, <2>3, <2>4 DEF InsideHolders
<1>6. TypeOK'
  BY <1>2, <1>5, Counted DEF Open, Meet, TreeInv, TypeOK
<1> QED  BY <1>2, <1>5, <1>6 DEF TreeInv

-----------------------------------------------------------------------------
\* The sentences of a paragraph have parts of its text, and are nodes.
LEMMA SentencesAreNodes ==
  ASSUME TreeInv, NEW len \in 0 .. MaxText, NEW ends \in Tilings(len), NEW k \in 1 .. Len(ends)
  PROVE  [type |-> "sentence", par |-> Len(out) + 1, pos |-> counter + k, body |-> NoBody,
          text |-> SpanText(Text(len), ends, k)] \in Node
<1>1. Len(ends) \in Nat /\ \A i \in 1 .. Len(ends) : ends[i] \in 1 .. len
  BY DEF Tilings
<1>2. k > 1 => ends[k - 1] \in 1 .. len
  BY <1>1
<1>3. SpanText(Text(len), ends, k) \in Seq(Byte)
  <2> DEFINE a == IF k = 1 THEN 1 ELSE ends[k - 1] + 1
  <2>1. a \in Int /\ ends[k] \in Int /\ a >= 1 /\ ends[k] <= len
    BY <1>1, <1>2
  <2>2. Text(len) \in Seq(Byte) /\ Len(Text(len)) = len
    BY TextIsBytes DEF TreeInv
  <2> HIDE DEF a
  <2>3. \A i \in a .. ends[k] : Text(len)[i] \in Byte
    BY <2>1, <2>2, ElementOfSeq
  <2>4. SubSeq(Text(len), a, ends[k]) \in Seq(Byte)
    BY <2>1, <2>3, SubSeqProperties
  <2> QED  BY <2>4 DEF a, SpanText
<1>4. Len(out) + 1 \in Nat /\ counter + k \in Nat /\ NoBody \in Nat
  BY <1>1 DEF TreeInv, TypeOK, NoBody
<1> QED  BY <1>3, <1>4 DEF Node, NodeType

\* A paragraph with its sentences, each at the next position.
LEMMA ParaTree ==
  ASSUME TreeInv, NEW len \in 0 .. MaxText, NEW ends \in Tilings(len), Para(len, ends)
  PROVE  TreeInv'
<1> DEFINE para == Child("paragraph", counter, count + 1, Text(len))
           sentences == [k \in 1 .. Len(ends) |->
                           [type |-> "sentence", par |-> Len(out) + 1, pos |-> counter + k,
                            body |-> NoBody, text |-> SpanText(Text(len), ends, k)]]
           L == Len(out)
<1>1. out \in Seq(Node) /\ L \in Nat \ {0} /\ counter \in Nat /\ Text(len) \in Seq(Byte)
  BY TextIsBytes DEF TreeInv, TypeOK, CounterAhead
<1>2. para \in Node
  BY <1>1, ChildIsNode, Counted DEF NodeType
<1>3. para.type = "paragraph" /\ para.pos = counter /\ para.par \in 1 .. L
      /\ out[para.par].type # "paragraph"
  BY TopIsHolder DEF Child, Holder
<1>4. Len(ends) \in Nat
  BY DEF Tilings
<1>5. /\ sentences \in Seq(Node) /\ Len(sentences) = Len(ends)
      /\ \A k \in 1 .. Len(ends) : /\ sentences[k].type = "sentence"
                                   /\ sentences[k].par = L + 1
                                   /\ sentences[k].pos = counter + k
  BY <1>4, SentencesAreNodes
<1>6. out' = Append(out, para) \o sentences
  BY DEF Para
<1> HIDE DEF para, sentences, L
<1>7. Append(out, para) \in Seq(Node) /\ Len(Append(out, para)) = L + 1
      /\ Append(out, para)[L + 1] = para
      /\ \A i \in 1 .. L : Append(out, para)[i] = out[i]
  BY <1>1, <1>2 DEF L
<1>8. out' \in Seq(Node) /\ Len(out') = L + 1 + Len(ends)
  BY <1>5, <1>6, <1>7, ConcatProperties
<1>9. \A i \in 1 .. L + 1 + Len(ends) :
         out'[i] = IF i <= L + 1 THEN Append(out, para)[i] ELSE sentences[i - (L + 1)]
  BY <1>5, <1>6, <1>7, ConcatProperties
<1>10. \A i \in 1 .. L : out'[i] = out[i]
  BY <1>1, <1>4, <1>7, <1>9
<1>11. out'[L + 1] = para
  BY <1>1, <1>4, <1>7, <1>9
<1>12. \A i \in L + 2 .. L + 1 + Len(ends) :
          /\ out'[i].type = "sentence" /\ out'[i].par = L + 1
          /\ out'[i].pos = counter + (i - (L + 1))
  <2> SUFFICES ASSUME NEW i \in L + 2 .. L + 1 + Len(ends)
               PROVE  /\ out'[i].type = "sentence" /\ out'[i].par = L + 1
                      /\ out'[i].pos = counter + (i - (L + 1))
    OBVIOUS
  <2>1. i - (L + 1) \in 1 .. Len(ends) /\ i \in 1 .. L + 1 + Len(ends) /\ ~ (i <= L + 1)
    BY <1>1, <1>4
  <2>2. out'[i] = sentences[i - (L + 1)]
    BY <1>9, <2>1
  <2> QED  BY <1>5, <2>1, <2>2
<1>13. Storable'
  <2> DEFINE Placed(i) == /\ out'[i].type # "document"
                          /\ out'[i].par \in 1 .. i - 1
                          /\ out'[i].pos > out'[i - 1].pos
                          /\ (out'[i].type = "sentence" <=> out'[out'[i].par].type = "paragraph")
  <2>1. ASSUME NEW i \in 2 .. L PROVE Placed(i)
    <3>1. /\ out[i].type # "document"
          /\ out[i].par \in 1 .. i - 1
          /\ out[i].pos > out[i - 1].pos
          /\ (out[i].type = "sentence" <=> out[out[i].par].type = "paragraph")
      BY DEF TreeInv, Storable, L
    <3>2. out'[i] = out[i] /\ out'[i - 1] = out[i - 1] /\ out'[out[i].par] = out[out[i].par]
      BY <1>1, <1>10, <3>1
    <3> QED  BY <3>1, <3>2
  <2>2. Placed(L + 1)
    <3>1. out'[L].pos < counter
      BY <1>1, <1>10 DEF TreeInv, CounterAhead, L
    <3>2. out'[para.par] = out[para.par]
      BY <1>3, <1>10
    <3> QED  BY <1>1, <1>3, <1>11, <3>1, <3>2
  <2>3. ASSUME NEW i \in L + 2 .. L + 1 + Len(ends) PROVE Placed(i)
    <3>1. out'[i].type = "sentence" /\ out'[i].par = L + 1 /\ out'[i].pos = counter + (i - (L + 1))
      BY <1>12
    <3>2. out'[L + 1].type = "paragraph" /\ out'[L + 1].pos = counter
      BY <1>3, <1>11
    <3>3. out'[i - 1].pos < out'[i].pos
      <4>1. CASE i = L + 2
        <5>1. i - 1 = L + 1 /\ i - (L + 1) = 1
          BY <1>1, <4>1
        <5>2. out'[i - 1].pos = counter
          BY <3>2, <5>1
        <5>3. out'[i].pos = counter + 1
          BY <3>1, <5>1
        <5> QED  BY <1>1, <5>2, <5>3
      <4>2. CASE i # L + 2
        <5>1. i - 1 \in L + 2 .. L + 1 + Len(ends)
          BY <1>1, <1>4, <4>2
        <5>2. out'[i - 1].pos = counter + ((i - 1) - (L + 1))
          BY <1>12, <5>1
        <5> QED  BY <1>1, <3>1, <5>2
      <4> QED  BY <4>1, <4>2
    <3>4. out'[i - 1].pos \in Nat /\ out'[i].pos \in Nat
      <4>1. i - 1 \in 1 .. Len(out') /\ i \in 1 .. Len(out')
        BY <1>1, <1>4, <1>8
      <4>2. out'[i - 1] \in Node /\ out'[i] \in Node
        BY <1>8, <4>1, ElementOfSeq
      <4> QED  BY <4>2 DEF Node
    <3> QED  BY <1>1, <3>1, <3>2, <3>3, <3>4
  <2>4. out'[1] = out[1]
    BY <1>1, <1>10
  <2> HIDE DEF Placed
  <2>5. \A i \in 2 .. Len(out') : Placed(i)
    BY <1>1, <1>4, <1>8, <2>1, <2>2, <2>3
  <2> QED  BY <2>4, <2>5 DEF Placed, TreeInv, Storable
<1>14. counter' = counter + 1 + Len(ends)
  BY DEF Para
<1>15. CounterAhead'
  <2>1. CASE Len(ends) = 0
    BY <1>1, <1>3, <1>8, <1>11, <1>14, <2>1 DEF CounterAhead
  <2>2. CASE Len(ends) # 0
    <3>1. out'[L + 1 + Len(ends)].pos = counter + Len(ends)
      BY <1>1, <1>4, <1>12, <2>2
    <3> QED  BY <1>1, <1>4, <1>8, <1>14, <3>1 DEF CounterAhead
  <2> QED  BY <2>1, <2>2
<1>16. /\ open' \in Seq(Frame) /\ Len(open') = Len(open)
       /\ \A k \in 1 .. Len(open) : open'[k].node = open[k].node
  BY <1>1, JoinedFrames DEF Para, TreeInv, TypeOK, InsideHolders
<1>17. InsideHolders'
  <2>1. Len(out') \in Nat /\ Len(out') >= Len(out) /\ \A i \in 1 .. Len(out) : out'[i].type = out[i].type
    BY <1>1, <1>4, <1>8, <1>10 DEF L
  <2> QED  BY <1>16, <2>1, StillInside
<1>18. written' \in Seq(Byte)
  BY <1>1, ConcatProperties DEF Para, TreeInv, TypeOK
<1>19. TypeOK'
  <2>1. stage' = stage /\ count' = count + 1 /\ loose' \in {loose, Append(loose, count + 1)}
    BY DEF Para, Meet
  <2>2. counter' \in Nat
    BY <1>1, <1>4, <1>14
  <2>3. stage \in {"walk", "done"} /\ loose \in Seq(Nat)
    BY DEF TreeInv, TypeOK
  <2> QED  BY <1>8, <1>16, <1>18, <2>1, <2>2, <2>3, Counted DEF TypeOK
<1> QED  BY <1>13, <1>15, <1>17, <1>19 DEF TreeInv

-----------------------------------------------------------------------------
\* Leaving a node gives it its text, and changes nothing else of the tree.
LEMMA CloseTree == ASSUME TreeInv, Close PROVE TreeInv'
<1> DEFINE n == Top.node
           text == TextOf(Top)
           rest == SubSeq(open, 1, Len(open) - 1)
<1>1. Top \in Frame /\ n \in 1 .. Len(out) /\ out \in Seq(Node) /\ open \in Seq(Frame) /\ Len(open) > 1
  BY TopIsHolder DEF TreeInv, TypeOK, Close
<1>2. text \in Seq(Byte)
  BY <1>1 DEF TextOf, Frame
<1>3. /\ rest \in Seq(Frame) /\ Len(rest) = Len(open) - 1
      /\ \A k \in 1 .. Len(open) - 1 : rest[k] = open[k]
  BY <1>1
<1>4. out' = [out EXCEPT ![n].text = text] /\ open' = Joined(rest, text)
  BY DEF Close
<1> HIDE DEF n, text, rest
<1>5. /\ open' \in Seq(Frame) /\ Len(open') = Len(open) - 1
      /\ \A k \in 1 .. Len(open) - 1 : open'[k].node = open[k].node
  BY <1>1, <1>2, <1>3, <1>4, JoinedFrames
<1>6. /\ out' \in Seq(Node) /\ Len(out') = Len(out)
      /\ \A i \in 1 .. Len(out) : /\ out'[i].type = out[i].type /\ out'[i].par = out[i].par
                                  /\ out'[i].pos = out[i].pos /\ out'[i].body = out[i].body
  <2> DEFINE node == [out[n] EXCEPT !.text = text]
  <2>1. out[n] \in Node
    BY <1>1, ElementOfSeq
  <2>2. node \in Node /\ node.type = out[n].type /\ node.par = out[n].par
        /\ node.pos = out[n].pos /\ node.body = out[n].body
    BY <1>2, <2>1 DEF Node
  <2>3. out' = [out EXCEPT ![n] = node]
    BY <1>1, <1>4, <2>1 DEF Node
  <2> HIDE DEF node
  <2>4. /\ out' \in Seq(Node) /\ Len(out') = Len(out)
        /\ \A i \in 1 .. Len(out) : out'[i] = IF i = n THEN node ELSE out[i]
    BY <1>1, <2>2, <2>3, ExceptSeq
  <2> QED  BY <2>2, <2>4
<1>7. Storable'
  <2>1. Len(out) \in Nat \ {0}
    BY DEF TreeInv, CounterAhead
  <2>2. \A i \in 2 .. Len(out) : out[i].par \in 1 .. i - 1
    BY DEF TreeInv, Storable
  <2>3. \A i \in 2 .. Len(out) : out'[out'[i].par].type = out[out[i].par].type
    BY <1>6, <2>1, <2>2
  <2>4. ASSUME NEW i \in 2 .. Len(out')
        PROVE  /\ out'[i].type # "document"
               /\ out'[i].par \in 1 .. i - 1
               /\ out'[i].pos > out'[i - 1].pos
               /\ (out'[i].type = "sentence" <=> out'[out'[i].par].type = "paragraph")
    <3>1. /\ out[i].type # "document"
          /\ out[i].par \in 1 .. i - 1
          /\ out[i].pos > out[i - 1].pos
          /\ (out[i].type = "sentence" <=> out[out[i].par].type = "paragraph")
      BY <1>6 DEF TreeInv, Storable
    <3>2. i \in 1 .. Len(out) /\ i - 1 \in 1 .. Len(out) /\ i \in 2 .. Len(out)
      BY <1>6, <2>1
    <3> QED  BY <1>6, <2>3, <3>1, <3>2
  <2>5. out'[1].type = "document" /\ out'[1].par = 0 /\ out'[1].body = NoBody
    BY <1>6, <2>1 DEF TreeInv, Storable
  <2> QED  BY <2>4, <2>5 DEF Storable
<1>8. CounterAhead'
  BY <1>6 DEF Close, TreeInv, CounterAhead
<1>9. InsideHolders'
  <2>1. Len(open') \in Nat \ {0}
    BY <1>1, <1>5
  <2>2. ASSUME NEW k \in 1 .. Len(open')
        PROVE  open'[k].node \in 1 .. Len(out') /\ out'[open'[k].node].type \in Holder
    <3>1. k \in 1 .. Len(open) /\ open'[k].node = open[k].node
      BY <1>1, <1>5
    <3>2. open[k].node \in 1 .. Len(out) /\ out[open[k].node].type \in Holder
      BY <3>1 DEF TreeInv, InsideHolders
    <3> QED  BY <1>6, <3>1, <3>2
  <2> QED  BY <2>1, <2>2 DEF InsideHolders
<1>10. TypeOK'
  BY <1>5, <1>6 DEF Close, TreeInv, TypeOK
<1> QED  BY <1>7, <1>8, <1>9, <1>10 DEF TreeInv

\* Steps that leave the tree alone.
LEMMA SameTree ==
  ASSUME TreeInv, UNCHANGED <<out, open, counter>>, stage' \in {"walk", "done"}, count' \in Nat,
         UNCHANGED <<loose, written>>
  PROVE  TreeInv'
<1>1. TypeOK'
  BY DEF TreeInv, TypeOK
<1>2. Storable'
  BY DEF TreeInv, Storable
<1>3. InsideHolders'
  BY DEF TreeInv, InsideHolders
<1>4. CounterAhead'
  BY DEF TreeInv, CounterAhead
<1> QED  BY <1>1, <1>2, <1>3, <1>4 DEF TreeInv

\* Every step.
LEMMA NextTree == TreeInv /\ [Next]_vars => TreeInv'
<1> SUFFICES ASSUME TreeInv, [Next]_vars PROVE TreeInv'
  OBVIOUS
<1>1. ASSUME NEW len \in 0 .. MaxText, NEW ends \in Tilings(len), Para(len, ends) PROVE TreeInv'
  BY <1>1, ParaTree
<1>2. ASSUME NEW len \in 0 .. MaxText,
             Header(len) \/ CodeBlock(len) \/ LineBlock(len) \/ RawBlock(len) \/ DefinitionList(len)
      PROVE  TreeInv'
  <2>1. Text(len) \in Seq(Byte)
    BY TextIsBytes DEF TreeInv
  <2> QED  BY <1>2, <2>1, SingleTree DEF Header, CodeBlock, LineBlock, RawBlock, DefinitionList, NodeType
<1>3. CASE Table \/ HorizontalRule
  <2>1. <<>> \in Seq(Byte)
    OBVIOUS
  <2> QED  BY <1>3, <2>1, SingleTree DEF Table, HorizontalRule, NodeType
<1>4. CASE BlockQuote \/ List \/ Item \/ Div \/ Figure
  BY <1>4, OpenTree DEF BlockQuote, List, Item, Div, Figure, Holder
<1>5. CASE Null
  BY <1>5, SameTree, Counted DEF Null, Meet, TreeInv, TypeOK
<1>6. CASE Close
  BY <1>6, CloseTree
<1>7. CASE Finish
  BY <1>7, SameTree DEF Finish, TreeInv, TypeOK
<1>8. CASE Done \/ UNCHANGED vars
  BY <1>8, SameTree DEF Done, vars, TreeInv, TypeOK
<1> QED  BY <1>1, <1>2, <1>3, <1>4, <1>5, <1>6, <1>7, <1>8 DEF Next

\* The invariant of the block walk.
THEOREM TreeInvariance == Spec => []TreeInv
  BY InitTree, NextTree, PTL DEF Spec

\* Every node, frame, text and history has its type throughout the walk.
THEOREM TreeTypes == Spec => []TypeOK
<1>1. TreeInv => TypeOK
  BY DEF TreeInv
<1> QED  BY <1>1, TreeInvariance, PTL

\* The tree can be stored whatever the document: the root first, parents before children
\* and able to have them, positions in preorder, sentences in paragraphs only.
THEOREM TreeStorable == Spec => []Storable
<1>1. TreeInv => Storable
  BY DEF TreeInv
<1> QED  BY <1>1, TreeInvariance, PTL

-----------------------------------------------------------------------------
\* A set of numbers has a least one: what is shown of the nodes in their order is shown by
\* the first for which it would fail.
LEMMA LeastNumber ==
  ASSUME NEW A \in SUBSET Nat, A # {}
  PROVE  \E m \in A : \A k \in A : m <= k
<1> DEFINE less == {ss \in Nat \X Nat : ss[1] < ss[2]}
<1>1. IsWellFoundedOn(less, Nat)
  BY NatLessThanWellFounded DEF OpToRel
<1> HIDE DEF less
<1>2. PICK m \in A : \A k \in A : ~ (<<k, m>> \in less)
  BY <1>1, WFMin, Zenon
<1>3. ASSUME NEW k \in A PROVE m <= k
  <2>1. k \in Nat /\ m \in Nat /\ ~ (<<k, m>> \in less)
    BY <1>2
  <2>2. <<k, m>> \in Nat \X Nat /\ <<k, m>>[1] = k /\ <<k, m>>[2] = m
    BY <2>1
  <2>3. ~ (k < m)
    BY <2>1, <2>2 DEF less
  <2> QED  BY <2>1, <2>3
<1> QED  BY <1>2, <1>3

-----------------------------------------------------------------------------
\* The ancestors of a node are its parent and its parent's.
Climbs(n, f) == f = [i \in 1 .. n |-> IF i = 1 THEN {} ELSE {out[i].par} \cup f[out[i].par]]

ParentsFirst == Len(out) \in Nat \ {0} /\ \A i \in 2 .. Len(out) : out[i].par \in 1 .. i - 1

AncestorsAre ==
  \A i \in 1 .. Len(out) :
     Ancestors[i] = IF i = 1 THEN {} ELSE {out[i].par} \cup Ancestors[out[i].par]

\* There are such functions, of any length.
LEMMA ClimbExists ==
  ASSUME ParentsFirst
  PROVE  \A n \in 0 .. Len(out) : \E f : Climbs(n, f)
<1> DEFINE Failing == {n \in 0 .. Len(out) : ~ \E f : Climbs(n, f)}
<1> SUFFICES ASSUME Failing # {} PROVE FALSE
  OBVIOUS
<1>1. PICK n \in Failing : \A k \in Failing : n <= k
  <2>1. Failing \in SUBSET Nat
    BY DEF ParentsFirst
  <2> QED  BY <2>1, LeastNumber, Zenon
<1>2. n \in 0 .. Len(out) /\ Len(out) \in Nat /\ ~ \E f : Climbs(n, f)
  BY <1>1 DEF ParentsFirst
<1>3. CASE n = 0
  <2>1. 1 .. 0 = {}
    OBVIOUS
  <2>2. Climbs(0, [i \in 1 .. 0 |-> {}])
    BY <2>1 DEF Climbs
  <2> QED  BY <1>2, <1>3, <2>2
<1>4. CASE n # 0
  <2>1. n - 1 \in 0 .. Len(out) /\ n - 1 \notin Failing
    BY <1>1, <1>2, <1>4
  <2>2. PICK g : Climbs(n - 1, g)
    BY <2>1
  <2> DEFINE up(h, i) == IF i = 1 THEN {} ELSE {out[i].par} \cup h[out[i].par]
             f == [i \in 1 .. n |-> IF i = n THEN up(g, n) ELSE g[i]]
  <2>3. \A i \in 1 .. n - 1 : g[i] = up(g, i)
    BY <2>2, Zenon DEF Climbs
  <2>4. 1 .. n = (1 .. n - 1) \cup {n} /\ n \notin 1 .. n - 1
    BY <1>2, <1>4
  <2>5. f[n] = up(g, n) /\ \A i \in 1 .. n - 1 : f[i] = g[i]
    BY <2>4
  <2>6. \A i \in 1 .. n : i # 1 => out[i].par \in 1 .. n - 1
    BY <1>2 DEF ParentsFirst
  <2> HIDE DEF f
  <2>7. \A i \in 1 .. n : f[i] = up(f, i)
    BY <2>3, <2>4, <2>5, <2>6, Zenon
  <2>8. f = [i \in 1 .. n |-> f[i]]
    BY DEF f
  <2>9. Climbs(n, f)
    BY <2>7, <2>8, Zenon DEF Climbs
  <2> QED  BY <1>2, <2>9
<1> QED  BY <1>3, <1>4

\* So Ancestors is one.
LEMMA AncestorsWell == ParentsFirst => AncestorsAre
<1> SUFFICES ASSUME ParentsFirst PROVE AncestorsAre
  OBVIOUS
<1>1. PICK f : Climbs(Len(out), f)
  BY ClimbExists DEF ParentsFirst
<1>2. f = [i \in 1 .. Len(out) |-> IF i = 1 THEN {} ELSE {out[i].par} \cup f[out[i].par]]
  BY <1>1, Zenon DEF Climbs
<1>3. Ancestors = CHOOSE g : g = [i \in 1 .. Len(out) |->
                                    IF i = 1 THEN {} ELSE {out[i].par} \cup g[out[i].par]]
  BY Zenon DEF Ancestors
<1>4. Ancestors = [i \in 1 .. Len(out) |->
                      IF i = 1 THEN {} ELSE {out[i].par} \cup Ancestors[out[i].par]]
  BY <1>2, <1>3, Zenon
<1> HIDE DEF Ancestors
<1> QED  BY <1>4, Zenon DEF AncestorsAre

\* They come before it, and each is an ancestor of those between.
AncestorsOrdered ==
  \A i \in 1 .. Len(out) :
     /\ Ancestors[i] \subseteq 1 .. i - 1
     /\ \A b \in Ancestors[i] : Ancestors[b] \subseteq Ancestors[i]
     /\ \A a, b \in Ancestors[i] : a < b => a \in Ancestors[b]

\* A parent comes before its children, and its ancestors before it.
LEMMA AncestorsInOrder == ParentsFirst => AncestorsOrdered
<1> SUFFICES ASSUME ParentsFirst PROVE AncestorsOrdered
  OBVIOUS
<1> DEFINE Fine(i) == /\ Ancestors[i] \subseteq 1 .. i - 1
                      /\ \A b \in Ancestors[i] : Ancestors[b] \subseteq Ancestors[i]
                      /\ \A a, b \in Ancestors[i] : a < b => a \in Ancestors[b]
           Failing == {i \in 1 .. Len(out) : ~Fine(i)}
<1>1. AncestorsAre /\ Len(out) \in Nat
  BY AncestorsWell DEF ParentsFirst
<1>2. ASSUME Failing # {} PROVE FALSE
  <2>1. PICK n \in Failing : \A k \in Failing : n <= k
    <3>1. Failing \in SUBSET Nat
      BY <1>1
    <3> QED  BY <1>2, <3>1, LeastNumber, Zenon
  <2>2. n \in 1 .. Len(out) /\ ~Fine(n)
    OBVIOUS
  <2>3. CASE n = 1
    <3>1. Ancestors[1] = {}
      BY <1>1, <2>2, <2>3, Zenon DEF AncestorsAre
    <3> QED  BY <2>2, <2>3, <3>1
  <2>4. CASE n # 1
    <3> DEFINE p == out[n].par
    <3>1. p \in 1 .. n - 1 /\ p \in 1 .. Len(out)
      BY <1>1, <2>2, <2>4 DEF ParentsFirst
    <3>2. Ancestors[n] = {p} \cup Ancestors[p]
      BY <1>1, <2>2, <2>4, Zenon DEF AncestorsAre
    <3>3. p \notin Failing
      BY <1>1, <2>1, <2>2, <3>1
    <3>4. Fine(p)
      BY <3>1, <3>3
    <3> HIDE DEF p
    <3>5. Ancestors[p] \subseteq 1 .. p - 1
      BY <3>4
    <3>6. Ancestors[n] \subseteq 1 .. n - 1
      BY <1>1, <2>2, <3>1, <3>2, <3>5
    <3>7. \A b \in Ancestors[n] : Ancestors[b] \subseteq Ancestors[n]
      BY <3>2, <3>4
    <3>8. ASSUME NEW a \in Ancestors[n], NEW b \in Ancestors[n], a < b
          PROVE  a \in Ancestors[b]
      <4>1. CASE b = p
        BY <1>1, <2>2, <3>1, <3>2, <3>8, <4>1
      <4>2. CASE b # p
        <5>1. b \in Ancestors[p] /\ b \in 1 .. p - 1
          BY <3>2, <3>5, <4>2
        <5>2. a \in Ancestors[p]
          BY <1>1, <2>2, <3>1, <3>2, <3>5, <3>8, <5>1
        <5> QED  BY <3>4, <3>8, <5>1, <5>2
      <4> QED  BY <4>1, <4>2
    <3> QED  BY <2>2, <3>6, <3>7, <3>8
  <2> QED  BY <2>3, <2>4
<1> QED  BY <1>2 DEF AncestorsOrdered

\* Nodes that are added leave the ancestors of the others.
LEMMA AncestorsStay ==
  ASSUME ParentsFirst, ParentsFirst', Len(out) <= Len(out'),
         \A i \in 1 .. Len(out) : out'[i].par = out[i].par
  PROVE  \A i \in 1 .. Len(out) : Ancestors'[i] = Ancestors[i]
<1> DEFINE Failing == {i \in 1 .. Len(out) : Ancestors'[i] # Ancestors[i]}
<1>1. AncestorsAre /\ AncestorsAre' /\ Len(out) \in Nat /\ Len(out') \in Nat
  <2>1. AncestorsAre /\ Len(out) \in Nat /\ Len(out') \in Nat
    BY AncestorsWell DEF ParentsFirst
  <2>2. AncestorsAre'
    BY AncestorsWell, PTL
  <2> QED  BY <2>1, <2>2
<1>2. ASSUME Failing # {} PROVE FALSE
  <2>1. PICK n \in Failing : \A k \in Failing : n <= k
    <3>1. Failing \in SUBSET Nat
      BY <1>1
    <3> QED  BY <1>2, <3>1, LeastNumber, Zenon
  <2>2. n \in 1 .. Len(out) /\ n \in 1 .. Len(out') /\ Ancestors'[n] # Ancestors[n]
    BY <1>1
  <2>3. n # 1 => out[n].par \in 1 .. n - 1
    BY <1>1, <2>2 DEF ParentsFirst
  <2>4. Ancestors[n] = IF n = 1 THEN {} ELSE {out[n].par} \cup Ancestors[out[n].par]
    BY <1>1, <2>2, Zenon DEF AncestorsAre
  <2>5. Ancestors'[n] = IF n = 1 THEN {} ELSE {out[n].par} \cup Ancestors'[out[n].par]
    BY <1>1, <2>2, Zenon DEF AncestorsAre
  <2>6. n # 1 => out[n].par \in 1 .. Len(out) /\ out[n].par \notin Failing
    BY <1>1, <2>1, <2>2, <2>3
  <2>7. n # 1 => Ancestors'[out[n].par] = Ancestors[out[n].par]
    BY <2>6
  <2> QED  BY <2>2, <2>4, <2>5, <2>7, Zenon
<1> QED  BY <1>2

-----------------------------------------------------------------------------
\* The texts: what a list keeps from its parents, what the others pass on.
Frames == 1 .. Len(open)
IsOpen(l) == \E k \in Frames : open[k].node = l
BytesOf(t) == {t[k] : k \in 1 .. Len(t)}
Once(t) == \A j, k \in 1 .. Len(t) : t[j] = t[k] => j = k
Held(frame) == BytesOf(TextOf(frame))
Leaf(i) == OwnText(i) /\ out[i].text # <<>>

\* Something below c, or a list at c, keeps the text of i from c, for now or for ever.
Blocked(i, c) ==
  \E l \in Ancestors[i] : \/ l = c /\ IsList(l)
                          \/ c \in Ancestors[l] /\ (IsList(l) \/ IsOpen(l))

\* The loops stand in each other, outermost first; one that has met no child has no text.
OpenChain ==
  \A k \in Frames : \A c \in {open[k].node} :
     /\ Ancestors[c] = {open[j].node : j \in 1 .. k - 1}
     /\ \A j \in 1 .. k - 1 : open[j].node < c
     /\ IsList(c) <=> open[k].holds = "items"
     /\ OwnText(c) => open[k].text = <<>>

\* No text has a byte twice, or one of a block that was not met.
BytesOnce ==
  /\ \A k \in Frames : Once(TextOf(open[k])) /\ \A b \in Held(open[k]) : b.block \in 0 .. count
  /\ \A i \in Left : Once(out[i].text) /\ \A b \in Bytes(i) : b.block \in 0 .. count

FramesApart == \A k \in Frames : \A j \in 1 .. k - 1 : Held(open[j]) \cap Held(open[k]) = {}

\* A node that was left has the text of a block below it if nothing keeps it back, and a
\* loop in progress has those that were not kept back so far.
LeftCollect ==
  \A c, i \in Left : c \in Ancestors[i] /\ Leaf(i) =>
     IF HiddenBetween(i, c) THEN Bytes(i) \cap Bytes(c) = {} ELSE Bytes(i) \subseteq Bytes(c)
OpenCollect ==
  \A k \in Frames : \A c \in {open[k].node} : \A i \in Left : Leaf(i) =>
     IF c \in Ancestors[i] /\ ~Blocked(i, c)
     THEN Bytes(i) \subseteq Held(open[k]) ELSE Bytes(i) \cap Held(open[k]) = {}

CollectInv == OpenChain /\ BytesOnce /\ FramesApart /\ LeftCollect /\ OpenCollect

-----------------------------------------------------------------------------
\* Two texts with nothing in common, joined.
LEMMA OnceJoined ==
  ASSUME NEW s \in Seq(Byte), NEW t \in Seq(Byte), Once(s), Once(t), BytesOf(s) \cap BytesOf(t) = {}
  PROVE  Once(s \o t) /\ BytesOf(s \o t) = BytesOf(s) \cup BytesOf(t)
<1> DEFINE u == s \o t
           m == Len(s)
           n == Len(t)
<1>1. m \in Nat /\ n \in Nat /\ Len(u) = m + n
  OBVIOUS
<1>2. \A k \in 1 .. m : u[k] = s[k]
  OBVIOUS
<1>3. \A k \in 1 .. n : u[m + k] = t[k]
  OBVIOUS
<1> HIDE DEF u
<1>4. ASSUME NEW k \in 1 .. m + n
      PROVE  \/ k \in 1 .. m /\ u[k] = s[k]
             \/ k - m \in 1 .. n /\ u[k] = t[k - m]
  <2>1. CASE k <= m
    BY <1>1, <1>2, <2>1
  <2>2. CASE ~(k <= m)
    <3>1. k - m \in 1 .. n /\ m + (k - m) = k
      BY <1>1, <2>2
    <3>2. u[m + (k - m)] = t[k - m]
      BY <1>3, <3>1
    <3> QED  BY <3>1, <3>2
  <2> QED  BY <2>1, <2>2
<1> HIDE DEF m, n
<1>5. \A j \in 1 .. m : s[j] \in BytesOf(s)
  BY DEF BytesOf, m
<1>6. \A j \in 1 .. n : t[j] \in BytesOf(t)
  BY DEF BytesOf, n
<1>7. ASSUME NEW j \in 1 .. m + n, NEW k \in 1 .. m + n, u[j] = u[k] PROVE j = k
  <2>1. CASE j \in 1 .. m /\ u[j] = s[j] /\ k \in 1 .. m /\ u[k] = s[k]
    BY <1>7, <2>1, Zenon DEF Once, m
  <2>2. CASE j - m \in 1 .. n /\ u[j] = t[j - m] /\ k - m \in 1 .. n /\ u[k] = t[k - m]
    <3>1. j - m = k - m
      BY <1>7, <2>2, Zenon DEF Once, n
    <3> QED  BY <1>1, <3>1
  <2>3. CASE j \in 1 .. m /\ u[j] = s[j] /\ k - m \in 1 .. n /\ u[k] = t[k - m]
    BY <1>5, <1>6, <1>7, <2>3, Zenon
  <2>4. CASE j - m \in 1 .. n /\ u[j] = t[j - m] /\ k \in 1 .. m /\ u[k] = s[k]
    BY <1>5, <1>6, <1>7, <2>4, Zenon
  <2> QED  BY <1>4, <2>1, <2>2, <2>3, <2>4
<1>8. Once(u)
  BY <1>1, <1>7 DEF Once
<1>9. ASSUME NEW b PROVE b \in BytesOf(u) <=> b \in BytesOf(s) \cup BytesOf(t)
  <2>1. ASSUME b \in BytesOf(u) PROVE b \in BytesOf(s) \cup BytesOf(t)
    <3>1. PICK k \in 1 .. m + n : b = u[k]
      BY <1>1, <2>1 DEF BytesOf
    <3> QED  BY <1>4, <1>5, <1>6, <3>1
  <2>2. ASSUME b \in BytesOf(s) PROVE b \in BytesOf(u)
    <3>1. PICK k \in 1 .. m : b = s[k]
      BY <2>2 DEF BytesOf, m
    <3>2. k \in 1 .. Len(u) /\ b = u[k]
      BY <1>1, <1>2, <3>1
    <3> QED  BY <3>2 DEF BytesOf
  <2>3. ASSUME b \in BytesOf(t) PROVE b \in BytesOf(u)
    <3>1. PICK k \in 1 .. n : b = t[k]
      BY <2>3 DEF BytesOf, n
    <3>2. m + k \in 1 .. Len(u) /\ b = u[m + k]
      BY <1>1, <1>3, <3>1
    <3> QED  BY <3>2 DEF BytesOf
  <2> QED  BY <2>1, <2>2, <2>3
<1> QED  BY <1>8, <1>9 DEF u

-----------------------------------------------------------------------------
\* The parts of the tree's invariant that this part needs.
LEMMA TreeShape ==
  ASSUME TreeInv
  PROVE  /\ ParentsFirst /\ AncestorsAre /\ AncestorsOrdered
         /\ Len(open) \in Nat \ {0} /\ Len(open) \in Frames /\ Top = open[Len(open)]
         /\ \A k \in Frames : open[k] \in Frame /\ open[k].node \in 1 .. Len(out)
                              /\ out[open[k].node].type \in Holder
         /\ \A i \in 1 .. Len(out) : out[i] \in Node
<1>1. ParentsFirst
  BY DEF TreeInv, Storable, CounterAhead, ParentsFirst
<1>2. \A k \in Frames : open[k] \in Frame /\ open[k].node \in 1 .. Len(out)
                        /\ out[open[k].node].type \in Holder
  BY DEF TreeInv, TypeOK, InsideHolders, Frames
<1>3. \A i \in 1 .. Len(out) : out[i] \in Node
  BY DEF TreeInv, TypeOK
<1>4. Len(open) \in Nat \ {0} /\ Len(open) \in Frames
  BY DEF TreeInv, InsideHolders, Frames
<1> QED  BY <1>1, <1>2, <1>3, <1>4, AncestorsWell, AncestorsInOrder DEF Top

\* One child of the innermost node is added, and perhaps sentences of it.
Grows ==
  /\ Len(out) < Len(out')
  /\ \A i \in 1 .. Len(out) : out'[i] = out[i]
  /\ out'[Len(out) + 1].par = Top.node /\ out'[Len(out) + 1].type # "sentence"
  /\ \A i \in Len(out) + 2 .. Len(out') : out'[i].par = Len(out) + 1 /\ out'[i].type = "sentence"
  /\ Len(open) <= Len(open')
  /\ \A k \in Frames : open'[k].node = open[k].node
  /\ \A k \in 1 .. Len(open') : k \in Frames \/ open'[k].node = Len(out) + 1

\* What is below the nodes that were left stays as it is.
LEMMA Grown ==
  ASSUME TreeInv, TreeInv', OpenChain, Grows
  PROVE  /\ \A i \in 1 .. Len(out) : Ancestors'[i] = Ancestors[i] /\ (IsList(i)' <=> IsList(i))
         /\ Ancestors'[Len(out) + 1] = {open[k].node : k \in Frames}
         /\ \A i \in Left : /\ i \in 2 .. Len(out) /\ i \in Left'
                            /\ Bytes(i)' = Bytes(i) /\ (Leaf(i)' <=> Leaf(i))
         /\ \A i \in Left' : i \in Left \/ i \in Len(out) + 1 .. Len(out')
         /\ \A i \in Left : \A c \in 1 .. Len(out) :
               (HiddenBetween(i, c)' <=> HiddenBetween(i, c)) /\ (Blocked(i, c)' <=> Blocked(i, c))
         /\ \A i \in 1 .. Len(out) : IsOpen(i)' <=> IsOpen(i)
<1> DEFINE L == Len(out)
<1>1. /\ ParentsFirst /\ ParentsFirst' /\ AncestorsOrdered /\ AncestorsAre' /\ L \in Nat \ {0}
      /\ Len(out') \in Nat /\ Len(open) \in Nat \ {0} /\ Len(open') \in Nat \ {0}
      /\ Top = open[Len(open)] /\ Len(open) \in Frames
      /\ \A k \in Frames : open[k].node \in 1 .. L
  <2>1. (ParentsFirst /\ AncestorsAre /\ Len(open) \in Nat \ {0})'
    BY TreeShape, PTL
  <2>2. ParentsFirst'/\ AncestorsAre' /\ Len(open') \in Nat \ {0}
    BY <2>1
  <2> QED  BY <2>2, TreeShape DEF ParentsFirst
<1>2. \A i \in 1 .. L : Ancestors'[i] = Ancestors[i] /\ (IsList(i)' <=> IsList(i))
  <2>1. \A i \in 1 .. L : Ancestors'[i] = Ancestors[i]
    BY <1>1, AncestorsStay DEF Grows
  <2>2. \A i \in 1 .. L : IsList(i)' <=> IsList(i)
    BY DEF Grows, IsList
  <2> QED  BY <2>1, <2>2
<1>3. Ancestors'[L + 1] = {open[k].node : k \in Frames}
  <2> DEFINE n == Len(open)
             p == open[n].node
  <2>1. p \in 1 .. L /\ L + 1 \in 1 .. Len(out') /\ L + 1 # 1 /\ out'[L + 1].par = p
    BY <1>1 DEF Grows
  <2>2. Ancestors'[L + 1] = {p} \cup Ancestors'[p]
    BY <1>1, <2>1, Zenon DEF AncestorsAre
  <2>3. Ancestors'[p] = {open[j].node : j \in 1 .. n - 1}
    BY <1>1, <1>2, <2>1, Zenon DEF OpenChain
  <2>4. Frames = (1 .. n - 1) \cup {n}
    BY <1>1 DEF Frames
  <2> QED  BY <2>2, <2>3, <2>4
<1>4. \A i \in 1 .. L : IsOpen(i)' <=> IsOpen(i)
  <2>1. Frames \subseteq 1 .. Len(open') /\ \A i \in 1 .. L : i # L + 1
    BY <1>1 DEF Grows, Frames
  <2>2. \A i \in 1 .. L : (\E k \in 1 .. Len(open') : open'[k].node = i) <=> \E k \in Frames : open[k].node = i
    BY <2>1, Zenon DEF Grows
  <2> QED  BY <2>2 DEF IsOpen, Frames
<1>5. /\ \A i \in Left : i \in 2 .. L /\ i \in 1 .. L /\ i \in Left'
      /\ \A i \in Left' : i \in Left \/ i \in L + 1 .. Len(out')
  <2>1. \A i : i \in Left <=> i \in 2 .. L /\ ~IsOpen(i)
    BY DEF Left, IsOpen, Frames
  <2>2. \A i : i \in Left' <=> i \in 2 .. Len(out') /\ ~IsOpen(i)'
    BY DEF Left, IsOpen, Frames
  <2>3. \A i \in 2 .. L : i \in 1 .. L /\ i \in 2 .. Len(out')
    BY <1>1 DEF Grows
  <2>4. \A i \in 2 .. Len(out') : i \in 2 .. L \/ i \in L + 1 .. Len(out')
    BY <1>1
  <2> QED  BY <1>4, <2>1, <2>2, <2>3, <2>4
<1>6. ASSUME NEW i \in Left PROVE Bytes(i)' = Bytes(i) /\ (Leaf(i)' <=> Leaf(i))
  <2>1. i \in 1 .. L /\ out'[i] = out[i]
    BY <1>5 DEF Grows
  <2>2. Bytes(i)' = Bytes(i)
    BY <2>1 DEF Bytes
  <2>3. \A j \in 2 .. L : j \in 2 .. Len(out') /\ out'[j] = out[j]
    BY <1>1 DEF Grows
  <2>4. \A j \in 2 .. Len(out') : j \in 2 .. L \/ j = L + 1 \/ j \in L + 2 .. Len(out')
    BY <1>1
  <2>5. out'[L + 1].par # i
    <3>1. ~IsOpen(i)
      BY DEF Left, IsOpen, Frames
    <3> QED  BY <1>1, <3>1 DEF Grows, IsOpen
  <2>6. OwnText(i)' <=> OwnText(i)
    BY <2>3, <2>4, <2>5, Zenon DEF OwnText, Grows
  <2> QED  BY <2>1, <2>2, <2>6 DEF Leaf
<1>7. ASSUME NEW i \in Left, NEW c \in 1 .. L
      PROVE  (HiddenBetween(i, c)' <=> HiddenBetween(i, c)) /\ (Blocked(i, c)' <=> Blocked(i, c))
  <2>1. i \in 1 .. L /\ Ancestors'[i] = Ancestors[i]
    BY <1>2, <1>5
  <2>2. \A l \in Ancestors[i] : l \in 1 .. L
    BY <1>1, <2>1 DEF AncestorsOrdered
  <2>3. \A l \in Ancestors[i] : /\ Ancestors'[l] = Ancestors[l] /\ (IsList(l)' <=> IsList(l))
                                /\ (IsOpen(l)' <=> IsOpen(l))
    BY <1>2, <1>4, <2>2
  <2>4. HiddenBetween(i, c)' <=> HiddenBetween(i, c)
    BY <2>1, <2>3 DEF HiddenBetween
  <2>5. Blocked(i, c)' <=> Blocked(i, c)
    BY <2>1, <2>3 DEF Blocked
  <2> QED  BY <2>4, <2>5
<1> QED  BY <1>2, <1>3, <1>4, <1>5, <1>6, <1>7

\* What a loop is after one more child.
LEMMA JoinedParts ==
  ASSUME NEW frames \in Seq(Frame), NEW n \in Nat \ {0}, Len(frames) = n, NEW text \in Seq(Byte)
  PROVE  /\ Len(Joined(frames, text)) = n
         /\ \A k \in 1 .. n - 1 : Joined(frames, text)[k] = frames[k]
         /\ Joined(frames, text)[n].node = frames[n].node
         /\ Joined(frames, text)[n].holds = frames[n].holds
         /\ Joined(frames, text)[n].text = frames[n].text \o text
<1> DEFINE last == [frames[n] EXCEPT !.text = @ \o text]
<1>1. n \in 1 .. n /\ frames[n] \in Frame
  OBVIOUS
<1>2. frames[n].text \o text \in Seq(Byte)
  BY <1>1, ConcatProperties DEF Frame
<1>3. last \in Frame /\ last.node = frames[n].node /\ last.holds = frames[n].holds
      /\ last.text = frames[n].text \o text
  BY <1>1, <1>2, Zenon DEF Frame
<1>4. Joined(frames, text) = [frames EXCEPT ![n] = last]
  BY <1>1 DEF Joined, Frame
<1> HIDE DEF last
<1>5. /\ Len(Joined(frames, text)) = n
      /\ \A k \in 1 .. n : Joined(frames, text)[k] = IF k = n THEN last ELSE frames[k]
  BY <1>1, <1>3, <1>4, ExceptSeq
<1>6. \A k \in 1 .. n - 1 : k \in 1 .. n /\ k # n
  OBVIOUS
<1> QED  BY <1>1, <1>3, <1>5, <1>6

\* A block without children of its own, and its sentences.
LEMMA LeafCollect ==
  ASSUME TreeInv, TreeInv', CollectInv, Grows,
         NEW L, L = Len(out), NEW n, n = Len(open), NEW text \in Seq(Byte), Once(text),
         \A b \in BytesOf(text) : b.block = count + 1, count' = count + 1, Top.holds = "blocks", open' = Joined(open, text),
         out'[Len(out) + 1].text = text, out'[Len(out) + 1].type # "list_item",
         \A i \in Len(out) + 2 .. Len(out') : /\ Once(out'[i].text)
                                              /\ BytesOf(out'[i].text) \subseteq BytesOf(text)
  PROVE  CollectInv'
<1> DEFINE new == L + 1 .. Len(out')
<1>1. /\ L \in Nat \ {0} /\ Len(out') \in Nat /\ n \in Nat \ {0} /\ n \in Frames
      /\ Frames = 1 .. n /\ Top = open[n] /\ L < Len(out') /\ count \in Nat
      /\ AncestorsOrdered /\ AncestorsAre' /\ AncestorsOrdered'
      /\ \A k \in Frames : open[k] \in Frame /\ open[k].node \in 1 .. L
      /\ \A i \in 1 .. L : out[i] \in Node
  <2>1. (ParentsFirst /\ AncestorsAre /\ AncestorsOrdered)'
    BY TreeShape, PTL
  <2>2. Len(out') \in Nat /\ AncestorsAre' /\ AncestorsOrdered'
    BY <2>1 DEF ParentsFirst
  <2> QED  BY <2>2, TreeShape, Zenon DEF ParentsFirst, Frames, Grows, TreeInv, TypeOK
<1>2. /\ \A i \in 1 .. L : Ancestors'[i] = Ancestors[i] /\ (IsList(i)' <=> IsList(i))
      /\ Ancestors'[L + 1] = {open[k].node : k \in Frames}
      /\ \A i \in Left : /\ i \in 2 .. L /\ i \in Left'
                         /\ Bytes(i)' = Bytes(i) /\ (Leaf(i)' <=> Leaf(i))
      /\ \A i \in Left' : i \in Left \/ i \in new
      /\ \A i \in Left : \A c \in 1 .. L :
            (HiddenBetween(i, c)' <=> HiddenBetween(i, c)) /\ (Blocked(i, c)' <=> Blocked(i, c))
      /\ \A i \in 1 .. L : IsOpen(i)' <=> IsOpen(i)
  BY Grown DEF CollectInv
<1>3. /\ Len(open') = n /\ Frames' = 1 .. n
      /\ \A k \in 1 .. n - 1 : open'[k] = open[k]
      /\ open'[n].node = open[n].node /\ open'[n].holds = "blocks" /\ open[n].holds = "blocks"
      /\ open'[n].text = open[n].text \o text
  <2>1. open \in Seq(Frame) /\ n \in Nat \ {0} /\ Len(open) = n
    BY <1>1 DEF TreeInv, TypeOK
  <2>2. /\ Len(open') = n
        /\ \A k \in 1 .. n - 1 : open'[k] = open[k]
        /\ open'[n].node = open[n].node /\ open'[n].holds = open[n].holds
        /\ open'[n].text = open[n].text \o text
    BY <2>1, JoinedParts, Zenon
  <2> QED  BY <1>1, <2>2 DEF Frames
<1>4. \A k \in 1 .. n : k \in 1 .. n - 1 \/ k = n
  BY <1>1
<1>5. \A k \in 1 .. n : open'[k].node = open[k].node /\ open'[k].holds = open[k].holds
  BY <1>3, <1>4
<1>6. \A k \in 1 .. n - 1 : open'[k] = open[k]
  BY <1>3
<1>7. /\ Once(TextOf(open'[n])) /\ Held(open'[n]) = Held(open[n]) \cup BytesOf(text)
      /\ Held(open[n]) \cap BytesOf(text) = {}
  <2>1. TextOf(open[n]) = open[n].text /\ TextOf(open'[n]) = open[n].text \o text
    BY <1>3 DEF TextOf
  <2>2. open[n].text \in Seq(Byte) /\ Once(open[n].text) /\ Held(open[n]) = BytesOf(open[n].text)
    BY <1>1, <2>1 DEF CollectInv, BytesOnce, Held, Frame
  <2>3. ASSUME NEW b \in Held(open[n]), b \in BytesOf(text) PROVE FALSE
    <3>1. b.block \in 0 .. count /\ b.block = count + 1
      BY <1>1, <2>3 DEF CollectInv, BytesOnce
    <3> QED  BY <1>1, <3>1
  <2>4. Held(open'[n]) = BytesOf(TextOf(open'[n]))
    BY DEF Held
  <2> QED  BY <2>1, <2>2, <2>3, <2>4, OnceJoined
\* Old texts have no byte of the new one.
<1>8. /\ \A k \in Frames : Held(open[k]) \cap BytesOf(text) = {}
      /\ \A i \in Left : Bytes(i) \cap BytesOf(text) = {}
  <2>1. \A b : b.block \in 0 .. count => b.block # count + 1
    BY <1>1
  <2> QED  BY <2>1 DEF CollectInv, BytesOnce
<1>9. \A i \in new : /\ Once(out'[i].text) /\ Bytes(i)' \subseteq BytesOf(text) /\ ~IsList(i)'
                     /\ i \notin 1 .. L
                     /\ i = L + 1 \/ Ancestors'[i] = {L + 1} \cup {open[k].node : k \in Frames}
  <2> SUFFICES ASSUME NEW i \in new
               PROVE  /\ Once(out'[i].text) /\ Bytes(i)' \subseteq BytesOf(text) /\ ~IsList(i)'
                      /\ i \notin 1 .. L
                      /\ i = L + 1 \/ Ancestors'[i] = {L + 1} \cup {open[k].node : k \in Frames}
    OBVIOUS
  <2>1. i = L + 1 \/ i \in L + 2 .. Len(out')
    BY <1>1
  <2>2. Bytes(i)' = BytesOf(out'[i].text)
    BY DEF Bytes, BytesOf
  <2>3. i \in 1 .. Len(out') /\ i # 1 /\ i \notin 1 .. L
    BY <1>1
  <2>4. i \in L + 2 .. Len(out') => out'[i].par = L + 1 /\ out'[i].type = "sentence"
    BY DEF Grows
  <2>5. ~IsList(i)'
    BY <2>1, <2>4 DEF IsList
  <2>6. i \in L + 2 .. Len(out') => Ancestors'[i] = {L + 1} \cup Ancestors'[L + 1]
    BY <1>1, <2>3, <2>4, Zenon DEF AncestorsAre
  <2> QED  BY <1>2, <2>1, <2>2, <2>3, <2>5, <2>6
<1>10. \A i \in new : {open[k].node : k \in Frames} \subseteq Ancestors'[i]
  BY <1>2, <1>9
<1>11. OpenChain'
  <2> SUFFICES ASSUME NEW k \in 1 .. n, NEW c \in {open'[k].node}
               PROVE  /\ Ancestors'[c] = {open'[j].node : j \in 1 .. k - 1}
                      /\ \A j \in 1 .. k - 1 : open'[j].node < c
                      /\ IsList(c)' <=> open'[k].holds = "items"
                      /\ OwnText(c)' => open'[k].text = <<>>
    BY <1>3, Zenon DEF OpenChain
  <2>1. \A j \in 1 .. k - 1 : j \in 1 .. n
    BY <1>1
  <2>2. k \in Frames /\ c = open[k].node /\ c \in 1 .. L
    BY <1>1, <1>5
  <2>3. /\ Ancestors[c] = {open[j].node : j \in 1 .. k - 1}
        /\ \A j \in 1 .. k - 1 : open[j].node < c
        /\ IsList(c) <=> open[k].holds = "items"
        /\ OwnText(c) => open[k].text = <<>>
    BY <2>2, Zenon DEF CollectInv, OpenChain
  <2>4. {open'[j].node : j \in 1 .. k - 1} = {open[j].node : j \in 1 .. k - 1}
    <3>1. \A j \in 1 .. k - 1 : open'[j].node = open[j].node
      BY <1>5, <2>1
    <3> QED  BY <3>1, Zenon
  <2>5. OwnText(c)' => open'[k].text = <<>>
    <3>1. CASE k = n
      <4>1. L + 1 \in 2 .. Len(out') /\ out'[L + 1].par = open'[n].node /\ out'[L + 1].type # "sentence"
        BY <1>1, <1>3 DEF Grows
      <4> QED  BY <2>2, <1>5, <3>1, <4>1 DEF OwnText
    <3>2. CASE k # n
      <4>1. open'[k] = open[k]
        BY <1>3, <1>4, <3>2
      <4>2. \A j \in 2 .. L : j \in 2 .. Len(out') /\ out'[j] = out[j]
        BY <1>1 DEF Grows
      <4>3. OwnText(c)' => OwnText(c)
        BY <4>2, Zenon DEF OwnText
      <4> QED  BY <2>3, <4>1, <4>3
    <3> QED  BY <3>1, <3>2
  <2> QED  BY <1>2, <1>5, <2>1, <2>2, <2>3, <2>4, <2>5, Zenon
<1>12. BytesOnce'
  <2>1. ASSUME NEW k \in 1 .. n PROVE Once(TextOf(open'[k])) /\ \A b \in Held(open'[k]) : b.block \in 0 .. count'
    <3>1. Once(TextOf(open[k])) /\ \A b \in Held(open[k]) : b.block \in 0 .. count
      BY <1>1 DEF CollectInv, BytesOnce
    <3>2. \A b : b.block \in 0 .. count => b.block \in 0 .. count'
      BY <1>1
    <3>3. \A b : b.block = count + 1 => b.block \in 0 .. count'
      BY <1>1
    <3> QED  BY <1>4, <1>6, <1>7, <3>1, <3>2, <3>3
  <2>2. ASSUME NEW i \in Left' PROVE Once(out'[i].text) /\ \A b \in Bytes(i)' : b.block \in 0 .. count'
    <3>1. CASE i \in Left
      <4>1. out'[i] = out[i] /\ Bytes(i)' = Bytes(i)
        BY <1>1, <1>2, <3>1 DEF Grows
      <4>2. Once(out[i].text) /\ \A b \in Bytes(i) : b.block \in 0 .. count
        BY <3>1 DEF CollectInv, BytesOnce
      <4> QED  BY <1>1, <4>1, <4>2
    <3>2. CASE i \in new
      BY <1>1, <1>9, <3>2
    <3> QED  BY <1>2, <3>1, <3>2
  <2> QED  BY <1>3, <2>1, <2>2 DEF BytesOnce
<1>13. FramesApart'
  <2> SUFFICES ASSUME NEW k \in 1 .. n, NEW j \in 1 .. k - 1 PROVE Held(open'[j]) \cap Held(open'[k]) = {}
    BY <1>3, Zenon DEF FramesApart
  <2>1. j \in Frames /\ k \in Frames /\ j \in 1 .. n - 1
    BY <1>1
  <2>2. Held(open[j]) \cap Held(open[k]) = {}
    BY <2>1, Zenon DEF CollectInv, FramesApart
  <2> QED  BY <1>4, <1>6, <1>7, <1>8, <2>1, <2>2, Zenon
<1>14. LeftCollect'
  <2> SUFFICES ASSUME NEW c \in Left', NEW i \in Left', c \in Ancestors'[i], Leaf(i)'
               PROVE  IF HiddenBetween(i, c)' THEN Bytes(i)' \cap Bytes(c)' = {}
                                              ELSE Bytes(i)' \subseteq Bytes(c)'
    BY DEF LeftCollect
  <2>1. CASE i \in Left
    <3>1. c \in Ancestors[i] /\ c \in 1 .. L
      BY <1>1, <1>2, <2>1 DEF AncestorsOrdered
    <3>2. c \in Left
      BY <1>2, <1>9, <3>1
    <3>3. IF HiddenBetween(i, c) THEN Bytes(i) \cap Bytes(c) = {} ELSE Bytes(i) \subseteq Bytes(c)
      BY <1>2, <2>1, <3>1, <3>2 DEF CollectInv, LeftCollect
    <3> QED  BY <1>2, <2>1, <3>1, <3>2, <3>3
  <2>2. CASE i \in new
    <3>1. c \notin {open[k].node : k \in Frames}
      <4>1. c \notin {open'[k].node : k \in 1 .. n}
        BY <1>3 DEF Left
      <4>2. \A k \in Frames : k \in 1 .. n /\ open'[k].node = open[k].node
        BY <1>1, <1>5
      <4> QED  BY <4>1, <4>2
    <3>2. c = L + 1 /\ Ancestors'[i] = {L + 1} \cup {open[k].node : k \in Frames}
      BY <1>2, <1>9, <2>2, <3>1, Zenon
    <3>3. \A l \in {open[k].node : k \in Frames} : l \in 1 .. L /\ c \notin Ancestors'[l] /\ l # c
      <4>1. \A l \in {open[k].node : k \in Frames} : l \in 1 .. L
        BY <1>1
      <4>2. \A l \in 1 .. L : Ancestors'[l] \subseteq 1 .. l - 1
        BY <1>1, <1>2, Zenon DEF AncestorsOrdered
      <4> QED  BY <1>1, <3>2, <4>1, <4>2
    <3>4. ~IsList(c)' /\ c \notin Ancestors'[c]
      BY <1>1, <1>2, <1>9, <3>2
    <3>5. ~HiddenBetween(i, c)'
      BY <3>2, <3>3, <3>4 DEF HiddenBetween
    <3>6. Bytes(c)' = BytesOf(text)
      BY <3>2 DEF Bytes, BytesOf
    <3> QED  BY <1>9, <2>2, <3>5, <3>6
  <2> QED  BY <1>2, <2>1, <2>2
<1>15. OpenCollect'
  <2> SUFFICES ASSUME NEW k \in 1 .. n, NEW c \in {open'[k].node}, NEW i \in Left', Leaf(i)'
               PROVE  IF c \in Ancestors'[i] /\ ~Blocked(i, c)'
                      THEN Bytes(i)' \subseteq Held(open'[k]) ELSE Bytes(i)' \cap Held(open'[k]) = {}
    BY <1>3, Zenon DEF OpenCollect
  <2>1. c \in 1 .. L /\ open[k].node = c /\ k \in Frames
    BY <1>1, <1>5
  <2>2. CASE i \in Left
    <3>1. IF c \in Ancestors[i] /\ ~Blocked(i, c)
          THEN Bytes(i) \subseteq Held(open[k]) ELSE Bytes(i) \cap Held(open[k]) = {}
      BY <1>2, <2>1, <2>2, Zenon DEF CollectInv, OpenCollect
    <3>2. i \in 1 .. L /\ Ancestors'[i] = Ancestors[i] /\ Bytes(i)' = Bytes(i)
          /\ (Blocked(i, c)' <=> Blocked(i, c))
      BY <1>1, <1>2, <2>1, <2>2
    <3>3. Held(open'[k]) = Held(open[k]) \/ Held(open'[k]) = Held(open[k]) \cup BytesOf(text)
      BY <1>4, <1>6, <1>7
    <3>4. Bytes(i) \cap BytesOf(text) = {}
      BY <1>8, <2>2
    <3>5. CASE c \in Ancestors[i] /\ ~Blocked(i, c)
      BY <2>1, <3>1, <3>2, <3>3, <3>5
    <3>6. CASE ~(c \in Ancestors[i] /\ ~Blocked(i, c))
      BY <2>1, <3>1, <3>2, <3>3, <3>4, <3>6
    <3> QED  BY <3>5, <3>6
  <2>3. CASE i \in new
    <3>1. c \in Ancestors'[i] /\ Bytes(i)' \subseteq BytesOf(text)
      BY <1>9, <1>10, <2>1, <2>3
    <3>2. CASE k # n
      <4>0. PICK l : l = open[n].node
        OBVIOUS
      <4>1. l \in Ancestors'[i] /\ l \in 1 .. L /\ IsOpen(l)'
        <5>1. IsOpen(l)
          BY <1>1, <4>0 DEF IsOpen
        <5> QED  BY <1>1, <1>2, <1>10, <2>3, <4>0, <5>1
      <4>2. c \in Ancestors'[l]
        <5>1. k \in 1 .. n - 1
          BY <1>4, <3>2
        <5>2. Ancestors[l] = {open[j].node : j \in 1 .. n - 1}
          BY <1>1, <4>0, Zenon DEF CollectInv, OpenChain
        <5>3. Ancestors'[l] = Ancestors[l]
          BY <1>2, <4>1
        <5> QED  BY <2>1, <5>1, <5>2, <5>3
      <4>3. Blocked(i, c)'
        BY <4>1, <4>2 DEF Blocked
      <4>4. Held(open'[k]) = Held(open[k]) /\ Held(open[k]) \cap BytesOf(text) = {}
        BY <1>4, <1>6, <1>8, <2>1, <3>2
      <4> QED  BY <2>1, <3>1, <4>3, <4>4
    <3>3. CASE k = n
      <4>1. ASSUME NEW l \in Ancestors'[i],
                   \/ l = c /\ IsList(l)'
                   \/ c \in Ancestors'[l] /\ (IsList(l)' \/ IsOpen(l)')
            PROVE  FALSE
        <5>1. ~IsList(c) /\ ~IsList(c)'
          BY <1>1, <1>2, <1>3, <2>1, <3>3 DEF CollectInv, OpenChain
        <5>2. CASE l = L + 1
          <6>1. ~IsList(l)' /\ ~IsOpen(l)'
            <7>1. ~IsList(l)'
              BY <1>1, <1>9, <5>2
            <7>2. \A j \in 1 .. n : open'[j].node \in 1 .. L
              BY <1>1, <1>5, Zenon
            <7>3. L + 1 \notin 1 .. L
              BY <1>1
            <7> QED  BY <1>3, <5>2, <7>1, <7>2, <7>3 DEF IsOpen
          <6>2. l # c
            BY <1>1, <2>1, <5>2
          <6> QED  BY <4>1, <6>1, <6>2
        <5>3. CASE l \in {open[j].node : j \in Frames}
          <6>1. PICK j \in Frames : l = open[j].node
            BY <5>3
          <6>2. c \in Ancestors[l]
            BY <1>1, <1>2, <4>1, <5>1, <6>1
          <6>3. PICK m \in 1 .. j - 1 : c = open[m].node
            BY <6>1, <6>2 DEF CollectInv, OpenChain
          <6>4. m \in 1 .. n - 1
            BY <1>1, <6>1, <6>3
          <6>5. open[m].node < open[n].node
            BY <1>1, <6>4 DEF CollectInv, OpenChain
          <6>6. open[m].node = open[n].node /\ open[n].node \in 1 .. L
            BY <1>1, <2>1, <3>3, <6>3
          <6> QED  BY <1>1, <6>5, <6>6
        <5> QED  BY <1>2, <1>9, <2>3, <5>2, <5>3
      <4>2. ~Blocked(i, c)'
        BY <4>1 DEF Blocked
      <4> QED  BY <1>7, <2>1, <3>1, <3>3, <4>2
    <3> QED  BY <3>2, <3>3
  <2> QED  BY <1>2, <2>2, <2>3
<1> QED  BY <1>11, <1>12, <1>13, <1>14, <1>15 DEF CollectInv

\* A block or an item with children: it has no text yet, and is inside the others.
LEMMA OpenCollected ==
  ASSUME TreeInv, TreeInv', CollectInv, Grows,
         NEW L, L = Len(out), NEW n, n = Len(open), NEW frame \in Frame,
         open' = Append(open, frame), frame.node = L + 1, frame.text = <<>>,
         Len(out') = L + 1, count' = count + 1,
         \A c \in {L + 1} : IsList(c)' <=> frame.holds = "items"
  PROVE  CollectInv'
<1>1. /\ L \in Nat \ {0} /\ n \in Nat \ {0} /\ n \in Frames
      /\ Frames = 1 .. n /\ Top = open[n] /\ count \in Nat
      /\ AncestorsOrdered
      /\ \A k \in Frames : open[k].node \in 1 .. L
  BY TreeShape DEF ParentsFirst, Frames, TreeInv, TypeOK
<1>2. /\ \A i \in 1 .. L : Ancestors'[i] = Ancestors[i] /\ (IsList(i)' <=> IsList(i))
      /\ Ancestors'[L + 1] = {open[k].node : k \in Frames}
      /\ \A i \in Left : /\ i \in 2 .. L /\ i \in Left'
                         /\ Bytes(i)' = Bytes(i) /\ (Leaf(i)' <=> Leaf(i))
      /\ \A i \in Left' : i \in Left \/ i \in L + 1 .. L + 1
      /\ \A i \in Left : \A c \in 1 .. L :
            (HiddenBetween(i, c)' <=> HiddenBetween(i, c)) /\ (Blocked(i, c)' <=> Blocked(i, c))
  BY Grown DEF CollectInv
<1>3. /\ Len(open') = n + 1 /\ open'[n + 1] = frame
      /\ \A k \in 1 .. n : open'[k] = open[k]
  <2>1. open \in Seq(Frame)
    BY DEF TreeInv, TypeOK
  <2> QED  BY <2>1
<1>4. Frames' = 1 .. n + 1 /\ \A k \in 1 .. n + 1 : k \in 1 .. n \/ k = n + 1
  BY <1>1, <1>3 DEF Frames
<1>5. \A i : i \in Left' <=> i \in Left
  <2>1. n + 1 \in 1 .. n + 1
    BY <1>1
  <2>2. L + 1 \notin Left'
    BY <1>3, <2>1 DEF Left
  <2>3. \A i \in L + 1 .. L + 1 : i = L + 1
    BY <1>1
  <2> QED  BY <1>2, <2>2, <2>3
<1>6. TextOf(frame) = <<>> /\ Held(frame) = {} /\ Once(TextOf(frame))
  <2>1. TextOf(frame) = <<>>
    BY DEF TextOf
  <2>2. Len(<<>>) = 0 /\ 1 .. 0 = {}
    OBVIOUS
  <2> QED  BY <2>1, <2>2 DEF Held, BytesOf, Once
<1>7. ASSUME NEW i \in Left PROVE i \in 2 .. L /\ i \in 1 .. L /\ Ancestors[i] \subseteq 1 .. L /\ out'[i] = out[i]
  BY <1>1, <1>2 DEF AncestorsOrdered, Grows
<1>8. OpenChain'
  <2> SUFFICES ASSUME NEW k \in 1 .. n + 1, NEW c \in {open'[k].node}
               PROVE  /\ Ancestors'[c] = {open'[j].node : j \in 1 .. k - 1}
                      /\ \A j \in 1 .. k - 1 : open'[j].node < c
                      /\ IsList(c)' <=> open'[k].holds = "items"
                      /\ OwnText(c)' => open'[k].text = <<>>
    BY <1>4, Zenon DEF OpenChain
  <2>1. \A j \in 1 .. k - 1 : j \in 1 .. n /\ open'[j] = open[j]
    BY <1>1, <1>3
  <2>2. {open'[j].node : j \in 1 .. k - 1} = {open[j].node : j \in 1 .. k - 1}
    BY <2>1
  <2>3. CASE k \in 1 .. n
    <3>1. open'[k] = open[k] /\ c = open[k].node /\ c \in 1 .. L /\ k \in Frames
      BY <1>1, <1>3, <2>3
    <3>2. /\ Ancestors[c] = {open[j].node : j \in 1 .. k - 1}
          /\ \A j \in 1 .. k - 1 : open[j].node < c
          /\ IsList(c) <=> open[k].holds = "items"
          /\ OwnText(c) => open[k].text = <<>>
      BY <3>1, Zenon DEF CollectInv, OpenChain
    <3>3. \A j \in 2 .. L : j \in 2 .. Len(out') /\ out'[j] = out[j]
      BY <1>1 DEF Grows
    <3>4. OwnText(c)' => OwnText(c)
      BY <3>3 DEF OwnText
    <3> QED  BY <1>2, <2>1, <2>2, <3>1, <3>2, <3>4, Zenon
  <2>4. CASE k = n + 1
    <3>1. open'[k] = frame /\ c = L + 1 /\ 1 .. k - 1 = Frames
      BY <1>1, <1>3, <2>4
    <3>2. \A j \in Frames : open[j].node < c
      BY <1>1, <3>1
    <3> QED  BY <1>2, <2>1, <2>2, <3>1, <3>2, Zenon
  <2> QED  BY <1>4, <2>3, <2>4, Zenon
<1>9. BytesOnce'
  <2>1. \A b : b.block \in 0 .. count => b.block \in 0 .. count'
    BY <1>1
  <2>2. ASSUME NEW k \in 1 .. n + 1
        PROVE  Once(TextOf(open'[k])) /\ \A b \in Held(open'[k]) : b.block \in 0 .. count'
    <3>1. CASE k \in 1 .. n
      BY <1>1, <1>3, <2>1, <3>1 DEF CollectInv, BytesOnce
    <3>2. CASE k = n + 1
      BY <1>3, <1>6, <3>2
    <3> QED  BY <1>4, <3>1, <3>2
  <2>3. ASSUME NEW i \in Left PROVE Once(out'[i].text) /\ \A b \in Bytes(i)' : b.block \in 0 .. count'
    <3>1. out'[i] = out[i] /\ Bytes(i)' = Bytes(i)
      BY <1>2, <1>7
    <3>2. Once(out[i].text) /\ \A b \in Bytes(i) : b.block \in 0 .. count
      BY DEF CollectInv, BytesOnce
    <3> QED  BY <2>1, <3>1, <3>2
  <2> QED  BY <1>4, <1>5, <2>2, <2>3 DEF BytesOnce
<1>10. FramesApart'
  <2> SUFFICES ASSUME NEW k \in 1 .. n + 1, NEW j \in 1 .. k - 1
               PROVE  Held(open'[j]) \cap Held(open'[k]) = {}
    BY <1>4, Zenon DEF FramesApart
  <2>1. CASE k \in 1 .. n
    <3>1. j \in 1 .. n /\ k \in Frames
      BY <1>1, <2>1
    <3>2. Held(open[j]) \cap Held(open[k]) = {}
      BY <3>1, Zenon DEF CollectInv, FramesApart
    <3> QED  BY <1>3, <2>1, <3>1, <3>2
  <2>2. CASE k = n + 1
    BY <1>3, <1>6, <2>2
  <2> QED  BY <1>4, <2>1, <2>2, Zenon
<1>11. LeftCollect'
  <2> SUFFICES ASSUME NEW c \in Left, NEW i \in Left, c \in Ancestors'[i], Leaf(i)'
               PROVE  IF HiddenBetween(i, c)' THEN Bytes(i)' \cap Bytes(c)' = {}
                                              ELSE Bytes(i)' \subseteq Bytes(c)'
    BY <1>5 DEF LeftCollect
  <2>1. c \in 1 .. L /\ c \in Ancestors[i]
    BY <1>2, <1>7
  <2>2. IF HiddenBetween(i, c) THEN Bytes(i) \cap Bytes(c) = {} ELSE Bytes(i) \subseteq Bytes(c)
    BY <1>2, <2>1 DEF CollectInv, LeftCollect
  <2> QED  BY <1>2, <2>1, <2>2
<1>12. OpenCollect'
  <2> SUFFICES ASSUME NEW k \in 1 .. n + 1, NEW c \in {open'[k].node}, NEW i \in Left, Leaf(i)'
               PROVE  IF c \in Ancestors'[i] /\ ~Blocked(i, c)'
                      THEN Bytes(i)' \subseteq Held(open'[k]) ELSE Bytes(i)' \cap Held(open'[k]) = {}
    BY <1>4, <1>5 DEF OpenCollect
  <2>1. CASE k \in 1 .. n
    <3>1. open'[k] = open[k] /\ c = open[k].node /\ c \in 1 .. L /\ k \in Frames
      BY <1>1, <1>3, <2>1
    <3>2. IF c \in Ancestors[i] /\ ~Blocked(i, c)
          THEN Bytes(i) \subseteq Held(open[k]) ELSE Bytes(i) \cap Held(open[k]) = {}
      BY <1>2, <3>1, Zenon DEF CollectInv, OpenCollect
    <3>3. Ancestors'[i] = Ancestors[i] /\ Bytes(i)' = Bytes(i) /\ (Blocked(i, c)' <=> Blocked(i, c))
      BY <1>2, <1>7, <3>1
    <3> QED  BY <3>1, <3>2, <3>3
  <2>2. CASE k = n + 1
    <3>1. c = L + 1 /\ Held(open'[k]) = {}
      BY <1>3, <1>6, <2>2
    <3>2. c \notin Ancestors'[i]
      BY <1>1, <1>2, <1>7, <3>1
    <3> QED  BY <3>1, <3>2
  <2> QED  BY <1>4, <2>1, <2>2
<1> QED  BY <1>8, <1>9, <1>10, <1>11, <1>12 DEF CollectInv

-----------------------------------------------------------------------------
\* The root alone.
LEMMA InitCollect == Init => CollectInv
<1> SUFFICES ASSUME Init PROVE CollectInv
  OBVIOUS
<1>1. TreeInv /\ Len(out) = 1 /\ Len(open) = 1 /\ count = 0
      /\ open[1].node = 1 /\ open[1].holds = "blocks" /\ open[1].text = <<>> /\ out[1].type = "document"
  BY InitTree DEF Init, Root
<1>2. AncestorsAre
  BY <1>1, TreeShape
<1>3. Ancestors[1] = {}
  BY <1>1, <1>2 DEF AncestorsAre
<1>4. Frames = {1} /\ Left = {}
  BY <1>1 DEF Frames, Left
<1>5. TextOf(open[1]) = <<>> /\ Held(open[1]) = {} /\ Once(TextOf(open[1]))
  <2>1. TextOf(open[1]) = <<>>
    BY <1>1 DEF TextOf
  <2>2. Len(<<>>) = 0 /\ 1 .. 0 = {}
    OBVIOUS
  <2> QED  BY <2>1, <2>2 DEF Held, BytesOf, Once
<1>6. 1 .. 1 - 1 = {}
  OBVIOUS
<1>7. OpenChain
  BY <1>1, <1>3, <1>4, <1>6 DEF OpenChain, IsList
<1>8. BytesOnce
  BY <1>4, <1>5 DEF BytesOnce
<1>9. FramesApart
  BY <1>4, <1>6 DEF FramesApart
<1>10. LeftCollect /\ OpenCollect
  BY <1>4 DEF LeftCollect, OpenCollect
<1> QED  BY <1>7, <1>8, <1>9, <1>10 DEF CollectInv

\* Leaving c0, the innermost of the n nodes the walk is inside of, for p, with this text.
Leaves(L, n, c0, p, text) ==
  /\ L \in Nat \ {0} /\ n \in Nat /\ n > 1 /\ Frames = 1 .. n /\ n \in Frames /\ n - 1 \in Frames
  /\ p \in 1 .. L /\ c0 \in 2 .. L /\ p < c0 /\ out[c0].par = p /\ out[c0].type # "sentence"
  /\ Len(out') = L /\ \A i \in 1 .. L : /\ out'[i].type = out[i].type /\ out'[i].par = out[i].par
                                        /\ out'[i].body = out[i].body
                                        /\ i # c0 => out'[i] = out[i]
  /\ out'[c0].text = text
  /\ text \in Seq(Byte) /\ Len(open') = n - 1 /\ \A k \in 1 .. n - 2 : open'[k] = open[k]
  /\ open'[n - 1].node = p /\ open'[n - 1].holds = open[n - 1].holds
  /\ open'[n - 1].text = open[n - 1].text \o text

\* The parts of the tree and of the loops that leaving a node changes and keeps.
LEMMA CloseParts ==
  ASSUME TreeInv, OpenChain, Close,
         NEW L, L = Len(out), NEW n, n = Len(open), NEW c0, c0 = open[n].node,
         NEW p, p = open[n - 1].node, NEW text, text = TextOf(open[n])
  PROVE  Leaves(L, n, c0, p, text)
<1>1. /\ L \in Nat \ {0} /\ n \in Nat /\ n > 1 /\ Frames = 1 .. n /\ Top = open[n]
      /\ open \in Seq(Frame) /\ out \in Seq(Node) /\ AncestorsAre /\ AncestorsOrdered
      /\ \A k \in Frames : /\ open[k] \in Frame /\ open[k].node \in 1 .. L
                           /\ out[open[k].node].type \in Holder
  BY TreeShape DEF Close, ParentsFirst, Frames, TreeInv, TypeOK
<1>2. n \in Frames /\ n - 1 \in Frames /\ n - 1 \in 1 .. n - 1
  BY <1>1
<1>3. p \in 1 .. L /\ c0 \in 1 .. L /\ p < c0 /\ out[c0].type # "sentence"
  <2>1. p < c0
    BY <1>1, <1>2, Zenon DEF OpenChain
  <2>2. p \in 1 .. L /\ c0 \in 1 .. L /\ out[c0].type \in Holder
    BY <1>1, <1>2
  <2> QED  BY <2>1, <2>2, Zenon DEF Holder
<1>4. c0 \in 2 .. L /\ c0 # 1
  BY <1>1, <1>3
<1>5. out[c0].par = p
  <2> DEFINE q == out[c0].par
  <2>1. Ancestors[c0] = {q} \cup Ancestors[q]
    BY <1>1, <1>3, <1>4, Zenon DEF AncestorsAre
  <2>2. Ancestors[c0] = {open[j].node : j \in 1 .. n - 1}
    BY <1>1, <1>2, Zenon DEF OpenChain
  <2> HIDE DEF q
  <2>3. PICK j \in 1 .. n - 1 : q = open[j].node
    BY <2>1, <2>2
  <2>4. q \in 1 .. L /\ j \in Frames
    BY <1>1, <2>3
  <2>5. CASE j = n - 1
    BY <2>3, <2>5 DEF q
  <2>6. CASE j # n - 1
    <3>1. j \in 1 .. (n - 1) - 1
      BY <1>1, <2>3, <2>6
    <3>2. q < p
      BY <1>2, <2>3, <3>1 DEF OpenChain
    <3>3. p \in {q} \cup Ancestors[q]
      BY <1>2, <2>1, <2>2
    <3>4. Ancestors[q] \subseteq 1 .. q - 1
      BY <1>1, <2>4 DEF AncestorsOrdered
    <3>5. q \in Int /\ p \in Int
      BY <1>1, <1>3, <2>4
    <3>6. p \notin Ancestors[q]
      BY <3>2, <3>4, <3>5
    <3>7. p # q
      BY <3>2, <3>5
    <3> QED  BY <3>3, <3>6, <3>7
  <2> QED  BY <2>5, <2>6
<1>6. text \in Seq(Byte) /\ out' = [out EXCEPT ![c0].text = text]
      /\ open' = Joined(SubSeq(open, 1, n - 1), text)
  <2>1. text \in Seq(Byte)
    BY <1>1, <1>2 DEF TextOf, Frame
  <2> QED  BY <1>1, <2>1 DEF Close
<1>7. Len(out') = L /\ \A i \in 1 .. L : /\ out'[i].type = out[i].type /\ out'[i].par = out[i].par
                                         /\ out'[i].body = out[i].body
                                         /\ i # c0 => out'[i] = out[i]
      /\ out'[c0].text = text
  <2> DEFINE node == [out[c0] EXCEPT !.text = text]
  <2>1. out[c0] \in Node
    BY <1>1, <1>3, ElementOfSeq
  <2>2. node \in Node /\ node.type = out[c0].type /\ node.par = out[c0].par
        /\ node.body = out[c0].body /\ node.text = text
    BY <1>6, <2>1, Zenon DEF Node
  <2>3. out' = [out EXCEPT ![c0] = node]
    BY <1>1, <1>3, <1>6, <2>1 DEF Node
  <2> HIDE DEF node
  <2>4. Len(out') = L /\ \A i \in 1 .. L : out'[i] = IF i = c0 THEN node ELSE out[i]
    BY <1>1, <1>3, <2>2, <2>3, ExceptSeq
  <2> QED  BY <1>3, <2>2, <2>4, Zenon
<1>8. /\ Len(open') = n - 1 /\ \A k \in 1 .. n - 2 : open'[k] = open[k]
      /\ open'[n - 1].node = p /\ open'[n - 1].holds = open[n - 1].holds
      /\ open'[n - 1].text = open[n - 1].text \o text
  <2> DEFINE rest == SubSeq(open, 1, n - 1)
             m == n - 1
  <2>1. rest \in Seq(Frame) /\ Len(rest) = m /\ \A k \in 1 .. m : rest[k] = open[k]
    BY <1>1
  <2>2. open' = Joined(rest, text)
    BY <1>6
  <2> HIDE DEF rest
  <2>3. n \in Nat /\ n > 1
    BY <1>1
  <2>4. m \in Nat \ {0} /\ m - 1 = n - 2 /\ m \in 1 .. m /\ \A k \in 1 .. n - 2 : k \in 1 .. m
    BY <2>3
  <2> HIDE DEF m
  <2>5. /\ Len(open') = m /\ \A k \in 1 .. m - 1 : open'[k] = rest[k]
        /\ open'[m].node = rest[m].node /\ open'[m].holds = rest[m].holds
        /\ open'[m].text = rest[m].text \o text
    <3>1. text \in Seq(Byte)
      BY <1>6
    <3> DEFINE grown == Joined(rest, text)
    <3>2. /\ Len(grown) = m /\ \A k \in 1 .. m - 1 : grown[k] = rest[k]
          /\ grown[m].node = rest[m].node /\ grown[m].holds = rest[m].holds
          /\ grown[m].text = rest[m].text \o text
      BY <2>1, <2>4, <3>1, JoinedParts, Zenon
    <3> HIDE DEF grown
    <3> QED  BY <2>2, <3>2 DEF grown
  <2>6. /\ Len(open') = m /\ \A k \in 1 .. n - 2 : open'[k] = open[k]
        /\ open'[m].node = open[m].node /\ open'[m].holds = open[m].holds
        /\ open'[m].text = open[m].text \o text
    BY <2>1, <2>4, <2>5, Zenon
  <2> QED  BY <2>6, Zenon DEF m
<1> QED  BY <1>1, <1>2, <1>3, <1>4, <1>5, <1>6, <1>7, <1>8, Zenon DEF Leaves

-----------------------------------------------------------------------------
\* Leaving a node: what was kept back below it stays kept back, the rest goes to the node
\* outside it unless that is a list.
LEMMA CloseCollect ==
  ASSUME TreeInv, TreeInv', CollectInv, Close PROVE CollectInv'
<1> SUFFICES ASSUME NEW L, L = Len(out), NEW n, n = Len(open), NEW c0, c0 = open[n].node,
                    NEW p, p = open[n - 1].node, NEW text, text = TextOf(open[n])
             PROVE  CollectInv'
  BY Zenon
<1>1. /\ L \in Nat \ {0} /\ n \in Nat /\ n > 1 /\ Frames = 1 .. n /\ n \in Frames /\ n - 1 \in Frames
      /\ p \in 1 .. L /\ c0 \in 2 .. L /\ p < c0 /\ out[c0].par = p /\ out[c0].type # "sentence"
      /\ Len(out') = L /\ \A i \in 1 .. L : /\ out'[i].type = out[i].type /\ out'[i].par = out[i].par
                                            /\ out'[i].body = out[i].body
                                            /\ i # c0 => out'[i] = out[i]
      /\ out'[c0].text = text
      /\ text \in Seq(Byte) /\ Len(open') = n - 1 /\ \A k \in 1 .. n - 2 : open'[k] = open[k]
      /\ open'[n - 1].node = p /\ open'[n - 1].holds = open[n - 1].holds
      /\ open'[n - 1].text = open[n - 1].text \o text
  <2>1. OpenChain
    BY DEF CollectInv
  <2>2. Leaves(L, n, c0, p, text)
    BY <2>1, CloseParts
  <2> QED  BY <2>2 DEF Leaves
<1>2. /\ c0 \in 1 .. L /\ Frames' = 1 .. n - 1 /\ AncestorsOrdered
      /\ \A k \in 1 .. n - 1 : k \in Frames /\ open'[k].node = open[k].node /\ open'[k].holds = open[k].holds
      /\ \A k \in 1 .. n - 1 : k \in 1 .. n - 2 \/ k = n - 1
      /\ \A k \in Frames : open[k] \in Frame /\ open[k].node \in 1 .. L
      /\ \A k \in Frames : k \in 1 .. n - 1 \/ k = n
      /\ count' = count
  <2>1. Frames' = 1 .. n - 1 /\ count' = count
    BY <1>1 DEF Frames, Close
  <2>2. AncestorsOrdered /\ \A k \in Frames : open[k] \in Frame /\ open[k].node \in 1 .. L
    BY TreeShape
  <2>3. /\ \A k \in 1 .. n - 1 : k \in Frames /\ (k \in 1 .. n - 2 \/ k = n - 1)
        /\ \A k \in Frames : k \in 1 .. n - 1 \/ k = n
    BY <1>1
  <2>4. \A k \in 1 .. n - 1 : open'[k].node = open[k].node /\ open'[k].holds = open[k].holds
    BY <1>1, <2>3, Zenon
  <2> QED  BY <1>1, <2>1, <2>2, <2>3, <2>4, Zenon
<1>3. /\ \A i \in 1 .. L : Ancestors'[i] = Ancestors[i] /\ (IsList(i)' <=> IsList(i))
      /\ \A i : OwnText(i)' <=> OwnText(i)
  <2>1. ParentsFirst /\ ParentsFirst'
    <3>1. ParentsFirst'
      BY TreeShape, PTL
    <3> QED  BY <3>1, TreeShape
  <2>2. Len(out) <= Len(out') /\ \A i \in 1 .. Len(out) : out'[i].par = out[i].par
    BY <1>1
  <2>3. \A i \in 1 .. L : Ancestors'[i] = Ancestors[i]
    BY <2>1, <2>2, AncestorsStay
  <2>4. \A i \in 1 .. L : IsList(i)' <=> IsList(i)
    BY <1>1, Zenon DEF IsList
  <2>5. \A j \in 2 .. L : out'[j].par = out[j].par /\ out'[j].type = out[j].type
    BY <1>1
  <2>6. \A i : OwnText(i)' <=> OwnText(i)
    <3>1. \A i : (\E j \in 2 .. L : out'[j].par = i /\ out'[j].type # "sentence")
                  <=> \E j \in 2 .. L : out[j].par = i /\ out[j].type # "sentence"
      BY <2>5
    <3>2. \A i : OwnText(i)' <=> ~ \E j \in 2 .. L : out'[j].par = i /\ out'[j].type # "sentence"
      BY <1>1 DEF OwnText
    <3>3. \A i : OwnText(i) <=> ~ \E j \in 2 .. L : out[j].par = i /\ out[j].type # "sentence"
      BY DEF OwnText
    <3> QED  BY <3>1, <3>2, <3>3
  <2> QED  BY <2>3, <2>4, <2>6
\* The nodes the walk is inside of: each is inside those before it, c0 innermost.
<1>4. \A k \in Frames : \A j \in 1 .. k - 1 : open[j].node < open[k].node /\ j \in Frames
  BY <1>1, <1>2 DEF CollectInv, OpenChain
<1>5. /\ \A k \in Frames : Ancestors[open[k].node] = {open[j].node : j \in 1 .. k - 1}
      /\ \A k \in Frames : \A a \in Ancestors[open[k].node] : \E j \in 1 .. k - 1 : open[j].node = a
      /\ \A k \in Frames : \A j \in 1 .. k - 1 : open[j].node \in Ancestors[open[k].node]
  <2>1. \A k \in Frames : Ancestors[open[k].node] = {open[j].node : j \in 1 .. k - 1}
    BY Zenon DEF CollectInv, OpenChain
  <2>2. ASSUME NEW k \in Frames, NEW a \in Ancestors[open[k].node]
        PROVE  \E j \in 1 .. k - 1 : open[j].node = a
    <3>1. a \in {open[j].node : j \in 1 .. k - 1}
      BY <2>1, Zenon
    <3> QED  BY <3>1
  <2>3. ASSUME NEW k \in Frames, NEW j \in 1 .. k - 1 PROVE open[j].node \in Ancestors[open[k].node]
    <3>1. open[j].node \in {open[m].node : m \in 1 .. k - 1}
      OBVIOUS
    <3> QED  BY <2>1, <3>1, Zenon
  <2> QED  BY <2>1, <2>2, <2>3, Zenon
<1>6. \A k \in 1 .. n - 1 : open[k].node # c0
  <2>1. \A k \in 1 .. n - 1 : open[k].node < c0 /\ open[k].node \in 1 .. L
    BY <1>1, <1>2, <1>4, Zenon
  <2> QED  BY <1>1, <2>1
<1>7. \A i : IsOpen(i)' <=> IsOpen(i) /\ i # c0
  <2>1. \A i : IsOpen(i)' <=> \E k \in 1 .. n - 1 : open[k].node = i
    BY <1>2, Zenon DEF IsOpen
  <2>2. \A i : IsOpen(i) <=> i = c0 \/ \E k \in 1 .. n - 1 : open[k].node = i
    BY <1>1, <1>2, Zenon DEF IsOpen
  <2> QED  BY <1>6, <2>1, <2>2
<1>8. \A i : i \in Left' <=> i \in Left \/ i = c0
  <2>1. \A i : i \in Left <=> i \in 2 .. L /\ ~IsOpen(i)
    BY DEF Left, IsOpen, Frames
  <2>2. \A i : i \in Left' <=> i \in 2 .. L /\ ~IsOpen(i)'
    BY <1>1, SMTT(40) DEF Left, IsOpen, Frames
  <2> QED  BY <1>1, <1>7, <2>1, <2>2
<1>9. \A i \in Left : i \in 1 .. L /\ i # c0 /\ out'[i] = out[i] /\ Bytes(i)' = Bytes(i)
                      /\ (Leaf(i)' <=> Leaf(i)) /\ Ancestors'[i] = Ancestors[i]
  <2> SUFFICES ASSUME NEW i \in Left
               PROVE  i \in 1 .. L /\ i # c0 /\ out'[i] = out[i] /\ Bytes(i)' = Bytes(i)
                      /\ (Leaf(i)' <=> Leaf(i)) /\ Ancestors'[i] = Ancestors[i]
    OBVIOUS
  <2>1. i \in 1 .. L /\ i # c0
    BY <1>1 DEF Left, Frames
  <2>2. out'[i] = out[i] /\ Ancestors'[i] = Ancestors[i]
    BY <1>1, <1>3, <2>1
  <2>3. Bytes(i)' = Bytes(i)
    BY <2>2 DEF Bytes
  <2>4. Leaf(i)' <=> Leaf(i)
    BY <1>3, <2>2 DEF Leaf
  <2> QED  BY <2>1, <2>2, <2>3, <2>4
<1>10. \A l : IsOpen(l) /\ c0 \in Ancestors[l] => FALSE
  <2> SUFFICES ASSUME NEW k \in Frames, c0 \in Ancestors[open[k].node] PROVE FALSE
    BY DEF IsOpen
  <2>1. PICK j \in 1 .. k - 1 : open[j].node = c0
    BY <1>5, Zenon
  <2>2. j \in 1 .. n - 1
    BY <1>1, <1>2, <2>1
  <2> QED  BY <1>6, <2>1, <2>2
<1>11. \A l : IsOpen(l)' /\ p \in Ancestors[l] => FALSE
  <2> SUFFICES ASSUME NEW k \in 1 .. n - 1, p \in Ancestors[open[k].node] PROVE FALSE
    BY <1>2, Zenon DEF IsOpen
  <2>1. PICK j \in 1 .. k - 1 : open[j].node = p
    <3>1. k \in Frames
      BY <1>2
    <3> QED  BY <1>5, <3>1, Zenon
  <2>2. j \in 1 .. (n - 1) - 1 /\ n - 1 \in Frames
    BY <1>1, <2>1
  <2>3. p < p
    BY <1>1, <1>4, <2>1, <2>2
  <2> QED  BY <1>1, <2>3
<1>12. p \in Ancestors[c0] /\ p \in Ancestors'[c0]
  <2>1. n - 1 \in 1 .. n - 1
    BY <1>1
  <2>2. p \in Ancestors[c0]
    BY <1>1, <1>5, <2>1
  <2> QED  BY <1>2, <1>3, <2>2
\* As a leaf c0 would have no text.
<1>13. ~Leaf(c0)'
  <2>1. OwnText(c0)' => text = <<>>
    BY <1>1, <1>3 DEF CollectInv, OpenChain, TextOf
  <2> QED  BY <1>1, <2>1 DEF Leaf
<1>14. \A i \in Left : \A l \in Ancestors[i] : l \in 1 .. L /\ Ancestors'[l] = Ancestors[l]
                                              /\ (IsList(l)' <=> IsList(l))
  <2>1. \A i \in Left : \A l \in Ancestors[i] : l \in 1 .. L
    BY <1>9, <1>1, <1>2 DEF AncestorsOrdered
  <2> QED  BY <1>3, <2>1
<1>15. \A i \in Left : \A c : HiddenBetween(i, c)' <=> HiddenBetween(i, c)
  BY <1>9, <1>14 DEF HiddenBetween
<1>16. \A i \in Left : c0 \in Ancestors[i] => (HiddenBetween(i, c0) <=> Blocked(i, c0))
  BY <1>10 DEF HiddenBetween, Blocked
\* Outside p the node p itself still keeps back what c0 did.
<1>17. ASSUME NEW i \in Left, NEW k \in 1 .. n - 2 PROVE \A c \in {open[k].node} : Blocked(i, c)' <=> Blocked(i, c)
  <2> SUFFICES ASSUME NEW c \in {open[k].node} PROVE Blocked(i, c)' <=> Blocked(i, c)
    OBVIOUS
  <2>1. Ancestors'[i] = Ancestors[i]
    BY <1>9
  <2>2. Blocked(i, c)' => Blocked(i, c)
    BY <1>7, <1>14, <2>1 DEF Blocked
  <2>3. ASSUME Blocked(i, c) PROVE Blocked(i, c)'
    <3>1. PICK l \in Ancestors[i] : \/ l = c /\ IsList(l)
                                    \/ c \in Ancestors[l] /\ (IsList(l) \/ IsOpen(l))
      BY <2>3 DEF Blocked
    <3>2. CASE l # c0
      BY <1>7, <1>14, <2>1, <3>1, <3>2 DEF Blocked
    <3>3. CASE l = c0
      <4>1. p \in Ancestors[i]
        <5>1. i \in 1 .. L /\ c0 \in Ancestors[i]
          BY <1>9, <3>1, <3>3
        <5>2. Ancestors[c0] \subseteq Ancestors[i]
          BY <1>2, <5>1, Zenon DEF AncestorsOrdered
        <5> QED  BY <1>12, <5>2
      <4>2. c \in Ancestors[p]
        <5>1. k \in 1 .. (n - 1) - 1
          BY <1>1
        <5>2. Ancestors[p] = {open[j].node : j \in 1 .. (n - 1) - 1}
          BY <1>1, <1>5, Zenon
        <5> QED  BY <5>1, <5>2
      <4>3. IsOpen(p)'
        <5>1. IsOpen(p) /\ p # c0
          BY <1>1 DEF IsOpen
        <5> QED  BY <1>7, <5>1
      <4> QED  BY <1>14, <2>1, <4>1, <4>2, <4>3 DEF Blocked
    <3> QED  BY <3>2, <3>3
  <2> QED  BY <2>2, <2>3
\* At p, only what was below c0 may be passed on now.
<1>18. ASSUME NEW i \in Left, c0 \notin Ancestors[i] PROVE Blocked(i, p)' <=> Blocked(i, p)
  <2>1. \A l \in Ancestors[i] : l # c0
    BY <1>18
  <2> QED  BY <1>7, <1>9, <1>14, <2>1 DEF Blocked
<1>19. ASSUME NEW i \in Left, c0 \in Ancestors[i], ~IsList(p)
       PROVE  /\ p \in Ancestors[i] /\ Blocked(i, p)
              /\ Blocked(i, p)' <=> Blocked(i, c0)
  <2>1. p \in Ancestors[i] /\ \A l \in Ancestors[i] : Ancestors[l] \subseteq Ancestors[i]
    BY <1>2, <1>9, <1>12, <1>19 DEF AncestorsOrdered
  <2>2. Blocked(i, p)
    <3>1. IsOpen(c0)
      BY <1>1 DEF IsOpen
    <3> QED  BY <1>12, <1>19, <3>1 DEF Blocked
  <2>3. ASSUME Blocked(i, p)' PROVE Blocked(i, c0)
    <3>1. PICK l \in Ancestors'[i] : \/ l = p /\ IsList(l)'
                                     \/ p \in Ancestors'[l] /\ (IsList(l)' \/ IsOpen(l)')
      BY <2>3 DEF Blocked
    <3>2. l \in Ancestors[i] /\ l \in 1 .. L /\ p \in Ancestors[l] /\ IsList(l)
      BY <1>9, <1>11, <1>14, <1>19, <3>1
    <3>3. CASE l < c0
      <4>1. l \in Ancestors[c0]
        BY <1>2, <1>9, <1>19, <3>2, <3>3 DEF AncestorsOrdered
      <4>2. PICK j \in 1 .. n - 1 : l = open[j].node
        <5>1. l \in Ancestors[open[n].node] /\ n \in Frames
          BY <1>1, <4>1
        <5> QED  BY <1>5, <5>1, Zenon
      <4>3. PICK m \in 1 .. j - 1 : p = open[m].node
        <5>1. j \in Frames /\ p \in Ancestors[open[j].node]
          BY <1>2, <3>2, <4>2
        <5> QED  BY <1>5, <5>1, Zenon
      <4>4. m \in 1 .. (n - 1) - 1 /\ n - 1 \in Frames
        BY <1>1, <4>2, <4>3
      <4>5. p < p
        BY <1>1, <1>4, <4>3, <4>4, Zenon
      <4> QED  BY <1>1, <4>5
    <3>4. CASE l = c0
      BY <3>2, <3>4 DEF Blocked
    <3>5. CASE c0 < l
      <4>1. c0 \in Ancestors[l]
        BY <1>2, <1>9, <1>19, <3>2, <3>5 DEF AncestorsOrdered
      <4> QED  BY <3>2, <4>1 DEF Blocked
    <3> QED  BY <1>1, <3>2, <3>3, <3>4, <3>5
  <2>4. ASSUME Blocked(i, c0) PROVE Blocked(i, p)'
    <3>1. PICK l \in Ancestors[i] : \/ l = c0 /\ IsList(l)
                                    \/ c0 \in Ancestors[l] /\ (IsList(l) \/ IsOpen(l))
      BY <2>4 DEF Blocked
    <3>2. IsList(l) /\ (l = c0 \/ c0 \in Ancestors[l]) /\ l \in 1 .. L
      BY <1>10, <1>14, <3>1
    <3>3. p \in Ancestors[l]
      BY <1>2, <1>12, <3>2 DEF AncestorsOrdered
    <3> QED  BY <1>9, <1>14, <3>1, <3>2, <3>3 DEF Blocked
  <2> QED  BY <2>1, <2>2, <2>3, <2>4
\* The text that p's loop has now.
<1>20. /\ Once(text) /\ BytesOf(text) = Held(open[n]) /\ \A b \in BytesOf(text) : b.block \in 0 .. count
       /\ BytesOf(text) \cap Held(open[n - 1]) = {}
  <2>1. BytesOf(text) = Held(open[n])
    BY DEF Held
  <2>2. Once(text) /\ \A b \in Held(open[n]) : b.block \in 0 .. count
    BY <1>1 DEF CollectInv, BytesOnce
  <2>3. n - 1 \in 1 .. n - 1
    BY <1>1
  <2>4. Held(open[n - 1]) \cap Held(open[n]) = {}
    BY <1>1, <2>3, Zenon DEF CollectInv, FramesApart
  <2> QED  BY <2>1, <2>2, <2>4
<1>21. /\ Once(TextOf(open'[n - 1]))
       /\ Held(open'[n - 1]) = IF IsList(p) THEN {} ELSE Held(open[n - 1]) \cup BytesOf(text)
  <2>1. IsList(p) <=> open[n - 1].holds = "items"
    BY <1>1 DEF CollectInv, OpenChain
  <2>2. CASE IsList(p)
    <3>1. TextOf(open'[n - 1]) = <<>>
      BY <1>1, <2>1, <2>2 DEF TextOf
    <3>2. Len(<<>>) = 0 /\ 1 .. 0 = {}
      OBVIOUS
    <3> QED  BY <2>2, <3>1, <3>2 DEF Held, BytesOf, Once
  <2>3. CASE ~IsList(p)
    <3>1. TextOf(open[n - 1]) = open[n - 1].text /\ TextOf(open'[n - 1]) = open[n - 1].text \o text
      BY <1>1, <2>1, <2>3, Zenon DEF TextOf
    <3>2. open[n - 1].text \in Seq(Byte)
      BY <1>1, <1>2 DEF Frame
    <3>3. Once(open[n - 1].text) /\ Held(open[n - 1]) = BytesOf(open[n - 1].text)
          /\ Held(open'[n - 1]) = BytesOf(open[n - 1].text \o text)
      BY <1>1, <3>1 DEF CollectInv, BytesOnce, Held
    <3>4. BytesOf(open[n - 1].text) \cap BytesOf(text) = {}
      BY <1>20, <3>3
    <3>5. Once(open[n - 1].text \o text)
          /\ BytesOf(open[n - 1].text \o text) = BytesOf(open[n - 1].text) \cup BytesOf(text)
      BY <1>1, <1>20, <3>2, <3>3, <3>4, OnceJoined, Zenon
    <3> QED  BY <2>3, <3>1, <3>3, <3>5
  <2> QED  BY <2>2, <2>3
<1>22. \A k \in 1 .. n - 2 : Held(open'[k]) = Held(open[k]) /\ k \in Frames /\ open'[k] = open[k]
  BY <1>1, <1>2, SMTT(40)
<1>23. OpenChain'
  <2> SUFFICES ASSUME NEW k \in 1 .. n - 1, NEW c \in {open'[k].node}
               PROVE  /\ Ancestors'[c] = {open'[j].node : j \in 1 .. k - 1}
                      /\ \A j \in 1 .. k - 1 : open'[j].node < c
                      /\ IsList(c)' <=> open'[k].holds = "items"
                      /\ OwnText(c)' => open'[k].text = <<>>
    BY <1>2, Zenon DEF OpenChain
  <2>1. k \in Frames /\ c = open[k].node /\ c \in 1 .. L
    BY <1>2
  <2>2. \A j \in 1 .. k - 1 : open'[j].node = open[j].node
    BY <1>1, <1>2
  <2>3. {open'[j].node : j \in 1 .. k - 1} = {open[j].node : j \in 1 .. k - 1}
    BY <2>2, Zenon
  <2>4. OwnText(c)' => open'[k].text = <<>>
    <3>1. CASE k = n - 1
      <4>1. c = p
        BY <1>1, <2>1, <3>1
      <4>2. ~OwnText(p)
        BY <1>1, Zenon DEF OwnText
      <4> QED  BY <1>3, <4>1, <4>2
    <3>2. CASE k \in 1 .. n - 2
      BY <1>3, <1>22, <2>1, <3>2 DEF CollectInv, OpenChain
    <3> QED  BY <1>2, <3>1, <3>2
  <2>5. IsList(c)' <=> open'[k].holds = "items"
    BY <1>2, <1>3, <2>1 DEF CollectInv, OpenChain
  <2>6. Ancestors'[c] = {open[j].node : j \in 1 .. k - 1} /\ \A j \in 1 .. k - 1 : open[j].node < c
    BY <1>3, <1>4, <1>5, <2>1, Zenon
  <2> QED  BY <2>2, <2>3, <2>4, <2>5, <2>6, Zenon
<1>24. BytesOnce'
  <2>1. ASSUME NEW k \in 1 .. n - 1
        PROVE  Once(TextOf(open'[k])) /\ \A b \in Held(open'[k]) : b.block \in 0 .. count
    <3>1. Once(TextOf(open[k])) /\ \A b \in Held(open[k]) : b.block \in 0 .. count
      BY <1>2 DEF CollectInv, BytesOnce
    <3>2. CASE k = n - 1
      BY <1>20, <1>21, <3>1, <3>2
    <3>3. CASE k \in 1 .. n - 2
      BY <1>22, <3>1, <3>3
    <3> QED  BY <1>2, <3>2, <3>3
  <2>2. ASSUME NEW i \in Left' PROVE Once(out'[i].text) /\ \A b \in Bytes(i)' : b.block \in 0 .. count
    <3>1. CASE i \in Left
      <4>1. Once(out[i].text) /\ \A b \in Bytes(i) : b.block \in 0 .. count
        BY <3>1 DEF CollectInv, BytesOnce
      <4> QED  BY <1>9, <3>1, <4>1
    <3>2. CASE i = c0
      <4>1. Bytes(i)' = BytesOf(text)
        BY <1>1, <3>2, SMTT(40) DEF Bytes, BytesOf
      <4> QED  BY <1>1, <1>20, <3>2, <4>1
    <3> QED  BY <1>8, <3>1, <3>2
  <2> QED  BY <1>2, <2>1, <2>2 DEF BytesOnce
<1>25. FramesApart'
  <2> SUFFICES ASSUME NEW k \in 1 .. n - 1, NEW j \in 1 .. k - 1
               PROVE  Held(open'[j]) \cap Held(open'[k]) = {}
    BY <1>2, Zenon DEF FramesApart
  <2>1. j \in 1 .. n - 2 /\ k \in Frames /\ j \in 1 .. n - 1
    BY <1>1, <1>2, SMTT(40)
  <2>2. Held(open[j]) \cap Held(open[k]) = {} /\ Held(open[j]) \cap Held(open[n]) = {}
    BY <1>1, <2>1, Zenon DEF CollectInv, FramesApart
  <2>3. Held(open'[k]) \subseteq Held(open[k]) \cup Held(open[n])
    BY <1>2, <1>20, <1>21, <1>22
  <2> QED  BY <1>22, <2>1, <2>2, <2>3, Zenon
<1>26. LeftCollect'
  <2> SUFFICES ASSUME NEW c \in Left', NEW i \in Left', c \in Ancestors'[i], Leaf(i)'
               PROVE  IF HiddenBetween(i, c)' THEN Bytes(i)' \cap Bytes(c)' = {}
                                              ELSE Bytes(i)' \subseteq Bytes(c)'
    BY DEF LeftCollect
  <2>1. i \in Left
    BY <1>8, <1>13
  <2>2. CASE c \in Left
    <3>1. IF HiddenBetween(i, c) THEN Bytes(i) \cap Bytes(c) = {} ELSE Bytes(i) \subseteq Bytes(c)
      BY <1>9, <2>1, <2>2 DEF CollectInv, LeftCollect
    <3> QED  BY <1>9, <1>15, <2>1, <2>2, <3>1
  <2>3. CASE c = c0
    <3>1. Bytes(c)' = Held(open[n])
      <4>1. Bytes(c)' = BytesOf(out'[c].text)
        BY DEF Bytes, BytesOf
      <4> QED  BY <1>1, <1>20, <2>3, <4>1
    <3>2. c0 \in Ancestors[i] /\ Leaf(i)
      BY <1>9, <2>1, <2>3
    <3>3. IF c0 \in Ancestors[i] /\ ~Blocked(i, c0)
          THEN Bytes(i) \subseteq Held(open[n]) ELSE Bytes(i) \cap Held(open[n]) = {}
      BY <1>1, <2>1, <3>2 DEF CollectInv, OpenCollect
    <3> QED  BY <1>9, <1>15, <1>16, <2>1, <2>3, <3>1, <3>2, <3>3
  <2> QED  BY <1>8, <2>2, <2>3
<1>27. OpenCollect'
  <2> SUFFICES ASSUME NEW k \in 1 .. n - 1, NEW c \in {open'[k].node}, NEW i \in Left', Leaf(i)'
               PROVE  IF c \in Ancestors'[i] /\ ~Blocked(i, c)'
                      THEN Bytes(i)' \subseteq Held(open'[k]) ELSE Bytes(i)' \cap Held(open'[k]) = {}
    BY <1>2, Zenon DEF OpenCollect
  <2>1. i \in Left /\ Leaf(i) /\ Bytes(i)' = Bytes(i) /\ Ancestors'[i] = Ancestors[i]
    BY <1>8, <1>9, <1>13
  <2>2. IF c \in Ancestors[i] /\ ~Blocked(i, c)
        THEN Bytes(i) \subseteq Held(open[k]) ELSE Bytes(i) \cap Held(open[k]) = {}
    <3>1. k \in Frames /\ c \in {open[k].node}
      BY <1>2, Zenon
    <3> QED  BY <2>1, <3>1 DEF CollectInv, OpenCollect
  <2>3. CASE k \in 1 .. n - 2
    BY <1>2, <1>17, <1>22, <2>1, <2>2, <2>3
  <2>4. CASE k = n - 1
    <3>1. c = p
      BY <1>1, <2>4
    <3>2. IF c0 \in Ancestors[i] /\ ~Blocked(i, c0)
          THEN Bytes(i) \subseteq BytesOf(text) ELSE Bytes(i) \cap BytesOf(text) = {}
      BY <1>1, <1>20, <2>1 DEF CollectInv, OpenCollect
    <3>3. CASE IsList(p)
      <4>1. p \in Ancestors'[i] => Blocked(i, p)'
        BY <1>14, <2>1, <3>3 DEF Blocked
      <4> QED  BY <1>21, <2>4, <3>1, <3>3, <4>1
    <3>4. CASE ~IsList(p) /\ c0 \in Ancestors[i]
      BY <1>19, <1>21, <2>1, <2>2, <2>4, <3>1, <3>2, <3>4
    <3>5. CASE ~IsList(p) /\ c0 \notin Ancestors[i]
      BY <1>18, <1>21, <2>1, <2>2, <2>4, <3>1, <3>2, <3>5
    <3> QED  BY <3>3, <3>4, <3>5
  <2> QED  BY <1>2, <2>3, <2>4
<1> QED  BY <1>23, <1>24, <1>25, <1>26, <1>27 DEF CollectInv

-----------------------------------------------------------------------------
\* The text of a block has no byte twice, and those of that block.
LEMMA TextOnce ==
  ASSUME TypeOK, NEW len \in 0 .. MaxText
  PROVE  /\ Text(len) \in Seq(Byte) /\ Len(Text(len)) = len
         /\ Once(Text(len)) /\ \A b \in BytesOf(Text(len)) : b.block = count + 1
<1>1. Text(len) \in Seq(Byte) /\ Len(Text(len)) = len
  BY TextIsBytes
<1>2. \A i \in 1 .. len : Text(len)[i] = [block |-> count + 1, at |-> i]
  BY DEF Text
<1>3. ASSUME NEW i \in 1 .. len PROVE Text(len)[i].block = count + 1 /\ Text(len)[i].at = i
  <2>1. Text(len)[i] = [block |-> count + 1, at |-> i]
    BY <1>2
  <2> QED  BY <2>1
<1> HIDE DEF Text
<1>4. Once(Text(len))
  BY <1>1, <1>3 DEF Once
<1>5. \A b \in BytesOf(Text(len)) : b.block = count + 1
  BY <1>1, <1>3 DEF BytesOf
<1> QED  BY <1>1, <1>4, <1>5

\* The empty text.
LEMMA NoBytes == <<>> \in Seq(Byte) /\ Once(<<>>) /\ BytesOf(<<>>) = {}
<1>1. Len(<<>>) = 0 /\ 1 .. 0 = {}
  OBVIOUS
<1> QED  BY <1>1 DEF Once, BytesOf

\* A part of a text has no byte twice either, and none that the text has not.
LEMMA PartOnce ==
  ASSUME NEW t \in Seq(Byte), Once(t), NEW a \in Nat \ {0}, NEW z \in Nat, z <= Len(t)
  PROVE  Once(SubSeq(t, a, z)) /\ BytesOf(SubSeq(t, a, z)) \subseteq BytesOf(t)
<1> DEFINE s == SubSeq(t, a, z)
<1>1. \A i \in a .. z : i \in 1 .. Len(t) /\ t[i] \in Byte
  OBVIOUS
<1>2. Len(s) = IF a <= z THEN z - a + 1 ELSE 0
  BY <1>1, SubSeqProperties
<1>3. \A i \in 1 .. Len(s) : i \in Int /\ a + i - 1 \in 1 .. Len(t) /\ s[i] = t[a + i - 1]
  <2>1. \A i \in 1 .. z - a + 1 : s[i] = t[a + i - 1]
    BY <1>1, SubSeqProperties
  <2> HIDE DEF s
  <2> QED  BY <1>2, <2>1
<1> HIDE DEF s
<1>4. ASSUME NEW j \in 1 .. Len(s), NEW k \in 1 .. Len(s), s[j] = s[k] PROVE j = k
  <2>1. a + j - 1 = a + k - 1
    BY <1>3, <1>4, Zenon DEF Once
  <2> QED  BY <1>3, <2>1
<1>5. BytesOf(s) \subseteq BytesOf(t)
  BY <1>3, Zenon DEF BytesOf
<1> QED  BY <1>4, <1>5 DEF Once, s

\* A block that becomes one node.
LEMMA SingleGrows ==
  ASSUME TreeInv, NEW type \in NodeType \ {"document", "sentence", "list_item"},
         NEW text \in Seq(Byte), Single(type, text)
  PROVE  /\ Grows /\ Len(out') = Len(out) + 1 /\ Len(open') = Len(open)
         /\ out'[Len(out) + 1].type = type /\ out'[Len(out) + 1].text = text
         /\ out'[Len(out) + 1].body = count + 1
<1>1. /\ out' = Append(out, Child(type, counter, count + 1, text)) /\ open' = Joined(open, text)
      /\ count' = count + 1 /\ Top.holds = "blocks" /\ counter' = counter + 1
  BY DEF Single, Meet
<1>2. /\ Len(out') = Len(out) + 1 /\ Len(out) \in Nat
      /\ \A i \in 1 .. Len(out) : out'[i] = out[i]
      /\ out'[Len(out) + 1] = Child(type, counter, count + 1, text)
  <2> DEFINE child == Child(type, counter, count + 1, text)
  <2>1. counter \in Nat /\ count + 1 \in Nat /\ out \in Seq(Node)
    BY DEF TreeInv, TypeOK
  <2>2. child \in Node
    BY <2>1, ChildIsNode
  <2>3. out' = Append(out, child)
    BY <1>1
  <2> HIDE DEF child
  <2>4. /\ Len(out') = Len(out) + 1 /\ Len(out) \in Nat
        /\ \A i \in 1 .. Len(out) : out'[i] = out[i]
        /\ out'[Len(out) + 1] = child
    BY <2>1, <2>2, <2>3
  <2> QED  BY <2>4 DEF child
<1>3. /\ out'[Len(out) + 1].par = Top.node /\ out'[Len(out) + 1].type = type
      /\ out'[Len(out) + 1].text = text /\ out'[Len(out) + 1].body = count + 1
  BY <1>2 DEF Child
<1>4. /\ Len(open') = Len(open) /\ Len(open) \in Nat
      /\ \A k \in 1 .. Len(open) : open'[k].node = open[k].node
  BY <1>1, JoinedFrames, Zenon DEF TreeInv, TypeOK, InsideHolders
<1>5. Len(out) + 2 .. Len(out') = {}
  BY <1>2
<1>6. Grows
  BY <1>2, <1>3, <1>4, <1>5 DEF Grows, Frames
<1> QED  BY <1>2, <1>3, <1>4, <1>6

\* Its text goes to the loops and the containers as it should.
LEMMA SingleCollect ==
  ASSUME TreeInv, TreeInv', CollectInv,
         NEW type \in NodeType \ {"document", "sentence", "list_item"}, NEW text \in Seq(Byte),
         Once(text), \A b \in BytesOf(text) : b.block = count + 1, Single(type, text)
  PROVE  CollectInv'
<1>1. open' = Joined(open, text) /\ count' = count + 1 /\ Top.holds = "blocks"
  BY DEF Single, Meet
<1>2. /\ Grows /\ Len(out') = Len(out) + 1
      /\ out'[Len(out) + 1].type = type /\ out'[Len(out) + 1].text = text
  BY SingleGrows
<1>3. Len(out) + 2 .. Len(out') = {}
  BY <1>2 DEF TreeInv, TypeOK
<1>4. PICK L, n : L = Len(out) /\ n = Len(open)
  BY Zenon
<1> QED  BY <1>1, <1>2, <1>3, <1>4, LeafCollect

\* A paragraph with its sentences.
LEMMA ParaGrows ==
  ASSUME TreeInv, NEW len \in 0 .. MaxText, NEW ends \in Tilings(len), Para(len, ends)
  PROVE  /\ Grows /\ Len(out') = Len(out) + 1 + Len(ends) /\ Len(open') = Len(open)
         /\ out'[Len(out) + 1].type = "paragraph" /\ out'[Len(out) + 1].text = Text(len)
         /\ out'[Len(out) + 1].body = count + 1
         /\ \A k \in 1 .. Len(ends) : /\ out'[Len(out) + 1 + k].par = Len(out) + 1
                                      /\ out'[Len(out) + 1 + k].text = SpanText(Text(len), ends, k)
<1> DEFINE para == Child("paragraph", counter, count + 1, Text(len))
           sentences == [k \in 1 .. Len(ends) |->
                           [type |-> "sentence", par |-> Len(out) + 1, pos |-> counter + k,
                            body |-> NoBody, text |-> SpanText(Text(len), ends, k)]]
<1>1. /\ Text(len) \in Seq(Byte) /\ Len(Text(len)) = len
      /\ Once(Text(len)) /\ \A b \in BytesOf(Text(len)) : b.block = count + 1
  BY TextOnce DEF TreeInv
<1>2. PICK text : text = Text(len)
  OBVIOUS
<1>3. out' = Append(out, para) \o sentences /\ open' = Joined(open, text)
  BY <1>2 DEF Para
<1>4. /\ out \in Seq(Node) /\ Len(out) \in Nat /\ para \in Node /\ Len(ends) \in Nat
      /\ para.par = Top.node /\ para.type = "paragraph" /\ para.text = text /\ para.body = count + 1
  <2>1. para \in Node
    BY <1>1, ChildIsNode, Counted, Zenon DEF NodeType, TreeInv, TypeOK
  <2>2. out \in Seq(Node) /\ Len(out) \in Nat
    BY DEF TreeInv, TypeOK
  <2>3. Len(ends) \in Nat
    BY DEF Tilings
  <2>4. para.par = Top.node /\ para.type = "paragraph" /\ para.text = text /\ para.body = count + 1
    BY <1>2 DEF Child
  <2> QED  BY <2>1, <2>2, <2>3, <2>4
<1>5. /\ sentences \in Seq(Node) /\ Len(sentences) = Len(ends)
      /\ \A k \in 1 .. Len(ends) : /\ sentences[k].type = "sentence" /\ sentences[k].par = Len(out) + 1
                                   /\ sentences[k].text = SpanText(Text(len), ends, k)
  BY <1>4, SentencesAreNodes
<1> HIDE DEF para, sentences
<1>6. Append(out, para) \in Seq(Node) /\ Len(Append(out, para)) = Len(out) + 1
      /\ Append(out, para)[Len(out) + 1] = para
      /\ \A i \in 1 .. Len(out) : Append(out, para)[i] = out[i]
  BY <1>4
<1>7. Len(out') = Len(out) + 1 + Len(ends)
      /\ \A i \in 1 .. Len(out) + 1 + Len(ends) :
            out'[i] = IF i <= Len(out) + 1 THEN Append(out, para)[i] ELSE sentences[i - (Len(out) + 1)]
  <2> DEFINE whole == Append(out, para) \o sentences
  <2>1. Len(whole) = Len(out) + 1 + Len(ends)
        /\ \A i \in 1 .. Len(out) + 1 + Len(ends) :
              whole[i] = IF i <= Len(out) + 1 THEN Append(out, para)[i] ELSE sentences[i - (Len(out) + 1)]
    <3> DEFINE s == Append(out, para)
    <3>1. s \in Seq(Node) /\ Len(s) = Len(out) + 1
      BY <1>6
    <3> HIDE DEF s
    <3>2. Len(s \o sentences) = Len(s) + Len(sentences)
          /\ \A i \in 1 .. Len(s) + Len(sentences) :
                (s \o sentences)[i] = IF i <= Len(s) THEN s[i] ELSE sentences[i - Len(s)]
      <4>1. s \in Seq(Node) /\ sentences \in Seq(Node)
        BY <1>5, <3>1
      <4> QED  BY <4>1, ConcatProperties, Zenon
    <3>3. Len(s) + Len(sentences) = Len(out) + 1 + Len(ends)
      BY <1>4, <1>5, <3>1
    <3> QED  BY <3>1, <3>2, <3>3 DEF s
  <2>2. out' = whole
    BY <1>3
  <2> HIDE DEF whole
  <2> QED  BY <2>1, <2>2
<1>8. /\ \A i \in 1 .. Len(out) : out'[i] = out[i]
      /\ out'[Len(out) + 1] = para
  BY <1>4, <1>6, <1>7
<1>9. \A k \in 1 .. Len(ends) : out'[Len(out) + 1 + k] = sentences[k]
  BY <1>4, <1>7
<1>10. \A i \in Len(out) + 2 .. Len(out') : out'[i].par = Len(out) + 1 /\ out'[i].type = "sentence"
  <2> SUFFICES ASSUME NEW i \in Len(out) + 2 .. Len(out')
               PROVE  out'[i].par = Len(out) + 1 /\ out'[i].type = "sentence"
    OBVIOUS
  <2>1. i - (Len(out) + 1) \in 1 .. Len(ends) /\ out'[i] = sentences[i - (Len(out) + 1)]
    BY <1>4, <1>7
  <2> QED  BY <1>5, <2>1
<1>11. /\ Len(open') = Len(open) /\ Len(open) \in Nat
       /\ \A k \in 1 .. Len(open) : open'[k].node = open[k].node
  BY <1>1, <1>2, <1>3, JoinedFrames, Zenon DEF TreeInv, TypeOK, InsideHolders
<1>12. Grows
  <2>1. Len(out) < Len(out')
    BY <1>4, <1>7
  <2>2. out'[Len(out) + 1].par = Top.node /\ out'[Len(out) + 1].type # "sentence"
    BY <1>4, <1>8
  <2>3. /\ Len(open) <= Len(open') /\ \A k \in Frames : open'[k].node = open[k].node
        /\ \A k \in 1 .. Len(open') : k \in Frames
    BY <1>11 DEF Frames
  <2> QED  BY <1>8, <1>10, <2>1, <2>2, <2>3 DEF Grows
<1> QED  BY <1>2, <1>4, <1>5, <1>7, <1>8, <1>9, <1>11, <1>12

\* The sentences have no byte that the paragraph has not.
LEMMA ParaCollect ==
  ASSUME TreeInv, TreeInv', CollectInv,
         NEW len \in 0 .. MaxText, NEW ends \in Tilings(len), Para(len, ends)
  PROVE  CollectInv'
<1>1. /\ Text(len) \in Seq(Byte) /\ Len(Text(len)) = len
      /\ Once(Text(len)) /\ \A b \in BytesOf(Text(len)) : b.block = count + 1
  BY TextOnce DEF TreeInv
<1>2. PICK text : text = Text(len)
  OBVIOUS
<1>3. open' = Joined(open, text) /\ count' = count + 1 /\ Top.holds = "blocks"
  BY <1>2 DEF Para, Meet
<1>4. /\ Grows /\ Len(out') = Len(out) + 1 + Len(ends)
      /\ out'[Len(out) + 1].type = "paragraph" /\ out'[Len(out) + 1].text = text
      /\ \A k \in 1 .. Len(ends) : out'[Len(out) + 1 + k].text = SpanText(Text(len), ends, k)
  BY <1>2, ParaGrows
<1>5. Len(ends) \in Nat /\ Len(out) \in Nat
  BY DEF Tilings, TreeInv, TypeOK
<1>6. \A k \in 1 .. Len(ends) : /\ Once(SpanText(Text(len), ends, k))
                                /\ BytesOf(SpanText(Text(len), ends, k)) \subseteq BytesOf(text)
  <2> SUFFICES ASSUME NEW k \in 1 .. Len(ends)
               PROVE  /\ Once(SpanText(Text(len), ends, k))
                      /\ BytesOf(SpanText(Text(len), ends, k)) \subseteq BytesOf(text)
    OBVIOUS
  <2> DEFINE a == IF k = 1 THEN 1 ELSE ends[k - 1] + 1
  <2>1. \A i \in 1 .. Len(ends) : ends[i] \in 1 .. len
    BY DEF Tilings
  <2>2. k > 1 => ends[k - 1] \in 1 .. len
    <3>1. k \in Nat /\ (k > 1 => k - 1 \in 1 .. Len(ends))
      BY <1>5
    <3> QED  BY <2>1, <3>1
  <2>3. a \in Nat \ {0} /\ ends[k] \in Nat /\ ends[k] <= len
    <3>1. ends[k] \in 1 .. len /\ k \in 1 .. Len(ends) /\ len \in Nat
      BY <2>1
    <3>2. k = 1 \/ k > 1
      BY <1>5
    <3> QED  BY <2>2, <3>1, <3>2
  <2>4. SpanText(Text(len), ends, k) = SubSeq(text, a, ends[k])
    BY <1>2 DEF SpanText
  <2> HIDE DEF a
  <2> QED  BY <1>1, <1>2, <2>3, <2>4, PartOnce
<1>7. \A i \in Len(out) + 2 .. Len(out') : /\ Once(out'[i].text)
                                           /\ BytesOf(out'[i].text) \subseteq BytesOf(text)
  <2> SUFFICES ASSUME NEW i \in Len(out) + 2 .. Len(out')
               PROVE  Once(out'[i].text) /\ BytesOf(out'[i].text) \subseteq BytesOf(text)
    OBVIOUS
  <2>1. PICK k : k = i - (Len(out) + 1)
    OBVIOUS
  <2>2. k \in 1 .. Len(ends) /\ i = Len(out) + 1 + k
    <3>1. Len(out') = Len(out) + 1 + Len(ends)
      BY <1>4
    <3> QED  BY <1>5, <2>1, <3>1
  <2> QED  BY <1>4, <1>6, <2>2
<1>8. PICK L, n : L = Len(out) /\ n = Len(open)
  BY Zenon
<1>9. out'[Len(out) + 1].type # "list_item"
  BY <1>4
<1> QED  BY <1>1, <1>2, <1>3, <1>4, <1>7, <1>8, <1>9, LeafCollect, Zenon

\* A block or an item with children of its own.
LEMMA OpenGrows ==
  ASSUME TreeInv, NEW met, NEW type \in Holder \ {"document"},
         NEW hasContent \in BOOLEAN, NEW holds \in {"blocks", "items"}, Open(met, type, hasContent, holds)
  PROVE  /\ Grows /\ Len(out') = Len(out) + 1 /\ Len(open') = Len(open) + 1
         /\ out'[Len(out) + 1].type = type /\ out'[Len(out) + 1].text = <<>>
         /\ hasContent <=> out'[Len(out) + 1].body # NoBody
         /\ \E frame \in Frame : /\ open' = Append(open, frame) /\ open'[Len(open) + 1] = frame
                                 /\ \A k \in Frames : open'[k] = open[k]
                                 /\ frame.node = Len(out) + 1 /\ frame.text = <<>> /\ frame.holds = holds
<1>1. PICK L, n, body, frame : /\ L = Len(out) /\ n = Len(open)
                               /\ body = IF hasContent THEN count + 1 ELSE NoBody
                               /\ frame = [node |-> Len(out) + 1, holds |-> holds, text |-> <<>>,
                                           loose |-> Top.loose /\ type = "section"]
  BY Zenon
<1>2. /\ out' = Append(out, Child(type, counter, body, <<>>)) /\ open' = Append(open, frame)
  BY <1>1 DEF Open
<1>3. /\ frame \in Frame /\ frame.node = L + 1 /\ frame.text = <<>> /\ frame.holds = holds
      /\ body \in Nat /\ (hasContent <=> body # NoBody)
  <2>1. count \in Nat /\ Len(out) \in Nat /\ <<>> \in Seq(Byte)
    BY DEF TreeInv, TypeOK
  <2>2. frame \in Frame /\ frame.node = L + 1 /\ frame.text = <<>> /\ frame.holds = holds
    BY <1>1, <2>1, TopIsHolder DEF Frame
  <2>3. body \in Nat /\ (hasContent <=> body # NoBody)
    BY <1>1, <2>1 DEF NoBody
  <2> QED  BY <2>2, <2>3
<1>4. /\ out \in Seq(Node) /\ open \in Seq(Frame) /\ L \in Nat /\ n \in Nat
      /\ Child(type, counter, body, <<>>) \in Node
  <2>1. type \in NodeType /\ counter \in Nat /\ <<>> \in Seq(Byte)
    BY DEF Holder, NodeType, TreeInv, TypeOK
  <2>2. Child(type, counter, body, <<>>) \in Node
    BY <1>3, <2>1, ChildIsNode, Zenon
  <2> QED  BY <1>1, <2>2 DEF TreeInv, TypeOK
<1>5. /\ Len(out') = L + 1 /\ \A i \in 1 .. L : out'[i] = out[i]
      /\ out'[L + 1] = Child(type, counter, body, <<>>)
  BY <1>1, <1>2, <1>4
<1>6. out'[L + 1].par = Top.node /\ out'[L + 1].type = type
      /\ out'[L + 1].body = body /\ out'[L + 1].text = <<>>
  BY <1>5 DEF Child
<1>7. /\ Len(open') = n + 1 /\ open'[n + 1] = frame /\ \A k \in 1 .. n : open'[k] = open[k]
  BY <1>1, <1>2, <1>3, <1>4
<1>8. Grows
  <2>1. L + 2 .. Len(out') = {} /\ \A k \in 1 .. n + 1 : k \in 1 .. n \/ k = n + 1
    BY <1>4, <1>5
  <2>2. type # "sentence"
    BY DEF Holder
  <2> QED  BY <1>1, <1>3, <1>4, <1>5, <1>6, <1>7, <2>1, <2>2 DEF Grows, Frames
<1> QED  BY <1>1, <1>2, <1>3, <1>5, <1>6, <1>7, <1>8, Zenon DEF Frames

\* It comes without a text, and so do the nodes below it that are to come.
LEMMA OpenStepCollect ==
  ASSUME TreeInv, TreeInv', CollectInv, NEW met, NEW type \in Holder \ {"document"},
         NEW hasContent \in BOOLEAN, NEW holds \in {"blocks", "items"},
         type = "list_item" /\ hasContent <=> holds = "items", Open(met, type, hasContent, holds)
  PROVE  CollectInv'
<1>1. /\ Grows /\ Len(out') = Len(out) + 1
      /\ out'[Len(out) + 1].type = type /\ (hasContent <=> out'[Len(out) + 1].body # NoBody)
  BY OpenGrows
<1>2. PICK frame \in Frame : /\ open' = Append(open, frame)
                             /\ frame.node = Len(out) + 1 /\ frame.text = <<>> /\ frame.holds = holds
  BY OpenGrows
<1>3. PICK L, n : L = Len(out) /\ n = Len(open)
  BY Zenon
<1>4. count' = count + 1
  BY DEF Open, Meet
<1>5. \A c \in {L + 1} : IsList(c)' <=> frame.holds = "items"
  BY <1>1, <1>2, <1>3 DEF IsList
<1> QED  BY <1>1, <1>2, <1>3, <1>4, <1>5, OpenCollected, Zenon

-----------------------------------------------------------------------------
\* Steps that leave the tree and the loops alone.
LEMMA SameCollect ==
  ASSUME TreeInv, CollectInv, UNCHANGED <<out, open>>, count' \in {count, count + 1}
  PROVE  CollectInv'
<1>1. /\ Frames' = Frames /\ Left' = Left /\ Ancestors' = Ancestors /\ count \in Nat
      /\ \A i : /\ Bytes(i)' = Bytes(i) /\ (IsList(i)' <=> IsList(i)) /\ (OwnText(i)' <=> OwnText(i))
                /\ (IsOpen(i)' <=> IsOpen(i))
  <2>1. Ancestors' = Ancestors
    BY DEF Ancestors
  <2>2. Frames' = Frames /\ Left' = Left
    BY DEF Frames, Left
  <2>3. \A i : Bytes(i)' = Bytes(i)
    BY DEF Bytes
  <2>4. \A i : IsList(i)' <=> IsList(i)
    BY DEF IsList
  <2>5. \A i : OwnText(i)' <=> OwnText(i)
    BY DEF OwnText
  <2>6. \A i : IsOpen(i)' <=> IsOpen(i)
    BY <2>2 DEF IsOpen
  <2> QED  BY <2>1, <2>2, <2>3, <2>4, <2>5, <2>6 DEF TreeInv, TypeOK
<1>2. \A i : /\ Leaf(i)' <=> Leaf(i)
             /\ \A c : /\ HiddenBetween(i, c)' <=> HiddenBetween(i, c)
                       /\ Blocked(i, c)' <=> Blocked(i, c)
  BY <1>1 DEF Leaf, HiddenBetween, Blocked
<1>3. OpenChain'
  <2>1. OpenChain
    BY DEF CollectInv
  <2>2. \A k \in Frames : open'[k] = open[k]
    OBVIOUS
  <2> QED  BY <1>1, <2>1, <2>2 DEF OpenChain
<1>4. BytesOnce'
  <2>1. \A b : b.block \in 0 .. count => b.block \in 0 .. count'
    BY <1>1
  <2> QED  BY <1>1, <2>1 DEF CollectInv, BytesOnce
<1>5. FramesApart'
  BY <1>1 DEF CollectInv, FramesApart
<1>6. LeftCollect'
  BY <1>1, <1>2 DEF CollectInv, LeftCollect
<1>7. OpenCollect'
  BY <1>1, <1>2 DEF CollectInv, OpenCollect
<1> QED  BY <1>3, <1>4, <1>5, <1>6, <1>7 DEF CollectInv

\* Every step.
LEMMA NextCollect == TreeInv /\ TreeInv' /\ CollectInv /\ [Next]_vars => CollectInv'
<1> SUFFICES ASSUME TreeInv, TreeInv', CollectInv, [Next]_vars PROVE CollectInv'
  OBVIOUS
<1>1. ASSUME NEW len \in 0 .. MaxText, NEW ends \in Tilings(len), Para(len, ends) PROVE CollectInv'
  BY <1>1, ParaCollect
<1>2. ASSUME NEW len \in 0 .. MaxText,
             Header(len) \/ CodeBlock(len) \/ LineBlock(len) \/ RawBlock(len) \/ DefinitionList(len)
      PROVE  CollectInv'
  <2>1. Text(len) \in Seq(Byte) /\ Once(Text(len)) /\ \A b \in BytesOf(Text(len)) : b.block = count + 1
    BY TextOnce DEF TreeInv
  <2>2. PICK type \in {"heading", "code_block", "paragraph"} : Single(type, Text(len))
    BY <1>2 DEF Header, CodeBlock, LineBlock, RawBlock, DefinitionList
  <2>3. type \in NodeType \ {"document", "sentence", "list_item"}
    BY DEF NodeType
  <2> QED  BY <2>1, <2>2, <2>3, SingleCollect
<1>3. CASE Table \/ HorizontalRule
  <2>1. PICK type \in {"table", "thematic_break"} : Single(type, <<>>)
    BY <1>3 DEF Table, HorizontalRule
  <2>2. type \in NodeType \ {"document", "sentence", "list_item"}
    BY DEF NodeType
  <2>3. <<>> \in Seq(Byte) /\ Once(<<>>) /\ \A b \in BytesOf(<<>>) : b.block = count + 1
    BY NoBytes
  <2> QED  BY <2>1, <2>2, <2>3, SingleCollect, Zenon
<1>4. CASE BlockQuote \/ List \/ Item \/ Div \/ Figure
  <2>1. CASE BlockQuote
    BY <2>1, OpenStepCollect, Zenon DEF BlockQuote, Holder
  <2>2. CASE List
    BY <2>2, OpenStepCollect, Zenon DEF List, Holder
  <2>3. CASE Item
    BY <2>3, OpenStepCollect, Zenon DEF Item, Holder
  <2>4. CASE Div
    BY <2>4, OpenStepCollect, Zenon DEF Div, Holder
  <2>5. CASE Figure
    BY <2>5, OpenStepCollect, Zenon DEF Figure, Holder
  <2> QED  BY <1>4, <2>1, <2>2, <2>3, <2>4, <2>5
<1>5. CASE Null
  BY <1>5, SameCollect DEF Null, Meet
<1>6. CASE Close
  BY <1>6, CloseCollect
<1>7. CASE Finish
  BY <1>7, SameCollect DEF Finish
<1>8. CASE Done \/ UNCHANGED vars
  BY <1>8, SameCollect DEF Done, vars
<1> QED  BY <1>1, <1>2, <1>3, <1>4, <1>5, <1>6, <1>7, <1>8 DEF Next

\* A text without a repeated byte has as many bytes as it is long.
LEMMA OnceCounted ==
  ASSUME NEW t \in Seq(Byte), Once(t) PROVE Cardinality(BytesOf(t)) = Len(t)
<1> DEFINE n == Len(t)
           at == [k \in 1 .. n |-> t[k]]
<1>1. n \in Nat
  OBVIOUS
<1>2. at \in Bijection(1 .. n, BytesOf(t))
  <2>1. at \in [1 .. n -> BytesOf(t)]
    BY DEF BytesOf
  <2>2. \A j, k \in 1 .. n : at[j] = at[k] => j = k
    BY DEF Once
  <2>3. \A b \in BytesOf(t) : \E k \in 1 .. n : at[k] = b
    BY DEF BytesOf
  <2> HIDE DEF at, n
  <2>4. DOMAIN at = 1 .. n
    BY DEF at
  <2> QED  BY <2>1, <2>2, <2>3, <2>4 DEF Bijection, Injection, Surjection, IsInjective
<1>3. ExistsBijection(1 .. n, BytesOf(t))
  BY <1>2 DEF ExistsBijection
<1> HIDE DEF n
<1>4. Cardinality(BytesOf(t)) = n
  BY <1>1, <1>3, FS_CountingElements
<1> QED  BY <1>4 DEF n

\* The invariant says what ContainersCollect does, and more.
LEMMA CollectsTexts == TreeInv /\ CollectInv => ContainersCollect
<1> SUFFICES ASSUME TreeInv, CollectInv, NEW c \in Left
             PROVE  /\ Cardinality(Bytes(c)) = Len(out[c].text)
                    /\ \A i \in Left :
                         c \in Ancestors[i] /\ OwnText(i) /\ out[i].text # <<>> =>
                            IF HiddenBetween(i, c) THEN Bytes(i) \cap Bytes(c) = {}
                                                   ELSE Bytes(i) \subseteq Bytes(c)
  BY DEF ContainersCollect
<1>1. out[c].text \in Seq(Byte) /\ Once(out[c].text)
  <2>1. c \in 1 .. Len(out)
    BY TreeShape DEF Left, ParentsFirst
  <2> QED  BY <2>1, TreeShape DEF Node, CollectInv, BytesOnce
<1>2. Bytes(c) = BytesOf(out[c].text)
  BY DEF Bytes, BytesOf
<1> QED  BY <1>1, <1>2, OnceCounted DEF CollectInv, LeftCollect, Leaf

\* The invariant of the texts.
THEOREM CollectInvariance == Spec => [](TreeInv /\ CollectInv)
<1>1. Init => TreeInv /\ CollectInv
  BY InitTree, InitCollect
<1>2. TreeInv /\ CollectInv /\ [Next]_vars => (TreeInv /\ CollectInv)'
  BY NextTree, NextCollect
<1> QED  BY <1>1, <1>2, PTL DEF Spec

\* A container that was left has the text of a block below it, each byte once, exactly if
\* no list stands between them, for documents of any size and any depth.
THEOREM ContainersAlwaysCollect == Spec => []ContainersCollect
  BY CollectInvariance, CollectsTexts, PTL

-----------------------------------------------------------------------------
\* What is added to the joined texts of the children of i at node j.
Part(t, of, i, j) == IF t[j].par = i THEN of[j] ELSE <<>>

\* Among finitely many numbers there is a greatest.
LEMMA GreatestNumber ==
  ASSUME NEW n \in Nat, NEW A \in SUBSET (0 .. n), A # {}
  PROVE  \E m \in A : \A k \in A : k <= m
<1> DEFINE B == {k \in 0 .. n : n - k \in A}
<1>1. B \in SUBSET Nat /\ B # {}
  <2>1. PICK a \in A : TRUE
    OBVIOUS
  <2>2. n - a \in 0 .. n /\ n - (n - a) = a
    BY <2>1
  <2>3. n - a \in B
    BY <2>2
  <2>4. B \in SUBSET Nat
    OBVIOUS
  <2> HIDE DEF B
  <2> QED  BY <2>3, <2>4
<1>2. PICK m \in B : \A k \in B : m <= k
  BY <1>1, LeastNumber
<1>3. ASSUME NEW k \in A PROVE k <= n - m
  <2>1. k \in Nat /\ n - k \in 0 .. n /\ n - (n - k) = k
    OBVIOUS
  <2>2. n - k \in B
    BY <2>1
  <2>3. m <= n - k /\ m \in 0 .. n
    BY <1>2, <2>2
  <2> QED  BY <2>1, <2>3
<1> QED  BY <1>2, <1>3

\* The texts of the children of i, joined up to each node.
JoinsUpTo(f, t, of, i, n) ==
  f = [j \in i .. n |-> IF j = i THEN <<>> ELSE f[j - 1] \o Part(t, of, i, j)]

\* There is such a function: it is built from its shorter ones.
LEMMA UpToExists ==
  ASSUME NEW t, NEW of, NEW i \in Nat, NEW z \in Nat
  PROVE  \A n \in i .. z : \E f : JoinsUpTo(f, t, of, i, n)
<1> DEFINE Body(f, j) == IF j = i THEN <<>> ELSE f[j - 1] \o Part(t, of, i, j)
           Good(n) == \E f : f = [j \in i .. n |-> Body(f, j)]
           Failing == {n \in i .. z : ~Good(n)}
<1>1. ASSUME Failing # {} PROVE FALSE
  <2>1. PICK n \in Failing : \A k \in Failing : n <= k
    <3>1. Failing \in SUBSET Nat
      OBVIOUS
    <3> QED  BY <1>1, <3>1, LeastNumber
  <2>2. n \in i .. z /\ ~Good(n)
    OBVIOUS
  <2>3. CASE n = i
    <3> DEFINE g == [j \in i .. n |-> <<>>]
    <3>1. \A j \in i .. n : j = i
      BY <2>3
    <3>2. g = [j \in i .. n |-> Body(g, j)]
      BY <3>1
    <3> QED  BY <2>2, <3>2
  <2>4. CASE n # i
    <3>1. n - 1 \in i .. z /\ ~ (n <= n - 1) /\ n \in Nat
      BY <2>2, <2>4
    <3>2. Good(n - 1)
      <4> HIDE DEF Good
      <4> QED  BY <2>1, <3>1
    <3>10. PICK g : g = [j \in i .. n - 1 |-> Body(g, j)]
      BY <3>2
    <3> HIDE DEF Good, Failing
    <3> DEFINE h == [j \in i .. n |-> IF j = n THEN Body(g, n) ELSE g[j]]
    <3>3. \A j \in i .. n - 1 : g[j] = Body(g, j)
      BY <3>10
    <3>4. \A j \in i .. n : j \in i .. n - 1 \/ j = n
      BY <2>2
    <3>5. h[n] = Body(g, n) /\ \A j \in i .. n - 1 : h[j] = g[j]
      BY <2>2
    <3>6. h = [j \in i .. n |-> h[j]]
      OBVIOUS
    <3> HIDE DEF h
    <3>7. ASSUME NEW j \in i .. n PROVE h[j] = Body(h, j)
      <4>1. j # i => j - 1 \in i .. n - 1
        BY <2>2
      <4>2. Body(g, j) = Body(h, j)
        BY <3>5, <4>1
      <4>3. h[j] = Body(g, j)
        BY <3>3, <3>4, <3>5
      <4> QED  BY <4>2, <4>3
    <3> HIDE DEF Body
    <3>8. h = [j \in i .. n |-> Body(h, j)]
      BY <3>6, <3>7
    <3>9. Good(n)
      BY <3>8 DEF Good
    <3> QED  BY <2>2, <3>9
  <2> QED  BY <2>3, <2>4
<1>2. \A n \in i .. z : Good(n)
  BY <1>1
<1> QED  BY <1>2 DEF JoinsUpTo

\* The texts of the children of i among the nodes up to j, one node after the other.
LEMMA UpTo ==
  ASSUME NEW t, Len(t) \in Nat, NEW of, NEW i \in 1 .. Len(t)
  PROVE  /\ ChildTexts(t, of, i)[i] = <<>>
         /\ \A j \in i + 1 .. Len(t) :
               ChildTexts(t, of, i)[j] = ChildTexts(t, of, i)[j - 1] \o Part(t, of, i, j)
<1> DEFINE Body(f, j) == IF j = i THEN <<>> ELSE f[j - 1] \o Part(t, of, i, j)
           c == ChildTexts(t, of, i)
<1>1. PICK f : f = [j \in i .. Len(t) |-> Body(f, j)]
  <2>1. i \in Nat /\ Len(t) \in i .. Len(t)
    OBVIOUS
  <2>2. PICK f : JoinsUpTo(f, t, of, i, Len(t))
    BY <2>1, UpToExists
  <2> QED  BY <2>2 DEF JoinsUpTo
<1>2. c = CHOOSE g : g = [j \in i .. Len(t) |-> Body(g, j)]
  BY Zenon DEF ChildTexts, Part
<1>3. c = [j \in i .. Len(t) |-> Body(c, j)]
  <2> HIDE DEF Body, c
  <2> QED  BY <1>1, <1>2
<1> HIDE DEF c
<1>4. \A j \in i .. Len(t) : c[j] = Body(c, j)
  BY <1>3
<1>5. i \in i .. Len(t) /\ \A j \in i + 1 .. Len(t) : j \in i .. Len(t) /\ j # i
  OBVIOUS
<1>6. c[i] = <<>> /\ \A j \in i + 1 .. Len(t) : c[j] = c[j - 1] \o Part(t, of, i, j)
  BY <1>4, <1>5
<1> QED  BY <1>6 DEF c

\* What is joined: texts, and in the last section the blocks that are read back.
Piece == Byte \cup Nat

LEMMA BytesArePieces == \A t \in Seq(Byte) : t \in Seq(Piece)
<1> SUFFICES ASSUME NEW t \in Seq(Byte) PROVE t \in Seq(Piece)
  OBVIOUS
<1>1. Len(t) \in Nat /\ \A i \in 1 .. Len(t) : t[i] \in Piece
  BY DEF Piece
<1>2. t = [i \in 1 .. Len(t) |-> t[i]]
  OBVIOUS
<1> QED  BY <1>1, <1>2, IsASeq

\* What is joined of pieces is pieces.
LEMMA UpToBytes ==
  ASSUME NEW t, Len(t) \in Nat, NEW of, NEW i \in 1 .. Len(t),
         \A j \in i + 1 .. Len(t) : of[j] \in Seq(Piece)
  PROVE  \A j \in i .. Len(t) : ChildTexts(t, of, i)[j] \in Seq(Piece)
<1> DEFINE c == ChildTexts(t, of, i)
           Failing == {j \in i .. Len(t) : c[j] \notin Seq(Piece)}
<1>1. c[i] = <<>> /\ \A j \in i + 1 .. Len(t) : c[j] = c[j - 1] \o Part(t, of, i, j)
  BY UpTo
<1> HIDE DEF c
<1>2. ASSUME Failing # {} PROVE FALSE
  <2>1. PICK n \in Failing : \A k \in Failing : n <= k
    <3>1. Failing \in SUBSET Nat
      OBVIOUS
    <3> QED  BY <1>2, <3>1, LeastNumber
  <2>2. n \in i .. Len(t) /\ c[n] \notin Seq(Piece)
    OBVIOUS
  <2>3. n # i
    <3>1. <<>> \in Seq(Piece)
      OBVIOUS
    <3> QED  BY <1>1, <2>2, <3>1
  <2>4. n \in i + 1 .. Len(t) /\ n - 1 \in i .. Len(t) /\ ~ (n <= n - 1)
    BY <2>2, <2>3
  <2>5. c[n - 1] \in Seq(Piece)
    BY <2>1, <2>4
  <2>6. Part(t, of, i, n) \in Seq(Piece)
    BY <2>4 DEF Part
  <2>7. c[n - 1] \o Part(t, of, i, n) \in Seq(Piece)
    BY <2>5, <2>6, ConcatProperties
  <2> QED  BY <1>1, <2>2, <2>4, <2>7
<1> QED  BY <1>2 DEF c

\* They depend on the children only.
LEMMA UpToSame ==
  ASSUME NEW t, Len(t) \in Nat, NEW u, Len(u) \in Nat, NEW of, NEW og,
         NEW i \in 1 .. Len(t), NEW m \in i .. Len(t), m <= Len(u),
         \A j \in i + 1 .. m : Part(t, of, i, j) = Part(u, og, i, j)
  PROVE  \A j \in i .. m : ChildTexts(t, of, i)[j] = ChildTexts(u, og, i)[j]
<1> DEFINE c == ChildTexts(t, of, i)
           d == ChildTexts(u, og, i)
           Failing == {j \in i .. m : c[j] # d[j]}
<1>1. c[i] = <<>> /\ \A j \in i + 1 .. Len(t) : c[j] = c[j - 1] \o Part(t, of, i, j)
  BY UpTo
<1>2. d[i] = <<>> /\ \A j \in i + 1 .. Len(u) : d[j] = d[j - 1] \o Part(u, og, i, j)
  <2>1. i \in 1 .. Len(u)
    OBVIOUS
  <2> QED  BY <2>1, UpTo
<1> HIDE DEF c, d
<1>3. ASSUME Failing # {} PROVE FALSE
  <2>1. PICK n \in Failing : \A k \in Failing : n <= k
    <3>1. Failing \in SUBSET Nat
      OBVIOUS
    <3> QED  BY <1>3, <3>1, LeastNumber
  <2>2. n \in i .. m /\ c[n] # d[n]
    OBVIOUS
  <2>3. n # i
    BY <1>1, <1>2, <2>2
  <2>4. n \in i + 1 .. m /\ n \in i + 1 .. Len(t) /\ n \in i + 1 .. Len(u) /\ n - 1 \in i .. m /\ ~ (n <= n - 1)
    BY <2>2, <2>3
  <2>5. c[n - 1] = d[n - 1]
    BY <2>1, <2>4
  <2>6. Part(t, of, i, n) = Part(u, og, i, n)
    BY <2>4
  <2> QED  BY <1>1, <1>2, <2>2, <2>4, <2>5, <2>6
<1> QED  BY <1>3 DEF c, d

\* After the last child there is nothing more.
LEMMA UpToTail ==
  ASSUME NEW t, Len(t) \in Nat, NEW of, NEW i \in 1 .. Len(t), NEW m \in i .. Len(t),
         \A j \in i + 1 .. Len(t) : of[j] \in Seq(Piece),
         \A j \in m + 1 .. Len(t) : t[j].par # i
  PROVE  ChildTexts(t, of, i)[Len(t)] = ChildTexts(t, of, i)[m]
<1> DEFINE c == ChildTexts(t, of, i)
           Failing == {j \in m .. Len(t) : c[j] # c[m]}
<1>1. c[i] = <<>> /\ \A j \in i + 1 .. Len(t) : c[j] = c[j - 1] \o Part(t, of, i, j)
  BY UpTo
<1>2. \A j \in i .. Len(t) : c[j] \in Seq(Piece)
  BY UpToBytes
<1> HIDE DEF c
<1>3. ASSUME Failing # {} PROVE FALSE
  <2>1. PICK n \in Failing : \A k \in Failing : n <= k
    <3>1. Failing \in SUBSET Nat
      OBVIOUS
    <3> QED  BY <1>3, <3>1, LeastNumber
  <2>2. n \in m .. Len(t) /\ c[n] # c[m]
    OBVIOUS
  <2>3. n # m
    BY <2>2
  <2>4. n \in m + 1 .. Len(t) /\ n \in i + 1 .. Len(t) /\ n - 1 \in m .. Len(t) /\ n - 1 \in i .. Len(t)
        /\ ~ (n <= n - 1)
    BY <2>2, <2>3
  <2>5. c[n - 1] = c[m] /\ c[n - 1] \in Seq(Piece)
    BY <1>2, <2>1, <2>4
  <2>6. Part(t, of, i, n) = <<>>
    BY <2>4 DEF Part
  <2>7. c[n - 1] \o <<>> = c[n - 1]
    BY <2>5, ConcatEmptySeq
  <2> QED  BY <1>1, <2>2, <2>4, <2>5, <2>6, <2>7
<1>4. c[Len(t)] = c[m]
  <2>1. Len(t) \in m .. Len(t) /\ Len(t) \notin Failing
    BY <1>3
  <2> QED  BY <2>1
<1> QED  BY <1>4 DEF c

\* A child with a text counts.
LEMMA ChildCounts ==
  ASSUME NEW t, Len(t) \in Nat, NEW of, NEW i \in 1 .. Len(t),
         \A j \in i + 1 .. Len(t) : of[j] \in Seq(Piece),
         NEW c \in i + 1 .. Len(t), t[c].par = i, of[c] # <<>>
  PROVE  ChildTexts(t, of, i)[Len(t)] # <<>>
<1> DEFINE d == ChildTexts(t, of, i)
           Failing == {j \in c .. Len(t) : d[j] = <<>>}
<1>1. \A j \in i + 1 .. Len(t) : d[j] = d[j - 1] \o Part(t, of, i, j)
  BY UpTo
<1>2. \A j \in i .. Len(t) : d[j] \in Seq(Piece)
  BY UpToBytes
<1> HIDE DEF d
<1>3. \A r, s \in Seq(Piece) : r \o s = <<>> => r = <<>> /\ s = <<>>
  <2> SUFFICES ASSUME NEW r \in Seq(Piece), NEW s \in Seq(Piece), r \o s = <<>> PROVE r = <<>> /\ s = <<>>
    OBVIOUS
  <2>1. Len(r \o s) = Len(r) + Len(s) /\ Len(<<>>) = 0
    OBVIOUS
  <2>2. Len(r) = 0 /\ Len(s) = 0
    BY <2>1
  <2> QED  BY <2>2, EmptySeq
<1>4. ASSUME Failing # {} PROVE FALSE
  <2>1. PICK n \in Failing : \A k \in Failing : n <= k
    <3>1. Failing \in SUBSET Nat
      OBVIOUS
    <3> QED  BY <1>4, <3>1, LeastNumber
  <2>2. n \in c .. Len(t) /\ d[n] = <<>>
    OBVIOUS
  <2>3. n \in i + 1 .. Len(t) /\ n - 1 \in i .. Len(t) /\ ~ (n <= n - 1)
    BY <2>2
  <2>4. d[n - 1] \in Seq(Piece) /\ Part(t, of, i, n) \in Seq(Piece)
    BY <1>2, <2>3 DEF Part
  <2>5. d[n - 1] = <<>> /\ Part(t, of, i, n) = <<>>
    BY <1>1, <1>3, <2>2, <2>3, <2>4
  <2>6. CASE n = c
    BY <2>5, <2>6 DEF Part
  <2>7. CASE n # c
    <3>1. n - 1 \in c .. Len(t)
      BY <2>2, <2>7
    <3> QED  BY <2>1, <2>3, <2>5, <3>1
  <2> QED  BY <2>6, <2>7
<1>5. d[Len(t)] # <<>>
  <2>1. Len(t) \in c .. Len(t) /\ Len(t) \notin Failing
    BY <1>4
  <2> QED  BY <2>1
<1> QED  BY <1>5 DEF d

-----------------------------------------------------------------------------
\* What is collected of node i, if of is what is collected of the nodes behind it.
OwnOr(t, of, i) ==
  LET parts == ChildTexts(t, of, i)[Len(t)] IN IF parts = <<>> THEN t[i].text ELSE parts

\* It depends on nothing else that is collected.
LEMMA OwnOrSame ==
  ASSUME NEW t, Len(t) \in Nat, NEW of, NEW og, NEW i \in 1 .. Len(t),
         \A j \in i + 1 .. Len(t) : of[j] = og[j]
  PROVE  OwnOr(t, of, i) = OwnOr(t, og, i)
<1>1. Len(t) \in i .. Len(t) /\ \A j \in i + 1 .. Len(t) : Part(t, of, i, j) = Part(t, og, i, j)
  BY DEF Part
<1>2. \A j \in i .. Len(t) : ChildTexts(t, of, i)[j] = ChildTexts(t, og, i)[j]
  BY <1>1, UpToSame
<1> QED  BY <1>1, <1>2 DEF OwnOr

\* The function of what is collected of the nodes from n on.
GathersFrom(f, t, n) == f = [i \in n .. Len(t) |-> OwnOr(t, f, i)]

\* There is such a function: it is built from the last node to the first.
LEMMA GathersExists ==
  ASSUME NEW t, Len(t) \in Nat
  PROVE  \A n \in 1 .. Len(t) + 1 : \E f : GathersFrom(f, t, n)
<1> DEFINE L == Len(t)
           Failing == {n \in 1 .. L + 1 : ~ \E f : GathersFrom(f, t, n)}
<1>1. ASSUME Failing # {} PROVE FALSE
  <2>1. PICK n \in Failing : \A k \in Failing : k <= n
    <3>1. Failing \in SUBSET (0 .. L + 1) /\ L + 1 \in Nat
      OBVIOUS
    <3> HIDE DEF Failing
    <3> QED  BY <1>1, <3>1, GreatestNumber
  <2>2. n \in 1 .. L + 1 /\ ~ \E f : GathersFrom(f, t, n)
    OBVIOUS
  <2>3. CASE n = L + 1
    <3> DEFINE g == [i \in n .. L |-> <<>>]
    <3>1. n .. L = {}
      BY <2>3
    <3>2. g = [i \in n .. L |-> OwnOr(t, g, i)]
      BY <3>1
    <3>3. GathersFrom(g, t, n)
      BY <3>2 DEF GathersFrom
    <3> QED  BY <2>2, <3>3
  <2>4. CASE n # L + 1
    <3>1. n + 1 \in 1 .. L + 1 /\ ~ (n + 1 <= n) /\ n \in 1 .. L
      BY <2>2, <2>4
    <3>2. PICK g : GathersFrom(g, t, n + 1)
      BY <2>1, <3>1
    <3> HIDE DEF Failing
    <3> DEFINE h == [i \in n .. L |-> IF i = n THEN OwnOr(t, g, n) ELSE g[i]]
    <3>3. \A i \in n + 1 .. L : g[i] = OwnOr(t, g, i)
      <4>1. g = [i \in n + 1 .. L |-> OwnOr(t, g, i)]
        BY <3>2 DEF GathersFrom
      <4> HIDE DEF L
      <4> QED  BY <4>1, Zenon
    <3>4. \A i \in n .. L : i \in n + 1 .. L \/ i = n
      BY <3>1
    <3>5. h[n] = OwnOr(t, g, n) /\ \A i \in n + 1 .. L : h[i] = g[i]
      BY <3>1
    <3>6. h = [i \in n .. L |-> h[i]]
      OBVIOUS
    <3> HIDE DEF h
    <3>7. ASSUME NEW i \in n .. L PROVE h[i] = OwnOr(t, h, i)
      <4>1. \A j \in i + 1 .. L : g[j] = h[j]
        BY <3>1, <3>5
      <4>2. OwnOr(t, g, i) = OwnOr(t, h, i)
        BY <3>1, <4>1, OwnOrSame
      <4> QED  BY <3>3, <3>4, <3>5, <4>2
    <3>8. h = [i \in n .. L |-> OwnOr(t, h, i)]
      BY <3>6, <3>7
    <3>9. GathersFrom(h, t, n)
      BY <3>8 DEF GathersFrom
    <3> QED  BY <2>2, <3>9
  <2> QED  BY <2>3, <2>4
<1> QED  BY <1>1

\* The text of each node follows from those behind it.
Gathers(t, of) == \A i \in 1 .. Len(t) : of[i] = OwnOr(t, of, i)

\* What the recursion collects obeys its equation.
LEMMA PlainGathers == ASSUME NEW t, Len(t) \in Nat PROVE Gathers(t, PlainTexts(t))
<1> DEFINE p == PlainTexts(t)
<1>1. PICK f : f = [i \in 1 .. Len(t) |-> OwnOr(t, f, i)]
  <2>1. 1 \in 1 .. Len(t) + 1
    OBVIOUS
  <2> QED  BY <2>1, GathersExists DEF GathersFrom
<1>2. p = CHOOSE g : g = [i \in 1 .. Len(t) |-> OwnOr(t, g, i)]
  BY Zenon DEF PlainTexts, OwnOr
<1> HIDE DEF p
<1>3. p = [i \in 1 .. Len(t) |-> OwnOr(t, p, i)]
  BY <1>1, <1>2
<1>4. \A i \in 1 .. Len(t) : p[i] = OwnOr(t, p, i)
  BY <1>3, Zenon
<1> QED  BY <1>4 DEF p, Gathers

\* There is only one such function, on the nodes.
LEMMA GathersOnce ==
  ASSUME NEW t, Len(t) \in Nat, NEW of, NEW og, Gathers(t, of), Gathers(t, og)
  PROVE  \A i \in 1 .. Len(t) : of[i] = og[i]
<1> DEFINE Failing == {i \in 1 .. Len(t) : of[i] # og[i]}
<1>1. ASSUME Failing # {} PROVE FALSE
  <2>1. PICK n \in Failing : \A k \in Failing : k <= n
    <3>1. Failing \in SUBSET (0 .. Len(t))
      OBVIOUS
    <3> HIDE DEF Failing
    <3> QED  BY <1>1, <3>1, GreatestNumber
  <2>2. n \in 1 .. Len(t) /\ of[n] # og[n]
    OBVIOUS
  <2>3. ASSUME NEW j \in n + 1 .. Len(t) PROVE of[j] = og[j]
    <3>1. j \in 1 .. Len(t) /\ ~ (j <= n)
      BY <2>2
    <3> QED  BY <2>1, <3>1
  <2>4. OwnOr(t, of, n) = OwnOr(t, og, n)
    BY <2>2, <2>3, OwnOrSame
  <2> QED  BY <2>2, <2>4 DEF Gathers
<1> QED  BY <1>1

\* A tree whose texts are pieces.
Texted(t) == Len(t) \in Nat /\ \A i \in 1 .. Len(t) : t[i].text \in Seq(Piece)

\* What is collected of such a tree is pieces.
LEMMA GatheredBytes ==
  ASSUME NEW t, Texted(t), NEW of, Gathers(t, of)
  PROVE  \A i \in 1 .. Len(t) : of[i] \in Seq(Piece)
<1> DEFINE Failing == {i \in 1 .. Len(t) : of[i] \notin Seq(Piece)}
<1>0. Len(t) \in Nat
  BY DEF Texted
<1>1. ASSUME Failing # {} PROVE FALSE
  <2>1. PICK n \in Failing : \A k \in Failing : k <= n
    <3>1. Failing \in SUBSET (0 .. Len(t))
      BY <1>0
    <3> HIDE DEF Failing
    <3> QED  BY <1>0, <1>1, <3>1, GreatestNumber
  <2>2. n \in 1 .. Len(t) /\ of[n] \notin Seq(Piece)
    OBVIOUS
  <2>3. ASSUME NEW j \in n + 1 .. Len(t) PROVE of[j] \in Seq(Piece)
    <3>1. j \in 1 .. Len(t) /\ ~ (j <= n)
      BY <1>0, <2>2
    <3> QED  BY <2>1, <3>1
  <2>4. \A j \in n .. Len(t) : ChildTexts(t, of, n)[j] \in Seq(Piece)
    BY <1>0, <2>2, <2>3, UpToBytes
  <2>5. ChildTexts(t, of, n)[Len(t)] \in Seq(Piece)
    BY <1>0, <2>2, <2>4
  <2>6. OwnOr(t, of, n) \in Seq(Piece)
    BY <2>2, <2>5 DEF OwnOr, Texted
  <2> QED  BY <2>2, <2>6 DEF Gathers
<1> QED  BY <1>1

-----------------------------------------------------------------------------
\* Texts are joined in any order.
LEMMA JoinedThrice ==
  ASSUME NEW a \in Seq(Piece), NEW b \in Seq(Piece), NEW c \in Seq(Piece)
  PROVE  a \o (b \o c) = (a \o b) \o c
<1>1. (a \o b) \o c = a \o (b \o c)
  BY ConcatAssociative
<1> QED  BY <1>1

\* The nodes whose children are being walked form a chain S: each but the innermost, top,
\* has the next one for its last child.
Chain(t, S, top) ==
  /\ S \in SUBSET (1 .. Len(t)) /\ top \in S
  /\ \A c \in S : t[c].text = <<>>
  /\ \A c \in S \ {top} : \E d \in S : d > c /\ t[d].par = c /\ \A j \in d + 1 .. Len(t) : t[j].par # c
  /\ \A d \in S : t[d].par # top /\ t[d].par \in S \cup {0}
  /\ \A d, e \in S : t[d].par = t[e].par => d = e

\* The tree u is t with one more child of top, and what hangs on nothing of t.
Added(t, u, top) ==
  /\ Len(t) < Len(u) /\ \A i \in 1 .. Len(t) : u[i] = t[i]
  /\ u[Len(t) + 1].par = top /\ \A i \in Len(t) + 2 .. Len(u) : u[i].par \notin 1 .. Len(t)

\* Its text goes to all of the chain and to nothing else.
LEMMA ChainGrows ==
  ASSUME NEW t, Texted(t), NEW u, Texted(u), NEW S, NEW top, Chain(t, S, top), Added(t, u, top)
  PROVE  \A i \in 1 .. Len(t) :
            PlainTexts(u)[i] = IF i \in S THEN PlainTexts(t)[i] \o PlainTexts(u)[Len(t) + 1]
                                          ELSE PlainTexts(t)[i]
<1> SUFFICES ASSUME Len(t) < Len(u), \A i \in 1 .. Len(t) : u[i] = t[i],
                    u[Len(t) + 1].par = top, \A i \in Len(t) + 2 .. Len(u) : u[i].par \notin 1 .. Len(t)
             PROVE  \A i \in 1 .. Len(t) :
                       PlainTexts(u)[i] = IF i \in S THEN PlainTexts(t)[i] \o PlainTexts(u)[Len(t) + 1]
                                                     ELSE PlainTexts(t)[i]
  BY DEF Added
<1> DEFINE L == Len(t)
           p == PlainTexts(t)
           q == PlainTexts(u)
           x == q[L + 1]
           r == [i \in 1 .. Len(u) |-> IF i > L THEN q[i] ELSE IF i \in S THEN p[i] \o x ELSE p[i]]
<1>1. L \in Nat /\ Len(u) \in Nat /\ L + 1 \in 1 .. Len(u) /\ L \in 1 .. Len(u)
  BY DEF Texted, Chain
<1>2. Gathers(t, p) /\ Gathers(u, q)
  BY <1>1, PlainGathers
<1>3. /\ \A i \in 1 .. L : p[i] \in Seq(Piece)
      /\ \A i \in 1 .. Len(u) : q[i] \in Seq(Piece)
  BY <1>2, GatheredBytes
<1> HIDE DEF p, q
<1>4. x \in Seq(Piece)
  BY <1>1, <1>3
<1> HIDE DEF x
<1>5. /\ \A i \in L + 1 .. Len(u) : r[i] = q[i]
      /\ \A i \in 1 .. L : r[i] = IF i \in S THEN p[i] \o x ELSE p[i]
  <2>1. /\ \A i \in L + 1 .. Len(u) : i \in 1 .. Len(u) /\ i > L
        /\ \A i \in 1 .. L : i \in 1 .. Len(u) /\ ~ (i > L)
    BY <1>1
  <2> HIDE DEF L
  <2> QED  BY <2>1, Zenon
<1> HIDE DEF r
<1>6. \A i \in 1 .. Len(u) : r[i] \in Seq(Piece)
  <2> SUFFICES ASSUME NEW i \in 1 .. Len(u) PROVE r[i] \in Seq(Piece)
    OBVIOUS
  <2>1. CASE i > L
    BY <1>1, <1>3, <1>5, <2>1
  <2>2. CASE i <= L
    <3>1. i \in 1 .. L /\ p[i] \in Seq(Piece) /\ p[i] \o x \in Seq(Piece)
      BY <1>1, <1>3, <1>4, <2>2, ConcatProperties
    <3> QED  BY <1>5, <3>1
  <2> QED  BY <1>1, <2>1, <2>2
<1>7. ASSUME NEW i \in L + 1 .. Len(u) PROVE r[i] = OwnOr(u, r, i)
  <2>1. i \in 1 .. Len(u) /\ \A j \in i + 1 .. Len(u) : q[j] = r[j]
    BY <1>1, <1>5
  <2>2. OwnOr(u, q, i) = OwnOr(u, r, i)
    BY <1>1, <2>1, OwnOrSame
  <2> QED  BY <1>2, <1>5, <2>1, <2>2 DEF Gathers
\* What the children of i are for t and for u, as far as they are in t.
<1>8. ASSUME NEW i \in 1 .. L, NEW m \in i .. L,
             \A j \in i + 1 .. m : t[j].par = i => j \notin S
      PROVE  ChildTexts(u, r, i)[m] = ChildTexts(t, p, i)[m]
  <2>1. ASSUME NEW j \in i + 1 .. m PROVE Part(t, p, i, j) = Part(u, r, i, j)
    <3>1. j \in 1 .. L
      BY <1>1
    <3>2. u[j] = t[j] /\ (t[j].par = i => r[j] = p[j])
      BY <1>5, <1>8, <3>1
    <3> QED  BY <3>2 DEF Part
  <2>2. m <= Len(u)
    BY <1>1
  <2>3. \A j \in i .. m : ChildTexts(t, p, i)[j] = ChildTexts(u, r, i)[j]
    BY <1>1, <2>1, <2>2, UpToSame
  <2>4. m \in i .. m
    OBVIOUS
  <2> QED  BY <2>3, <2>4
<1>9. ASSUME NEW i \in 1 .. L
      PROVE  /\ \A j \in i .. L : ChildTexts(t, p, i)[j] \in Seq(Piece)
             /\ \A j \in i .. Len(u) : ChildTexts(u, r, i)[j] \in Seq(Piece)
             /\ \A j \in i + 1 .. L : ChildTexts(t, p, i)[j] = ChildTexts(t, p, i)[j - 1] \o Part(t, p, i, j)
             /\ \A j \in i + 1 .. Len(u) : ChildTexts(u, r, i)[j] = ChildTexts(u, r, i)[j - 1] \o Part(u, r, i, j)
             /\ \A m \in i .. Len(u) : (\A j \in m + 1 .. Len(u) : u[j].par # i) =>
                   ChildTexts(u, r, i)[Len(u)] = ChildTexts(u, r, i)[m]
             /\ \A m \in i .. L : (\A j \in m + 1 .. L : t[j].par # i) =>
                   ChildTexts(t, p, i)[L] = ChildTexts(t, p, i)[m]
  <2>1. i \in 1 .. Len(u) /\ \A j \in i + 1 .. Len(u) : r[j] \in Seq(Piece)
    BY <1>1, <1>6
  <2>2. \A j \in i + 1 .. L : p[j] \in Seq(Piece)
    BY <1>1, <1>3
  <2>3. /\ \A j \in i .. L : ChildTexts(t, p, i)[j] \in Seq(Piece)
        /\ \A j \in i .. Len(u) : ChildTexts(u, r, i)[j] \in Seq(Piece)
    BY <1>1, <2>1, <2>2, UpToBytes
  <2>4. /\ \A j \in i + 1 .. L : ChildTexts(t, p, i)[j] = ChildTexts(t, p, i)[j - 1] \o Part(t, p, i, j)
        /\ \A j \in i + 1 .. Len(u) : ChildTexts(u, r, i)[j] = ChildTexts(u, r, i)[j - 1] \o Part(u, r, i, j)
    BY <1>1, <2>1, UpTo
  <2>5. \A m \in i .. Len(u) : (\A j \in m + 1 .. Len(u) : u[j].par # i) =>
                   ChildTexts(u, r, i)[Len(u)] = ChildTexts(u, r, i)[m]
    BY <1>1, <2>1, UpToTail
  <2>6. \A m \in i .. L : (\A j \in m + 1 .. L : t[j].par # i) =>
                   ChildTexts(t, p, i)[L] = ChildTexts(t, p, i)[m]
    BY <1>1, <2>2, UpToTail
  <2> QED  BY <2>3, <2>4, <2>5, <2>6
<1>10. ASSUME NEW i \in 1 .. L, i # top PROVE \A j \in L + 1 .. Len(u) : u[j].par # i
  <2> SUFFICES ASSUME NEW j \in L + 1 .. Len(u) PROVE u[j].par # i
    OBVIOUS
  <2>1. j = L + 1 \/ j \in L + 2 .. Len(u)
    BY <1>1
  <2> QED  BY <1>1, <1>10, <2>1
<1>11. \A i \in 1 .. L : u[i].text = t[i].text
  OBVIOUS
<1>12. ASSUME NEW i \in 1 .. L, i \notin S PROVE r[i] = OwnOr(u, r, i)
  <2>1. i # top /\ \A j \in i + 1 .. L : t[j].par = i => j \notin S
    BY <1>1, <1>12 DEF Chain
  <2>2. ChildTexts(u, r, i)[L] = ChildTexts(t, p, i)[L]
    BY <1>1, <1>8, <2>1
  <2>3. ChildTexts(u, r, i)[Len(u)] = ChildTexts(u, r, i)[L]
    <3>1. L \in i .. Len(u) /\ \A j \in L + 1 .. Len(u) : u[j].par # i
      BY <1>1, <1>10, <2>1
    <3> QED  BY <1>9, <3>1
  <2>4. OwnOr(u, r, i) = OwnOr(t, p, i)
    BY <1>11, <2>2, <2>3 DEF OwnOr
  <2> QED  BY <1>2, <1>5, <1>12, <2>4 DEF Gathers
\* A text that grows by x.
<1>13. ASSUME NEW i \in S, ChildTexts(u, r, i)[Len(u)] = ChildTexts(t, p, i)[L] \o x
       PROVE  r[i] = OwnOr(u, r, i)
  <2>1. i \in 1 .. L /\ t[i].text = <<>> /\ u[i].text = <<>>
    BY <1>11 DEF Chain
  <2>2. p[i] = ChildTexts(t, p, i)[L]
    BY <1>2, <2>1 DEF Gathers, OwnOr
  <2>3. r[i] = p[i] \o x
    BY <1>5, <2>1
  <2>4. r[i] = ChildTexts(u, r, i)[Len(u)]
    BY <1>13, <2>2, <2>3
  <2> QED  BY <2>1, <2>4 DEF OwnOr
<1>14. r[top] = OwnOr(u, r, top)
  <2>1. top \in S /\ top \in 1 .. L /\ \A j \in top + 1 .. L : t[j].par = top => j \notin S
    BY <1>1 DEF Chain
  <2>2. ChildTexts(u, r, top)[L] = ChildTexts(t, p, top)[L]
    BY <1>1, <1>8, <2>1
  <2>3. L + 1 \in top + 1 .. Len(u) /\ (L + 1) - 1 = L
    BY <1>1, <2>1
  <2>4. Part(u, r, top, L + 1) = x
    BY <1>1, <1>5 DEF Part, x
  <2>5. ChildTexts(u, r, top)[L + 1] = ChildTexts(t, p, top)[L] \o x
    <3>1. \A j \in top + 1 .. Len(u) :
             ChildTexts(u, r, top)[j] = ChildTexts(u, r, top)[j - 1] \o Part(u, r, top, j)
      BY <1>9, <2>1
    <3>2. ChildTexts(u, r, top)[L + 1] = ChildTexts(u, r, top)[(L + 1) - 1] \o Part(u, r, top, L + 1)
      BY <2>3, <3>1
    <3> QED  BY <2>2, <2>3, <2>4, <3>2
  <2>6. ChildTexts(u, r, top)[Len(u)] = ChildTexts(u, r, top)[L + 1]
    <3>1. L + 1 \in top .. Len(u) /\ \A j \in (L + 1) + 1 .. Len(u) : u[j].par # top
      BY <1>1, <2>1
    <3> QED  BY <1>9, <2>1, <3>1
  <2> QED  BY <1>13, <2>1, <2>5, <2>6
<1>15. ASSUME NEW c \in S, c # top PROVE r[c] = OwnOr(u, r, c)
  <2>1. PICK d \in S : d > c /\ t[d].par = c /\ \A j \in d + 1 .. L : t[j].par # c
    BY <1>15 DEF Chain
  <2>2. c \in 1 .. L /\ d \in 1 .. L /\ d \in c + 1 .. L /\ d \in c + 1 .. Len(u) /\ d - 1 \in c .. L
        /\ d \in c .. L /\ d \in c .. Len(u)
    BY <1>1, <2>1 DEF Chain
  <2>3. \A j \in c + 1 .. d - 1 : t[j].par = c => j \notin S
    <3>1. \A j \in c + 1 .. d - 1 : j # d
      BY <2>2
    <3> QED  BY <2>1, <3>1 DEF Chain
  <2>4. ChildTexts(u, r, c)[d - 1] = ChildTexts(t, p, c)[d - 1]
    BY <1>8, <2>2, <2>3
  <2>5. Part(u, r, c, d) = p[d] \o x /\ Part(t, p, c, d) = p[d]
    BY <1>5, <2>1, <2>2 DEF Part
  <2>6. ChildTexts(u, r, c)[d] = ChildTexts(t, p, c)[d - 1] \o (p[d] \o x)
    BY <1>9, <2>2, <2>4, <2>5, ZenonT(40)
  <2>7. ChildTexts(t, p, c)[d] = ChildTexts(t, p, c)[d - 1] \o p[d]
    BY <1>9, <2>2, <2>5
  <2>8. ChildTexts(u, r, c)[d] = ChildTexts(t, p, c)[d] \o x
    <3>1. ChildTexts(t, p, c)[d - 1] \in Seq(Piece) /\ p[d] \in Seq(Piece)
      BY <1>3, <1>9, <2>2
    <3>2. PICK y, z : y = ChildTexts(t, p, c)[d - 1] /\ z = p[d]
      OBVIOUS
    <3>3. y \in Seq(Piece) /\ z \in Seq(Piece)
      BY <3>1, <3>2
    <3>4. y \o (z \o x) = (y \o z) \o x
      BY <1>4, <3>3, JoinedThrice
    <3> QED  BY <2>6, <2>7, <3>2, <3>4
  <2>9. ChildTexts(t, p, c)[L] = ChildTexts(t, p, c)[d]
    BY <1>9, <2>1, <2>2
  <2>10. ChildTexts(u, r, c)[Len(u)] = ChildTexts(u, r, c)[d]
    <3>1. \A j \in d + 1 .. Len(u) : u[j].par # c
      <4> SUFFICES ASSUME NEW j \in d + 1 .. Len(u) PROVE u[j].par # c
        OBVIOUS
      <4>1. j \in d + 1 .. L \/ j \in L + 1 .. Len(u)
        BY <1>1, <2>2
      <4>2. j \in d + 1 .. L => u[j] = t[j]
        BY <2>2
      <4> QED  BY <1>10, <1>15, <2>1, <2>2, <4>1, <4>2
    <3> QED  BY <1>9, <2>2, <3>1
  <2> QED  BY <1>13, <2>8, <2>9, <2>10
<1>16. Gathers(u, r)
  <2> SUFFICES ASSUME NEW i \in 1 .. Len(u) PROVE r[i] = OwnOr(u, r, i)
    BY DEF Gathers
  <2>1. i \in 1 .. L \/ i \in L + 1 .. Len(u)
    BY <1>1
  <2> QED  BY <1>7, <1>12, <1>14, <1>15, <2>1
<1>17. \A i \in 1 .. Len(u) : q[i] = r[i]
  BY <1>1, <1>2, <1>16, GathersOnce
<1>18. ASSUME NEW i \in 1 .. L PROVE q[i] = IF i \in S THEN p[i] \o x ELSE p[i]
  <2>1. i \in 1 .. Len(u)
    BY <1>1
  <2> QED  BY <1>5, <1>17, <2>1
<1> QED  BY <1>18 DEF p, q, x

\* A node that gets the text of its children keeps what is collected of it.
LEMMA ClosedGathers ==
  ASSUME NEW t, Len(t) \in Nat, NEW u, Len(u) = Len(t), NEW c \in 1 .. Len(t),
         \A i \in 1 .. Len(t) : u[i].par = t[i].par /\ (i # c => u[i].text = t[i].text),
         t[c].text = <<>>, u[c].text # <<>> => PlainTexts(t)[c] # <<>>
  PROVE  \A i \in 1 .. Len(t) : PlainTexts(u)[i] = PlainTexts(t)[i]
<1> DEFINE p == PlainTexts(t)
<1>1. Gathers(t, p) /\ Gathers(u, PlainTexts(u))
  BY PlainGathers
<1> HIDE DEF p
<1>2. ASSUME NEW i \in 1 .. Len(t) PROVE p[i] = OwnOr(u, p, i)
  <2>1. \A j \in i + 1 .. Len(t) : Part(t, p, i, j) = Part(u, p, i, j)
    BY DEF Part
  <2>2. Len(t) \in i .. Len(t) /\ Len(t) <= Len(u)
    OBVIOUS
  <2>3. \A j \in i .. Len(t) : ChildTexts(t, p, i)[j] = ChildTexts(u, p, i)[j]
    BY <2>1, <2>2, UpToSame
  <2>4. ChildTexts(t, p, i)[Len(t)] = ChildTexts(u, p, i)[Len(u)]
    BY <2>2, <2>3
  <2>5. p[i] = OwnOr(t, p, i)
    BY <1>1 DEF Gathers
  <2>6. CASE i # c
    BY <2>4, <2>5, <2>6 DEF OwnOr
  <2>7. CASE i = c
    <3>1. ChildTexts(t, p, i)[Len(t)] = <<>> => p[c] = <<>>
      BY <2>5, <2>7 DEF OwnOr
    <3>2. ChildTexts(t, p, i)[Len(t)] = <<>> => u[c].text = <<>>
      BY <3>1 DEF p
    <3> QED  BY <2>4, <2>5, <2>7, <3>1, <3>2 DEF OwnOr
  <2> QED  BY <2>6, <2>7
<1>3. Gathers(u, p)
  BY <1>2 DEF Gathers
<1>4. \A i \in 1 .. Len(u) : PlainTexts(u)[i] = p[i]
  BY <1>1, <1>3, GathersOnce
<1> QED  BY <1>4 DEF p

\* A node without children has its own text.
LEMMA LeafText ==
  ASSUME NEW t, Texted(t), NEW i \in 1 .. Len(t), \A j \in i + 1 .. Len(t) : t[j].par # i
  PROVE  PlainTexts(t)[i] = t[i].text
<1>1. Len(t) \in Nat
  BY DEF Texted
<1>2. Gathers(t, PlainTexts(t)) /\ \A j \in 1 .. Len(t) : PlainTexts(t)[j] \in Seq(Piece)
  BY <1>1, PlainGathers, GatheredBytes
<1>3. i \in i .. Len(t) /\ \A j \in i + 1 .. Len(t) : PlainTexts(t)[j] \in Seq(Piece)
  BY <1>1, <1>2
<1>4. ChildTexts(t, PlainTexts(t), i)[Len(t)] = ChildTexts(t, PlainTexts(t), i)[i]
  BY <1>1, <1>3, UpToTail
<1>5. ChildTexts(t, PlainTexts(t), i)[i] = <<>>
  BY <1>1, UpTo
<1> QED  BY <1>2, <1>4, <1>5 DEF Gathers, OwnOr

\* Two parts of a text that follow each other.
LEMMA PartsJoined ==
  ASSUME NEW t \in Seq(Byte), NEW a \in 0 .. Len(t), NEW b \in a .. Len(t)
  PROVE  SubSeq(t, 1, a) \o SubSeq(t, a + 1, b) = SubSeq(t, 1, b)
<1> DEFINE x == SubSeq(t, 1, a)
           y == SubSeq(t, a + 1, b)
           z == SubSeq(t, 1, b)
<1>0. a \in Nat /\ b \in Nat /\ Len(t) \in Nat /\ a <= b /\ b <= Len(t)
  OBVIOUS
<1>1. \A i \in 1 .. Len(t) : t[i] \in Byte
  OBVIOUS
<1>2. x \in Seq(Byte) /\ Len(x) = a /\ \A i \in 1 .. a : x[i] = t[i]
  <2>1. \A i \in 1 .. a : t[i] \in Byte
    BY <1>1
  <2>2. /\ x \in Seq(Byte) /\ Len(x) = IF 1 <= a THEN a - 1 + 1 ELSE 0
        /\ \A i \in 1 .. a - 1 + 1 : x[i] = t[1 + i - 1]
    BY <2>1, SubSeqProperties
  <2> HIDE DEF x
  <2> QED  BY <2>2
<1>3. y \in Seq(Byte) /\ Len(y) = b - a /\ \A i \in 1 .. b - a : y[i] = t[a + i]
  <2>1. \A i \in a + 1 .. b : t[i] \in Byte
    BY <1>1
  <2>2. /\ y \in Seq(Byte) /\ Len(y) = IF a + 1 <= b THEN b - (a + 1) + 1 ELSE 0
        /\ \A i \in 1 .. b - (a + 1) + 1 : y[i] = t[(a + 1) + i - 1]
    BY <2>1, SubSeqProperties
  <2> HIDE DEF y
  <2> QED  BY <2>2
<1>4. z \in Seq(Byte) /\ Len(z) = b /\ \A i \in 1 .. b : z[i] = t[i]
  <2>1. \A i \in 1 .. b : t[i] \in Byte
    BY <1>1
  <2>2. /\ z \in Seq(Byte) /\ Len(z) = IF 1 <= b THEN b - 1 + 1 ELSE 0
        /\ \A i \in 1 .. b - 1 + 1 : z[i] = t[1 + i - 1]
    BY <2>1, SubSeqProperties
  <2> HIDE DEF z
  <2> QED  BY <2>2
<1> HIDE DEF x, y, z
<1>5. x \o y \in Seq(Byte) /\ Len(x \o y) = b
      /\ \A i \in 1 .. b : (x \o y)[i] = IF i <= a THEN x[i] ELSE y[i - a]
  <2>1. /\ x \o y \in Seq(Byte) /\ Len(x \o y) = Len(x) + Len(y)
        /\ \A i \in 1 .. Len(x) + Len(y) : (x \o y)[i] = IF i <= Len(x) THEN x[i] ELSE y[i - Len(x)]
    BY <1>2, <1>3, ConcatProperties, Zenon
  <2>2. Len(x) = a /\ Len(x) + Len(y) = b
    BY <1>0, <1>2, <1>3
  <2> QED  BY <2>1, <2>2, Zenon
<1>6. \A i \in 1 .. b : (x \o y)[i] = z[i]
  <2> SUFFICES ASSUME NEW i \in 1 .. b PROVE (x \o y)[i] = z[i]
    OBVIOUS
  <2>1. CASE i <= a
    BY <1>2, <1>4, <1>5, <2>1
  <2>2. CASE i > a
    <3>1. i - a \in 1 .. b - a /\ a + (i - a) = i /\ ~ (i <= a)
      BY <1>0, <2>2
    <3> QED  BY <1>3, <1>4, <1>5, <3>1
  <2>3. i <= a \/ i > a
    BY <1>0
  <2> QED  BY <2>1, <2>2, <2>3, Zenon
<1>7. x \o y = z
  BY <1>4, <1>5, <1>6, SeqEqual
<1> QED  BY <1>7 DEF x, y, z

\* A paragraph has the text of its sentences, which is its own.
LEMMA SentencesTogether ==
  ASSUME NEW t, Texted(t), NEW i \in 1 .. Len(t), NEW text \in Seq(Byte), t[i].text = text,
         NEW ends \in Tilings(Len(text)), Len(t) = i + Len(ends),
         \A k \in 1 .. Len(ends) : t[i + k].par = i /\ t[i + k].text = SpanText(text, ends, k)
  PROVE  PlainTexts(t)[i] = text
<1> DEFINE n == Len(ends)
           p == PlainTexts(t)
           Failing == {k \in 1 .. n : ChildTexts(t, p, i)[i + k] # SubSeq(text, 1, ends[k])}
<1>1. /\ Len(t) \in Nat /\ Len(text) \in Nat /\ n \in Nat
      /\ \A k \in 1 .. n : ends[k] \in 1 .. Len(text)
      /\ \A k \in 1 .. n - 1 : ends[k] < ends[k + 1]
      /\ ends # <<>> => ends[n] = Len(text)
  <2>1. Len(t) \in Nat /\ Len(text) \in Nat
    BY DEF Texted
  <2>2. PICK m \in 0 .. Len(text) : ends \in [1 .. m -> 1 .. Len(text)]
    BY DEF Tilings
  <2>3. n = m
    BY <2>1, <2>2
  <2>4. /\ \A k \in 1 .. Len(ends) - 1 : ends[k] < ends[k + 1]
        /\ ends # <<>> => ends[Len(ends)] = Len(text)
    BY Zenon DEF Tilings
  <2> QED  BY <2>1, <2>2, <2>3, <2>4
<1>2. Gathers(t, p) /\ \A j \in 1 .. Len(t) : p[j] \in Seq(Piece)
  BY <1>1, PlainGathers, GatheredBytes
<1>3. ASSUME NEW k \in 1 .. n PROVE p[i + k] = SpanText(text, ends, k)
  <2>1. \A j \in (i + k) + 1 .. Len(t) : t[j].par # i + k
    <3> SUFFICES ASSUME NEW j \in (i + k) + 1 .. Len(t) PROVE t[j].par # i + k
      OBVIOUS
    <3>1. j - i \in 1 .. n /\ i + (j - i) = j /\ i # i + k
      BY <1>1
    <3>2. t[i + (j - i)].par = i
      BY <3>1
    <3> QED  BY <3>1, <3>2
  <2>2. i + k \in 1 .. Len(t)
    BY <1>1
  <2> QED  BY <2>1, <2>2, LeafText
<1> HIDE DEF p
<1>4. /\ ChildTexts(t, p, i)[i] = <<>>
      /\ \A j \in i + 1 .. Len(t) : ChildTexts(t, p, i)[j] = ChildTexts(t, p, i)[j - 1] \o Part(t, p, i, j)
  BY <1>1, UpTo
<1>5. ASSUME NEW k \in 1 .. n
      PROVE  ChildTexts(t, p, i)[i + k] = ChildTexts(t, p, i)[i + (k - 1)] \o SpanText(text, ends, k)
  <2>1. i + k \in i + 1 .. Len(t) /\ (i + k) - 1 = i + (k - 1)
    BY <1>1
  <2>2. Part(t, p, i, i + k) = SpanText(text, ends, k)
    BY <1>3 DEF Part
  <2> QED  BY <1>4, <2>1, <2>2
<1>6. ASSUME Failing # {} PROVE FALSE
  <2>1. PICK k \in Failing : \A m \in Failing : k <= m
    <3>1. Failing \in SUBSET Nat
      BY <1>1
    <3> HIDE DEF Failing
    <3> QED  BY <1>6, <3>1, LeastNumber
  <2>2. k \in 1 .. n /\ ChildTexts(t, p, i)[i + k] # SubSeq(text, 1, ends[k])
    OBVIOUS
  <2>3. CASE k = 1
    <3>1. SpanText(text, ends, k) = SubSeq(text, 1, ends[k])
      BY <2>3 DEF SpanText
    <3>2. ChildTexts(t, p, i)[i + (k - 1)] = <<>>
      <4>1. i + (k - 1) = i
        BY <1>1, <2>3
      <4> QED  BY <1>4, <4>1
    <3>3. SubSeq(text, 1, ends[k]) \in Seq(Byte)
      <4>1. ends[k] \in 1 .. Len(text)
        BY <1>1, <2>2
      <4> HIDE DEF Failing, n
      <4>2. \A j \in 1 .. ends[k] : text[j] \in Byte
        BY <1>1, <4>1
      <4> QED  BY <4>1, <4>2, SubSeqProperties
    <3>4. <<>> \o SubSeq(text, 1, ends[k]) = SubSeq(text, 1, ends[k])
      BY <3>3, ConcatEmptySeq
    <3> QED  BY <1>5, <2>2, <3>1, <3>2, <3>4
  <2>4. CASE k # 1
    <3>1. k - 1 \in 1 .. n - 1 /\ k - 1 \in 1 .. n /\ ~ (k <= k - 1) /\ (k - 1) + 1 = k
      BY <1>1, <2>2, <2>4
    <3>2. ChildTexts(t, p, i)[i + (k - 1)] = SubSeq(text, 1, ends[k - 1])
      BY <2>1, <3>1
    <3>3. SpanText(text, ends, k) = SubSeq(text, ends[k - 1] + 1, ends[k])
      BY <2>4 DEF SpanText
    <3>4. ends[k - 1] \in 0 .. Len(text) /\ ends[k] \in ends[k - 1] .. Len(text)
      <4>1. ends[k - 1] \in 1 .. Len(text) /\ ends[k] \in 1 .. Len(text)
        BY <1>1, <2>2, <3>1
      <4>2. ends[k - 1] < ends[k]
        BY <1>1, <3>1
      <4> HIDE DEF Failing, n
      <4> QED  BY <1>1, <4>1, <4>2
    <3>5. SubSeq(text, 1, ends[k - 1]) \o SubSeq(text, ends[k - 1] + 1, ends[k]) = SubSeq(text, 1, ends[k])
      BY <3>4, PartsJoined
    <3> QED  BY <1>5, <2>2, <3>2, <3>3, <3>5
  <2> QED  BY <2>3, <2>4
<1>7. ChildTexts(t, p, i)[Len(t)] \in {<<>>, text}
  <2>1. CASE n = 0
    <3>1. Len(t) = i
      BY <1>1, <2>1
    <3> QED  BY <1>4, <3>1
  <2>2. CASE n # 0
    <3>1. n \in 1 .. n /\ n \notin Failing /\ ends # <<>>
      <4>1. n \in 1 .. n
        BY <1>1, <2>2
      <4>2. ends # <<>>
        BY <2>2
      <4> QED  BY <1>6, <4>1, <4>2
    <3>2. ChildTexts(t, p, i)[i + n] = SubSeq(text, 1, Len(text))
      BY <1>1, <3>1
    <3>3. SubSeq(text, 1, Len(text)) = text
      OBVIOUS
    <3> QED  BY <3>2, <3>3
  <2> QED  BY <2>1, <2>2
<1>8. p[i] = OwnOr(t, p, i)
  BY <1>2 DEF Gathers
<1>9. p[i] = text
  BY <1>7, <1>8 DEF OwnOr
<1> QED  BY <1>9 DEF p

-----------------------------------------------------------------------------
\* What is collected of the root at any moment, and why: the nodes the walk is inside of
\* have no text yet, so that theirs is their children's; a loop that has joined a text has
\* a child it comes from; and whatever was met after a node the walk is inside of is below it.
GatherInv ==
  /\ open[1].node = 1
  /\ \A k \in Frames : \A c \in {open[k].node} :
        /\ out[c].text = <<>>
        /\ \A j \in c + 1 .. Len(out) : out[j].par >= c
        /\ k > 1 => out[c].par = open[k - 1].node
        /\ open[k].text # <<>> => PlainTexts(out)[c] # <<>>
  /\ PlainTexts(out)[1] = written

\* The tree of the walk is one.
LEMMA NodesTexted ==
  ASSUME NEW t \in Seq(Node)
  PROVE  Texted(t) /\ \A i \in 1 .. Len(t) : t[i].par \in Nat
<1>1. Len(t) \in Nat /\ \A i \in 1 .. Len(t) : t[i] \in Node
  OBVIOUS
<1>2. \A i \in 1 .. Len(t) : t[i].text \in Seq(Byte) /\ t[i].par \in Nat
  BY <1>1, Zenon DEF Node
<1>3. \A i \in 1 .. Len(t) : t[i].text \in Seq(Piece)
  BY <1>2, BytesArePieces
<1> QED  BY <1>1, <1>2, <1>3 DEF Texted

\* The nodes the walk is inside of form a chain.
LEMMA FramesChain ==
  ASSUME TreeInv, OpenChain, GatherInv
  PROVE  Chain(out, {open[k].node : k \in Frames}, Top.node)
<1> DEFINE n == Len(open)
           at(k) == open[k].node
           S == {at(k) : k \in Frames}
<1>1. /\ n \in Nat \ {0} /\ n \in Frames /\ Frames = 1 .. n /\ Top = open[n]
      /\ Len(out) \in Nat /\ \A k \in Frames : at(k) \in 1 .. Len(out)
  BY TreeShape DEF Frames, ParentsFirst
<1>2. \A k \in Frames : \A j \in 1 .. k - 1 : at(j) < at(k)
  BY DEF OpenChain
<1>3. /\ at(1) = 1 /\ out[1].par = 0
      /\ \A k \in Frames : /\ out[at(k)].text = <<>>
                           /\ \A j \in at(k) + 1 .. Len(out) : out[j].par >= at(k)
                           /\ k > 1 => out[at(k)].par = at(k - 1)
  BY DEF GatherInv, TreeInv, Storable
<1> HIDE DEF at, n
<1>4. S \in SUBSET (1 .. Len(out)) /\ at(n) \in S /\ \A c \in S : out[c].text = <<>>
  BY <1>1, <1>3
<1>5. ASSUME NEW c \in S, c # at(n)
      PROVE  \E d \in S : d > c /\ out[d].par = c /\ \A j \in d + 1 .. Len(out) : out[j].par # c
  <2>1. PICK k \in Frames : c = at(k)
    OBVIOUS
  <2>2. k # n /\ k \in 1 .. n
    BY <1>1, <1>5, <2>1
  <2>3. k + 1 \in Frames /\ k + 1 > 1 /\ (k + 1) - 1 = k /\ k \in 1 .. (k + 1) - 1
    BY <1>1, <2>2
  <2>4. at(k) < at(k + 1)
    BY <1>2, <2>3
  <2>5. out[at(k + 1)].par = c /\ \A j \in at(k + 1) + 1 .. Len(out) : out[j].par >= at(k + 1)
    BY <1>3, <2>1, <2>3
  <2>6. ASSUME NEW j \in at(k + 1) + 1 .. Len(out) PROVE out[j].par # c
    <3>1. out[j].par >= at(k + 1)
      BY <2>5
    <3>2. at(k) \in Nat /\ at(k + 1) \in Nat /\ j \in 1 .. Len(out)
      BY <1>1, <2>1, <2>3
    <3>3. out[j].par \in Nat
      BY <3>2, TreeShape DEF Node
    <3> QED  BY <2>1, <2>4, <3>1, <3>2, <3>3
  <2>7. at(k + 1) > c /\ at(k + 1) \in S
    BY <1>1, <2>1, <2>3, <2>4
  <2> QED  BY <2>5, <2>6, <2>7
<1>6. ASSUME NEW k \in Frames
      PROVE  out[at(k)].par = IF k = 1 THEN 0 ELSE at(k - 1)
  <2>1. k = 1 \/ k > 1
    BY <1>1
  <2> QED  BY <1>3, <2>1
<1>7. \A k \in Frames : k # 1 => k - 1 \in Frames /\ k - 1 \in 1 .. n - 1
  BY <1>1
<1>8. ASSUME NEW d \in S PROVE out[d].par # at(n) /\ out[d].par \in S \cup {0}
  <2>1. PICK k \in Frames : d = at(k)
    OBVIOUS
  <2>2. CASE k = 1
    <3>1. at(n) # 0
      BY <1>1
    <3> QED  BY <1>6, <2>1, <2>2, <3>1
  <2>3. CASE k # 1
    <3>1. k - 1 \in Frames /\ at(k - 1) < at(n) /\ at(k - 1) \in Nat /\ at(n) \in Nat
      BY <1>1, <1>2, <1>7, <2>3
    <3> QED  BY <1>6, <2>1, <2>3, <3>1
  <2> QED  BY <2>2, <2>3
<1>9. ASSUME NEW j \in Frames, NEW k \in Frames, at(j) = at(k) PROVE j = k
  <2>1. at(j) \in Nat /\ at(k) \in Nat
    BY <1>1
  <2>2. j < k => at(j) < at(k)
    BY <1>1, <1>2
  <2>3. k < j => at(k) < at(j)
    BY <1>1, <1>2
  <2> QED  BY <1>1, <1>9, <2>1, <2>2, <2>3
<1>10. ASSUME NEW d \in S, NEW e \in S, out[d].par = out[e].par PROVE d = e
  <2>1. PICK j \in Frames : d = at(j)
    OBVIOUS
  <2>2. PICK k \in Frames : e = at(k)
    OBVIOUS
  <2>3. (IF j = 1 THEN 0 ELSE at(j - 1)) = (IF k = 1 THEN 0 ELSE at(k - 1))
    BY <1>6, <1>10, <2>1, <2>2
  <2>4. \A m \in Frames : at(m) # 0
    BY <1>1
  <2>5. CASE j = 1 \/ k = 1
    BY <1>7, <2>1, <2>2, <2>3, <2>4, <2>5
  <2>6. CASE j # 1 /\ k # 1
    <3>1. j - 1 \in Frames /\ k - 1 \in Frames /\ at(j - 1) = at(k - 1)
      BY <1>7, <2>3, <2>6
    <3>2. j - 1 = k - 1
      BY <1>9, <3>1
    <3>3. j = k
      BY <1>1, <3>2
    <3> QED  BY <2>1, <2>2, <3>3
  <2> QED  BY <2>5, <2>6
<1>11. Chain(out, S, at(n))
  BY <1>4, <1>5, <1>8, <1>10 DEF Chain
<1> QED  BY <1>1, <1>11 DEF at, n

\* A child of the innermost node, with what comes with it, adds its text to the root's.
LEMMA GatherGrows ==
  ASSUME TreeInv, TreeInv', OpenChain, GatherInv, Grows,
         NEW x \in Seq(Byte), PlainTexts(out')[Len(out) + 1] = x, written' = written \o x,
         \A k \in Frames : open'[k].text # <<>> => open[k].text # <<>> \/ x # <<>>,
         Len(open') \in Len(open) .. Len(open) + 1,
         Len(open') = Len(open) + 1 => out'[Len(out) + 1].text = <<>> /\ open'[Len(open) + 1].text = <<>>
  PROVE  GatherInv'
<1> DEFINE L == Len(out)
           n == Len(open)
           S == {open[k].node : k \in Frames}
<1>1. /\ n \in Nat \ {0} /\ n \in Frames /\ 1 \in Frames /\ Frames = 1 .. n /\ Top = open[n]
      /\ L \in Nat \ {0} /\ \A k \in Frames : open[k].node \in 1 .. L
  BY TreeShape DEF Frames, ParentsFirst
<1>2. Texted(out) /\ Texted(out') /\ \A j \in 1 .. Len(out') : out'[j].par \in Nat
  <2>1. out \in Seq(Node) /\ out' \in Seq(Node)
    BY DEF TreeInv, TypeOK
  <2> QED  BY <2>1, NodesTexted
<1>3. Len(out') \in Nat
  BY <1>2 DEF Texted
<1>4. /\ L < Len(out') /\ \A i \in 1 .. L : out'[i] = out[i]
      /\ out'[L + 1].par = Top.node /\ \A i \in L + 2 .. Len(out') : out'[i].par = L + 1
      /\ \A k \in Frames : open'[k].node = open[k].node
      /\ \A k \in 1 .. Len(open') : k \in Frames \/ open'[k].node = L + 1
  BY DEF Grows
<1>5. ASSUME NEW i \in 1 .. L
      PROVE  PlainTexts(out')[i] = IF i \in S THEN PlainTexts(out)[i] \o x ELSE PlainTexts(out)[i]
  <2>1. Chain(out, S, Top.node)
    BY FramesChain
  <2>2. Added(out, out', Top.node)
    <3>1. \A j \in L + 2 .. Len(out') : out'[j].par \notin 1 .. L
      BY <1>1, <1>4
    <3> QED  BY <1>4, <3>1 DEF Added
  <2> HIDE DEF S
  <2> QED  BY <1>2, <2>1, <2>2, ChainGrows
<1>6. x \in Seq(Piece) /\ \A i \in 1 .. L : PlainTexts(out)[i] \in Seq(Piece)
  BY <1>1, <1>2, PlainGathers, GatheredBytes, BytesArePieces
<1>7. ASSUME NEW k \in Frames, NEW c, c = open[k].node
      PROVE  /\ out'[c].text = <<>>
             /\ \A j \in c + 1 .. Len(out') : out'[j].par >= c
             /\ k > 1 => out'[c].par = open'[k - 1].node
             /\ open'[k].text # <<>> => PlainTexts(out')[c] # <<>>
  <2>1. /\ c \in 1 .. L /\ out'[c] = out[c] /\ out[c].text = <<>>
        /\ \A j \in c + 1 .. L : out[j].par >= c
        /\ k > 1 => out[c].par = open[k - 1].node
        /\ open[k].text # <<>> => PlainTexts(out)[c] # <<>>
    BY <1>1, <1>4, <1>7 DEF GatherInv
  <2>2. ASSUME NEW j \in c + 1 .. Len(out') PROVE out'[j].par >= c
    <3>1. j \in c + 1 .. L \/ j = L + 1 \/ j \in L + 2 .. Len(out')
      <4>1. c \in Nat /\ c <= L
        BY <1>1, <2>1
      <4> QED  BY <1>1, <1>3, <4>1
    <3>2. CASE j \in c + 1 .. L
      <4>1. j \in 1 .. L
        BY <2>1, <3>2
      <4> QED  BY <1>4, <2>1, <3>2, <4>1
    <3>3. CASE j = L + 1
      <4>1. Top.node >= c
        <5>1. k = n \/ k \in 1 .. n - 1
          BY <1>1
        <5>2. k \in 1 .. n - 1 => open[k].node < open[n].node
          BY <1>1 DEF OpenChain
        <5>3. open[n].node \in 1 .. L
          BY <1>1
        <5>4. PICK top : top = open[n].node
          OBVIOUS
        <5>5. c = top \/ c < top
          BY <1>7, <5>1, <5>2, <5>4, Zenon
        <5>6. top \in Nat /\ c \in Nat
          BY <2>1, <5>3, <5>4, SMTT(40)
        <5>7. top >= c
          BY <5>5, <5>6
        <5> QED  BY <1>1, <5>4, <5>7
      <4> QED  BY <1>4, <3>3, <4>1
    <3>4. CASE j \in L + 2 .. Len(out')
      BY <1>1, <1>4, <2>1, <3>4
    <3> QED  BY <3>1, <3>2, <3>3, <3>4
  <2>3. k > 1 => out'[c].par = open'[k - 1].node
    <3>1. k > 1 => k - 1 \in Frames
      BY <1>1
    <3> QED  BY <1>4, <2>1, <3>1
  <2>4. ASSUME open'[k].text # <<>> PROVE PlainTexts(out')[c] # <<>>
    <3>1. c \in S
      BY <1>7
    <3>2. PlainTexts(out')[c] = PlainTexts(out)[c] \o x
      BY <1>5, <2>1, <3>1
    <3>3. PlainTexts(out)[c] # <<>> \/ x # <<>>
      BY <2>1, <2>4
    <3>4. PlainTexts(out)[c] \in Seq(Piece)
      BY <1>6, <2>1
    <3> QED  BY <1>6, <3>2, <3>3, <3>4, ConcatEqualIffEmpty
  <2> QED  BY <2>1, <2>2, <2>3, <2>4
<1>8. ASSUME NEW k \in 1 .. Len(open'), k \notin Frames, NEW c, c = open'[k].node
      PROVE  /\ out'[c].text = <<>>
             /\ \A j \in c + 1 .. Len(out') : out'[j].par >= c
             /\ k > 1 => out'[c].par = open'[k - 1].node
             /\ open'[k].text # <<>> => PlainTexts(out')[c] # <<>>
  <2>1. c = L + 1
    BY <1>4, <1>8
  <2>2. k = n + 1 /\ Len(open') = n + 1 /\ k - 1 = n
    BY <1>1, <1>8
  <2>3. out'[c].text = <<>> /\ open'[k].text = <<>>
    BY <2>1, <2>2
  <2>4. \A j \in c + 1 .. Len(out') : out'[j].par >= c
    BY <1>1, <1>4, <2>1
  <2>5. out'[c].par = open'[k - 1].node
    BY <1>1, <1>4, <2>1, <2>2
  <2> QED  BY <2>3, <2>4, <2>5
<1>9. \A k \in Frames : open'[k].node = open[k].node
  BY <1>4
<1>10. open'[1].node = 1
  BY <1>1, <1>4 DEF GatherInv
<1>11. PlainTexts(out')[1] = written'
  <2>1. 1 \in S /\ 1 \in 1 .. L /\ PlainTexts(out)[1] = written
    BY <1>1 DEF GatherInv
  <2> QED  BY <1>5, <2>1
<1>12. \A k \in Frames' : \A c \in {open'[k].node} :
          /\ out'[c].text = <<>>
          /\ \A j \in c + 1 .. Len(out') : out'[j].par >= c
          /\ k > 1 => out'[c].par = open'[k - 1].node
          /\ open'[k].text # <<>> => PlainTexts(out')[c] # <<>>
  <2> SUFFICES ASSUME NEW k \in Frames', NEW c, c = open'[k].node
               PROVE  /\ out'[c].text = <<>>
                      /\ \A j \in c + 1 .. Len(out') : out'[j].par >= c
                      /\ k > 1 => out'[c].par = open'[k - 1].node
                      /\ open'[k].text # <<>> => PlainTexts(out')[c] # <<>>
    BY Zenon
  <2>1. CASE k \in Frames
    <3>1. c = open[k].node
      BY <1>9, <2>1
    <3> QED  BY <1>7, <2>1, <3>1
  <2>2. CASE k \notin Frames
    <3>1. k \in 1 .. Len(open')
      BY DEF Frames
    <3> QED  BY <1>8, <2>2, <3>1
  <2> QED  BY <2>1, <2>2
<1> QED  BY <1>10, <1>11, <1>12 DEF GatherInv

-----------------------------------------------------------------------------
\* A loop that has a text after one more child had one before, or the child has one.
LEMMA JoinedText ==
  ASSUME NEW frames \in Seq(Frame), NEW n \in Nat \ {0}, Len(frames) = n, NEW text \in Seq(Byte),
         NEW k \in 1 .. n, Joined(frames, text)[k].text # <<>>
  PROVE  frames[k].text # <<>> \/ text # <<>>
<1>1. k \in 1 .. n - 1 \/ k = n
  OBVIOUS
<1>2. k \in 1 .. n - 1 => Joined(frames, text)[k] = frames[k]
  BY JoinedParts
<1>3. Joined(frames, text)[n].text = frames[n].text \o text
  BY JoinedParts
<1>4. frames[n].text \in Seq(Byte)
  <2>1. n \in 1 .. Len(frames)
    OBVIOUS
  <2>2. frames[n] \in Frame
    BY <2>1, ElementOfSeq
  <2> QED  BY <2>2 DEF Frame
<1>5. frames[n].text = <<>> /\ text = <<>> => frames[n].text \o text = <<>>
  BY <1>4, ConcatEmptySeq
<1> QED  BY <1>1, <1>2, <1>3, <1>5

\* One more child and what comes with it, whose text the innermost loop has joined.
LEMMA JoinGather ==
  ASSUME TreeInv, TreeInv', CollectInv, GatherInv, Grows, NEW text \in Seq(Byte),
         PlainTexts(out')[Len(out) + 1] = text, open' = Joined(open, text), written' = written \o text,
         Len(open') = Len(open)
  PROVE  GatherInv'
<1>1. /\ open \in Seq(Frame) /\ Len(open) \in Nat \ {0} /\ Frames = 1 .. Len(open)
  BY TreeShape DEF TreeInv, TypeOK, Frames
<1>2. \A k \in Frames : open'[k].text # <<>> => open[k].text # <<>> \/ text # <<>>
  BY <1>1, JoinedText
<1>3. Len(open') \in Len(open) .. Len(open) + 1 /\ Len(open') # Len(open) + 1
  BY <1>1
<1>4. OpenChain
  BY DEF CollectInv
<1> QED  BY <1>2, <1>3, <1>4, GatherGrows

\* A block that becomes one node.
LEMMA SingleGather ==
  ASSUME TreeInv, TreeInv', CollectInv, GatherInv,
         NEW type \in NodeType \ {"document", "sentence", "list_item"}, NEW text \in Seq(Byte),
         Single(type, text)
  PROVE  GatherInv'
<1>1. Grows /\ Len(out') = Len(out) + 1 /\ Len(open') = Len(open) /\ out'[Len(out) + 1].text = text
  BY SingleGrows
<1>2. out' \in Seq(Node) /\ Len(out) \in Nat
  BY DEF TreeInv, TypeOK
<1>3. PlainTexts(out')[Len(out) + 1] = text
  <2>1. Len(out) + 1 \in 1 .. Len(out') /\ Len(out) + 1 + 1 .. Len(out') = {}
    BY <1>1, <1>2
  <2>2. Texted(out')
    BY <1>2, NodesTexted
  <2>3. PlainTexts(out')[Len(out) + 1] = out'[Len(out) + 1].text
    BY <2>1, <2>2, LeafText
  <2> QED  BY <1>1, <2>3
<1>4. open' = Joined(open, text) /\ written' = written \o text
  BY DEF Single
<1> QED  BY <1>1, <1>3, <1>4, JoinGather

\* A paragraph with its sentences.
LEMMA ParaGather ==
  ASSUME TreeInv, TreeInv', CollectInv, GatherInv,
         NEW len \in 0 .. MaxText, NEW ends \in Tilings(len), Para(len, ends)
  PROVE  GatherInv'
<1>1. PICK text : text = Text(len)
  OBVIOUS
<1>2. text \in Seq(Byte) /\ Len(text) = len
  BY <1>1, TextIsBytes DEF TreeInv
<1>3. /\ Grows /\ Len(out') = Len(out) + 1 + Len(ends) /\ Len(open') = Len(open)
      /\ out'[Len(out) + 1].text = text
      /\ \A k \in 1 .. Len(ends) : /\ out'[Len(out) + 1 + k].par = Len(out) + 1
                                   /\ out'[Len(out) + 1 + k].text = SpanText(text, ends, k)
  BY <1>1, ParaGrows
<1>4. out' \in Seq(Node) /\ Len(out) \in Nat /\ Len(ends) \in Nat
  BY DEF TreeInv, TypeOK, Tilings
<1>5. PlainTexts(out')[Len(out) + 1] = text
  <2>1. PICK i : i = Len(out) + 1
    OBVIOUS
  <2>2. i \in 1 .. Len(out') /\ Len(out') = i + Len(ends)
    <3>1. Len(out') = Len(out) + 1 + Len(ends)
      BY <1>3
    <3> QED  BY <1>4, <2>1, <3>1
  <2>3. Texted(out')
    BY <1>4, NodesTexted
  <2>4. /\ out'[i].text = text /\ ends \in Tilings(Len(text))
        /\ \A k \in 1 .. Len(ends) : out'[i + k].par = i /\ out'[i + k].text = SpanText(text, ends, k)
    BY <1>2, <1>3, <2>1
  <2>5. PlainTexts(out')[i] = text
    BY <1>2, <2>2, <2>3, <2>4, SentencesTogether
  <2> QED  BY <2>1, <2>5
<1>6. open' = Joined(open, text) /\ written' = written \o text
  BY <1>1 DEF Para
<1> QED  BY <1>2, <1>3, <1>5, <1>6, JoinGather

\* A block or an item with children of its own.
LEMMA OpenGather ==
  ASSUME TreeInv, TreeInv', CollectInv, GatherInv, NEW met, NEW type \in Holder \ {"document"},
         NEW hasContent \in BOOLEAN, NEW holds \in {"blocks", "items"}, Open(met, type, hasContent, holds)
  PROVE  GatherInv'
<1>1. /\ Grows /\ Len(out') = Len(out) + 1 /\ Len(open') = Len(open) + 1
      /\ out'[Len(out) + 1].text = <<>>
  BY OpenGrows
<1>2. open'[Len(open) + 1].text = <<>> /\ \A k \in Frames : open'[k] = open[k]
  BY OpenGrows
<1>3. out' \in Seq(Node) /\ Len(out) \in Nat /\ Len(open) \in Nat
  BY DEF TreeInv, TypeOK
<1>4. PlainTexts(out')[Len(out) + 1] = <<>>
  <2>1. Len(out) + 1 \in 1 .. Len(out') /\ Len(out) + 1 + 1 .. Len(out') = {}
    BY <1>1, <1>3
  <2>2. Texted(out')
    BY <1>3, NodesTexted
  <2>3. PlainTexts(out')[Len(out) + 1] = out'[Len(out) + 1].text
    BY <2>1, <2>2, LeafText
  <2> QED  BY <1>1, <2>3
<1>5. <<>> \in Seq(Byte) /\ written' = written \o <<>>
  <2>1. written \in Seq(Byte) /\ written' = written
    BY DEF Open, TreeInv, TypeOK
  <2> QED  BY <2>1, ConcatEmptySeq
<1>6. Len(open') \in Len(open) .. Len(open) + 1
  BY <1>1, <1>3
<1>7. OpenChain
  BY DEF CollectInv
<1> QED  BY <1>1, <1>2, <1>4, <1>5, <1>6, <1>7, GatherGrows

\* The innermost node is left: its text is its children's, and its parent has a child with a
\* text if it has joined one.
LEMMA CloseGather ==
  ASSUME TreeInv, TreeInv', CollectInv, GatherInv, Close
  PROVE  GatherInv'
<1>1. PICK L, n, c0, p, text : /\ L = Len(out) /\ n = Len(open) /\ c0 = open[n].node
                               /\ p = open[n - 1].node /\ text = TextOf(open[n])
  BY Zenon
<1>2. /\ L \in Nat \ {0} /\ n \in Nat /\ n > 1 /\ Frames = 1 .. n /\ n \in Frames /\ n - 1 \in Frames
      /\ p \in 1 .. L /\ c0 \in 2 .. L /\ p < c0 /\ out[c0].par = p
      /\ Len(out') = L
      /\ \A i \in 1 .. L : out'[i].par = out[i].par /\ (i # c0 => out'[i] = out[i])
      /\ out'[c0].text = text /\ text \in Seq(Byte)
      /\ Len(open') = n - 1 /\ \A k \in 1 .. n - 2 : open'[k] = open[k]
      /\ open'[n - 1].node = p /\ open'[n - 1].text = open[n - 1].text \o text
  <2>1. OpenChain
    BY DEF CollectInv
  <2>2. Leaves(L, n, c0, p, text)
    BY <1>1, <2>1, CloseParts
  <2> QED  BY <2>2 DEF Leaves
<1>3. /\ open[1].node = 1 /\ PlainTexts(out)[1] = written
      /\ \A k \in Frames : \A c \in {open[k].node} :
            /\ out[c].text = <<>>
            /\ \A j \in c + 1 .. L : out[j].par >= c
            /\ k > 1 => out[c].par = open[k - 1].node
            /\ open[k].text # <<>> => PlainTexts(out)[c] # <<>>
  BY <1>1 DEF GatherInv
<1>4. Texted(out) /\ Len(out) \in Nat
  <2>1. out \in Seq(Node)
    BY DEF TreeInv, TypeOK
  <2> QED  BY <2>1, NodesTexted
<1>5. Gathers(out, PlainTexts(out)) /\ \A i \in 1 .. L : PlainTexts(out)[i] \in Seq(Piece)
  BY <1>1, <1>4, PlainGathers, GatheredBytes
<1>6. text # <<>> => PlainTexts(out)[c0] # <<>>
  <2>1. text # <<>> => open[n].text # <<>>
    BY <1>1 DEF TextOf
  <2> QED  BY <1>1, <1>2, <1>3, <2>1
<1>7. \A i \in 1 .. L : PlainTexts(out')[i] = PlainTexts(out)[i]
  <2>1. out[c0].text = <<>>
    BY <1>1, <1>2, <1>3
  <2>2. c0 \in 1 .. Len(out)
    BY <1>1, <1>2
  <2>3. \A i \in 1 .. Len(out) : out'[i].par = out[i].par /\ (i # c0 => out'[i].text = out[i].text)
    BY <1>1, <1>2
  <2>4. Len(out') = Len(out) /\ (out'[c0].text # <<>> => PlainTexts(out)[c0] # <<>>)
    BY <1>1, <1>2, <1>6
  <2>5. \A i \in 1 .. Len(out) : PlainTexts(out')[i] = PlainTexts(out)[i]
    BY <1>4, <2>1, <2>2, <2>3, <2>4, ClosedGathers
  <2> QED  BY <1>1, <2>5
<1>8. ASSUME NEW k \in 1 .. n - 1
      PROVE  /\ k \in Frames /\ open'[k].node = open[k].node
             /\ open[k].node \in 1 .. L /\ open[k].node # c0
  <2>1. k \in Frames /\ (k \in 1 .. n - 2 \/ k = n - 1)
    BY <1>2
  <2>2. open'[k].node = open[k].node
    BY <1>1, <1>2, <2>1
  <2>3. open[k].node < open[n].node
    BY <1>2 DEF CollectInv, OpenChain
  <2>4. open[k].node \in 1 .. L
    BY <1>1, <2>1, TreeShape
  <2> QED  BY <1>1, <1>2, <2>1, <2>2, <2>3, <2>4
<1>9. open[n - 1].text \o text # <<>> => PlainTexts(out)[p] # <<>>
  <2>1. open[n - 1].text \in Seq(Byte)
    BY <1>2, TreeShape DEF Frame
  <2>2. open[n - 1].text # <<>> => PlainTexts(out)[p] # <<>>
    BY <1>1, <1>2, <1>3
  <2>3. ASSUME text # <<>> PROVE PlainTexts(out)[p] # <<>>
    <3>1. p \in 1 .. Len(out) /\ c0 \in p + 1 .. Len(out) /\ PlainTexts(out)[c0] # <<>>
      BY <1>1, <1>2, <1>6, <2>3
    <3>2. \A j \in p + 1 .. Len(out) : PlainTexts(out)[j] \in Seq(Piece)
      BY <1>1, <1>2, <1>5
    <3>3. ChildTexts(out, PlainTexts(out), p)[Len(out)] # <<>>
      BY <1>2, <1>4, <3>1, <3>2, ChildCounts
    <3> QED  BY <1>5, <3>1, <3>3 DEF Gathers, OwnOr
  <2>4. open[n - 1].text = <<>> /\ text = <<>> => open[n - 1].text \o text = <<>>
    BY <2>1, ConcatEmptySeq
  <2> QED  BY <2>2, <2>3, <2>4
<1>10. ASSUME NEW k \in 1 .. n - 1, NEW c, c = open[k].node
       PROVE  /\ out'[c].text = <<>>
              /\ \A j \in c + 1 .. L : out'[j].par >= c
              /\ k > 1 => out'[c].par = open'[k - 1].node
              /\ open'[k].text # <<>> => PlainTexts(out')[c] # <<>>
  <2>1. k \in Frames /\ c \in 1 .. L /\ out'[c] = out[c] /\ c # c0
    BY <1>2, <1>8, <1>10
  <2>2. \A j \in c + 1 .. L : out'[j].par >= c
    <3>1. \A j \in c + 1 .. L : j \in 1 .. L
      BY <2>1
    <3> QED  BY <1>2, <1>3, <1>10, <2>1, <3>1
  <2>3. k > 1 => out'[c].par = open'[k - 1].node
    <3>1. k > 1 => k - 1 \in 1 .. n - 1
      BY <1>2
    <3> QED  BY <1>3, <1>8, <1>10, <2>1, <3>1
  <2>4. open'[k].text # <<>> => PlainTexts(out)[c] # <<>>
    <3>1. CASE k \in 1 .. n - 2
      BY <1>2, <1>3, <1>10, <2>1, <3>1
    <3>2. CASE k = n - 1
      BY <1>1, <1>2, <1>9, <1>10, <3>2
    <3>3. k \in 1 .. n - 2 \/ k = n - 1
      BY <1>2
    <3> QED  BY <3>1, <3>2, <3>3
  <2>5. PlainTexts(out')[c] = PlainTexts(out)[c]
    BY <1>7, <2>1
  <2>6. out'[c].text = <<>>
    BY <1>3, <1>10, <2>1
  <2> QED  BY <2>2, <2>3, <2>4, <2>5, <2>6
<1>11. Frames' = 1 .. n - 1
  BY <1>2 DEF Frames
<1>12. open'[1].node = 1
  <2>1. 1 \in 1 .. n - 1
    BY <1>2
  <2> QED  BY <1>3, <1>8, <2>1
<1>13. PlainTexts(out')[1] = written'
  <2>1. 1 \in 1 .. L /\ written' = written
    BY <1>2 DEF Close
  <2> QED  BY <1>3, <1>7, <2>1
<1>14. \A k \in Frames' : \A c \in {open'[k].node} :
          /\ out'[c].text = <<>>
          /\ \A j \in c + 1 .. Len(out') : out'[j].par >= c
          /\ k > 1 => out'[c].par = open'[k - 1].node
          /\ open'[k].text # <<>> => PlainTexts(out')[c] # <<>>
  <2> SUFFICES ASSUME NEW k \in Frames', NEW c, c = open'[k].node
               PROVE  /\ out'[c].text = <<>>
                      /\ \A j \in c + 1 .. Len(out') : out'[j].par >= c
                      /\ k > 1 => out'[c].par = open'[k - 1].node
                      /\ open'[k].text # <<>> => PlainTexts(out')[c] # <<>>
    BY Zenon
  <2>1. k \in 1 .. n - 1 /\ c = open[k].node /\ Len(out') = L
    BY <1>2, <1>8, <1>11
  <2> QED  BY <1>10, <2>1
<1> QED  BY <1>12, <1>13, <1>14 DEF GatherInv

\* Steps that leave the tree and the loops alone.
LEMMA SameGather == ASSUME GatherInv, UNCHANGED <<out, open, written>> PROVE GatherInv'
  BY DEF GatherInv, Frames

\* The document alone.
LEMMA InitGather == Init => GatherInv
<1> SUFFICES ASSUME Init PROVE GatherInv
  OBVIOUS
<1>1. TreeInv /\ out = <<Root>> /\ Len(out) = 1 /\ out[1] = Root /\ Root.text = <<>> /\ written = <<>>
      /\ open[1].node = 1 /\ open[1].text = <<>> /\ Frames = {1}
  BY InitTree DEF Init, Root, Frames
<1>2. Texted(out)
  <2>1. out \in Seq(Node)
    BY <1>1 DEF TreeInv, TypeOK
  <2> QED  BY <2>1, NodesTexted
<1>3. PlainTexts(out)[1] = out[1].text
  <2>1. 1 \in 1 .. Len(out) /\ 1 + 1 .. Len(out) = {}
    BY <1>1
  <2> QED  BY <1>2, <2>1, LeafText
<1> QED  BY <1>1, <1>3 DEF GatherInv

\* Every step.
LEMMA NextGather == TreeInv /\ TreeInv' /\ CollectInv /\ GatherInv /\ [Next]_vars => GatherInv'
<1> SUFFICES ASSUME TreeInv, TreeInv', CollectInv, GatherInv, [Next]_vars PROVE GatherInv'
  OBVIOUS
<1>1. ASSUME NEW len \in 0 .. MaxText, NEW ends \in Tilings(len), Para(len, ends) PROVE GatherInv'
  BY <1>1, ParaGather
<1>2. ASSUME NEW len \in 0 .. MaxText,
             Header(len) \/ CodeBlock(len) \/ LineBlock(len) \/ RawBlock(len) \/ DefinitionList(len)
      PROVE  GatherInv'
  <2>1. Text(len) \in Seq(Byte)
    BY TextIsBytes DEF TreeInv
  <2>2. PICK type \in {"heading", "code_block", "paragraph"} : Single(type, Text(len))
    BY <1>2 DEF Header, CodeBlock, LineBlock, RawBlock, DefinitionList
  <2>3. type \in NodeType \ {"document", "sentence", "list_item"}
    BY DEF NodeType
  <2> QED  BY <2>1, <2>2, <2>3, SingleGather
<1>3. CASE Table \/ HorizontalRule
  <2>1. PICK type \in {"table", "thematic_break"} : Single(type, <<>>)
    BY <1>3 DEF Table, HorizontalRule
  <2>2. type \in NodeType \ {"document", "sentence", "list_item"} /\ <<>> \in Seq(Byte)
    BY DEF NodeType
  <2> QED  BY <2>1, <2>2, SingleGather
<1>4. CASE BlockQuote \/ List \/ Item \/ Div \/ Figure
  <2>1. PICK met, type, hasContent, holds :
           /\ type \in Holder \ {"document"} /\ hasContent \in BOOLEAN /\ holds \in {"blocks", "items"}
           /\ Open(met, type, hasContent, holds)
    BY <1>4, Zenon DEF BlockQuote, List, Item, Div, Figure, Holder
  <2> QED  BY <2>1, OpenGather
<1>5. CASE Null
  BY <1>5, SameGather DEF Null
<1>6. CASE Close
  BY <1>6, CloseGather
<1>7. CASE Finish
  BY <1>7, SameGather DEF Finish
<1>8. CASE Done \/ UNCHANGED vars
  BY <1>8, SameGather DEF Done, vars
<1> QED  BY <1>1, <1>2, <1>3, <1>4, <1>5, <1>6, <1>7, <1>8 DEF Next

\* The invariant of what is collected.
THEOREM GatherInvariance == Spec => [](TreeInv /\ CollectInv /\ GatherInv)
<1>1. Init => TreeInv /\ CollectInv /\ GatherInv
  BY InitTree, InitCollect, InitGather
<1>2. TreeInv /\ CollectInv /\ GatherInv /\ [Next]_vars => (TreeInv /\ CollectInv /\ GatherInv)'
  BY NextTree, NextCollect, NextGather
<1> QED  BY <1>1, <1>2, PTL DEF Spec

\* The root's text, as collect_plain_text gathers it, is that of all blocks, in their order
\* and each once, for documents of any size and any depth.
THEOREM RootAlwaysCollects == Spec => []RootCollectsAll
<1>1. GatherInv => RootCollectsAll
  BY DEF GatherInv, RootCollectsAll, Collected
<1> QED  BY <1>1, GatherInvariance, PTL

-----------------------------------------------------------------------------
\* What is read back.  The reader goes through sections and the document; a node is outer
\* if nothing else stands around it.
Through(node) == node.type \in {"section", "document"}
Walked(i) == Through(out[i])
Outer(i) == \A a \in Ancestors[i] : Walked(a)

\* The outer nodes as a tree, in which the blocks have their fragment for a text.
OuterTree ==
  [i \in 1 .. Len(out) |->
     [par |-> IF Outer(i) THEN out[i].par ELSE 0,
      text |-> IF Outer(i) /\ ~Walked(i) THEN <<out[i].body>> ELSE <<>>]]

\* A loop knows whether what it meets is outer; a node without a fragment is a section or
\* stands in something else; and of the root, what is collected of the outer blocks is what
\* the walk has noted of them.
LooseFrames == \A k \in Frames : open[k].loose <=> \A j \in 1 .. k : Walked(open[j].node)
BodiesKept == \A i \in 2 .. Len(out) : out[i].body = NoBody => out[i].type = "section" \/ ~Walked(out[i].par)
ReadInv == LooseFrames /\ BodiesKept /\ PlainTexts(OuterTree)[1] = loose

\* What the outer tree is made of.
LEMMA OuterNodes ==
  ASSUME TreeInv
  PROVE  /\ Len(OuterTree) = Len(out) /\ Len(out) \in Nat \ {0} /\ Texted(OuterTree)
         /\ \A i \in 1 .. Len(out) :
               /\ OuterTree[i].par = IF Outer(i) THEN out[i].par ELSE 0
               /\ OuterTree[i].text = IF Outer(i) /\ ~Walked(i) THEN <<out[i].body>> ELSE <<>>
         /\ Outer(1)
<1>1. /\ Len(out) \in Nat \ {0} /\ \A i \in 1 .. Len(out) : out[i] \in Node
      /\ Ancestors[1] = {}
  <2>1. Len(out) \in Nat \ {0} /\ 1 \in 1 .. Len(out)
    BY TreeShape DEF ParentsFirst
  <2> QED  BY <2>1, TreeShape, Zenon DEF AncestorsAre
<1>2. Len(OuterTree) = Len(out)
  BY <1>1 DEF OuterTree
<1>3. /\ \A i \in 1 .. Len(out) :
            /\ OuterTree[i].par = IF Outer(i) THEN out[i].par ELSE 0
            /\ OuterTree[i].text = IF Outer(i) /\ ~Walked(i) THEN <<out[i].body>> ELSE <<>>
  BY DEF OuterTree
<1>4. \A i \in 1 .. Len(out) : out[i].body \in Piece
  BY <1>1 DEF Node, Piece
<1>5. \A b \in Piece : <<b>> \in Seq(Piece)
  OBVIOUS
<1>6. <<>> \in Seq(Piece)
  OBVIOUS
<1>7. \A i \in 1 .. Len(out) : OuterTree[i].text \in Seq(Piece)
  BY <1>3, <1>4, <1>5, <1>6, Zenon
<1>8. Outer(1)
  BY <1>1 DEF Outer
<1> QED  BY <1>1, <1>2, <1>3, <1>7, <1>8 DEF Texted

\* Nodes that hang on none of the tree before them change nothing of it.
LEMMA DetachedStay ==
  ASSUME NEW t, Texted(t), NEW u, Texted(u), Len(t) <= Len(u),
         \A i \in 1 .. Len(t) : u[i] = t[i],
         \A i \in Len(t) + 1 .. Len(u) : u[i].par \notin 1 .. Len(t)
  PROVE  \A i \in 1 .. Len(t) : PlainTexts(u)[i] = PlainTexts(t)[i]
<1> DEFINE L == Len(t)
           p == PlainTexts(t)
           q == PlainTexts(u)
           r == [i \in 1 .. Len(u) |-> IF i > L THEN q[i] ELSE p[i]]
<1>1. L \in Nat /\ Len(u) \in Nat
  BY DEF Texted
<1>2. Gathers(t, p) /\ Gathers(u, q)
  BY <1>1, PlainGathers
<1>3. /\ \A i \in 1 .. L : p[i] \in Seq(Piece)
      /\ \A i \in 1 .. Len(u) : q[i] \in Seq(Piece)
  BY <1>2, GatheredBytes
<1> HIDE DEF p, q
<1>4. /\ \A i \in L + 1 .. Len(u) : i \in 1 .. Len(u) /\ r[i] = q[i]
      /\ \A i \in 1 .. L : i \in 1 .. Len(u) /\ r[i] = p[i]
  <2>1. /\ \A i \in L + 1 .. Len(u) : i \in 1 .. Len(u) /\ i > L
        /\ \A i \in 1 .. L : i \in 1 .. Len(u) /\ ~ (i > L)
    BY <1>1
  <2> HIDE DEF L
  <2> QED  BY <2>1, Zenon
<1> HIDE DEF r
<1>5. \A i \in 1 .. Len(u) : i \in 1 .. L \/ i \in L + 1 .. Len(u)
  BY <1>1
<1>6. \A i \in 1 .. Len(u) : r[i] \in Seq(Piece)
  BY <1>3, <1>4, <1>5
<1>7. ASSUME NEW i \in L + 1 .. Len(u) PROVE r[i] = OwnOr(u, r, i)
  <2>1. i \in 1 .. Len(u) /\ \A j \in i + 1 .. Len(u) : q[j] = r[j]
    BY <1>1, <1>4
  <2>2. OwnOr(u, q, i) = OwnOr(u, r, i)
    BY <1>1, <2>1, OwnOrSame
  <2> QED  BY <1>2, <1>4, <2>1, <2>2 DEF Gathers
<1>8. ASSUME NEW i \in 1 .. L PROVE r[i] = OwnOr(u, r, i)
  <2>1. i \in 1 .. Len(u) /\ L \in i .. L /\ L \in i .. Len(u) /\ L <= Len(u)
    BY <1>1
  <2>2. ASSUME NEW j \in i + 1 .. L PROVE Part(t, p, i, j) = Part(u, r, i, j)
    <3>1. j \in 1 .. L
      BY <1>1
    <3> QED  BY <1>4, <3>1 DEF Part
  <2>3. ChildTexts(u, r, i)[L] = ChildTexts(t, p, i)[L]
    <3>1. \A j \in i .. L : ChildTexts(t, p, i)[j] = ChildTexts(u, r, i)[j]
      BY <1>1, <2>1, <2>2, UpToSame
    <3> QED  BY <2>1, <3>1
  <2>4. ChildTexts(u, r, i)[Len(u)] = ChildTexts(u, r, i)[L]
    <3>1. \A j \in i + 1 .. Len(u) : r[j] \in Seq(Piece)
      BY <1>1, <1>6
    <3>2. \A j \in L + 1 .. Len(u) : u[j].par # i
      OBVIOUS
    <3> QED  BY <1>1, <2>1, <3>1, <3>2, UpToTail
  <2>5. OwnOr(u, r, i) = OwnOr(t, p, i)
    BY <2>3, <2>4 DEF OwnOr
  <2> QED  BY <1>2, <1>4, <2>5 DEF Gathers
<1>9. Gathers(u, r)
  BY <1>5, <1>7, <1>8 DEF Gathers
<1>10. \A i \in 1 .. Len(u) : q[i] = r[i]
  BY <1>1, <1>2, <1>9, GathersOnce
<1> QED  BY <1>4, <1>10 DEF p, q

-----------------------------------------------------------------------------
\* A child of the innermost node, with what comes with it, in the tree of the outer nodes.
OuterWell ==
  /\ Len(OuterTree) = Len(out) /\ Len(out) \in Nat \ {0} /\ Texted(OuterTree) /\ Outer(1)
  /\ \A i \in 1 .. Len(out) :
        /\ OuterTree[i].par = IF Outer(i) THEN out[i].par ELSE 0
        /\ OuterTree[i].text = IF Outer(i) /\ ~Walked(i) THEN <<out[i].body>> ELSE <<>>

LEMMA OuterIsWell == TreeInv => OuterWell
  BY OuterNodes DEF OuterWell

AllWalked == \A k \in Frames : Walked(open[k].node)

LEMMA OuterGrown ==
  ASSUME TreeInv, TreeInv', OpenChain, Grows, NEW L, L = Len(out)
  PROVE  /\ \A i \in 1 .. L : OuterTree'[i] = OuterTree[i] /\ (Walked(i)' <=> Walked(i))
         /\ OuterTree'[L + 1].par = IF AllWalked THEN Top.node ELSE 0
         /\ OuterTree'[L + 1].text = IF AllWalked /\ out'[L + 1].type # "section"
                                     THEN <<out'[L + 1].body>> ELSE <<>>
         /\ Walked(L + 1)' <=> out'[L + 1].type = "section"
         /\ \A i \in L + 2 .. Len(out') : OuterTree'[i].par = 0
<1>1. /\ OuterWell /\ OuterWell' /\ ParentsFirst' /\ AncestorsAre' /\ AncestorsOrdered
      /\ Storable' /\ L \in Nat \ {0} /\ \A k \in Frames : open[k].node \in 1 .. L
  <2>1. OuterWell' /\ (ParentsFirst /\ AncestorsAre)'
    BY OuterIsWell, TreeShape, PTL
  <2> QED  BY <2>1, OuterIsWell, TreeShape DEF TreeInv, OuterWell
<1>2. /\ L < Len(out') /\ Len(out') \in Nat /\ L + 1 \in 1 .. Len(out') /\ L + 1 \in 2 .. Len(out')
      /\ \A i \in 1 .. L : i \in 1 .. Len(out') /\ out'[i] = out[i]
      /\ out'[L + 1].par = Top.node
  BY <1>1 DEF Grows, OuterWell
<1>3. /\ \A i \in 1 .. L : Ancestors'[i] = Ancestors[i]
      /\ Ancestors'[L + 1] = {open[k].node : k \in Frames}
  BY Grown
<1>4. \A i \in 1 .. L : Walked(i)' <=> Walked(i)
  BY <1>2 DEF Walked, Through
<1>5. ASSUME NEW i \in 1 .. L PROVE Outer(i)' <=> Outer(i)
  <2>1. \A a \in Ancestors[i] : a \in 1 .. L
    BY <1>1 DEF AncestorsOrdered
  <2> QED  BY <1>3, <1>4, <2>1 DEF Outer
<1>6. \A i \in 1 .. L : OuterTree'[i] = OuterTree[i]
  <2>1. \A i \in 1 .. L : out'[i].par = out[i].par /\ out'[i].body = out[i].body
    BY <1>2
  <2> QED  BY <1>2, <1>4, <1>5, <2>1 DEF OuterTree
<1>7. Outer(L + 1)' <=> AllWalked
  BY <1>1, <1>3, <1>4 DEF Outer, AllWalked
<1>8. Walked(L + 1)' <=> out'[L + 1].type = "section"
  BY <1>1, <1>2 DEF Walked, Through, Storable
<1>9. ASSUME NEW i \in L + 2 .. Len(out') PROVE OuterTree'[i].par = 0
  <2>1. i \in 1 .. Len(out') /\ i \in 2 .. Len(out') /\ i # 1
    BY <1>1
  <2>2. out'[i].par = L + 1 /\ out'[i].type = "sentence"
    BY DEF Grows
  <2>3. out'[L + 1].type = "paragraph"
    BY <1>1, <2>1, <2>2 DEF Storable
  <2>4. L + 1 \in Ancestors'[i]
    <3>1. Ancestors'[i] = IF i = 1 THEN {} ELSE {out'[i].par} \cup Ancestors'[out'[i].par]
      BY <1>1, <2>1, Zenon DEF AncestorsAre
    <3> QED  BY <2>1, <2>2, <3>1, Zenon
  <2>5. ~ Walked(L + 1)'
    BY <2>3 DEF Walked, Through
  <2>6. ~ Outer(i)'
    BY <2>4, <2>5 DEF Outer
  <2> QED  BY <1>1, <2>1, <2>6 DEF OuterWell
<1>10. /\ OuterTree'[L + 1].par = IF AllWalked THEN Top.node ELSE 0
       /\ OuterTree'[L + 1].text = IF AllWalked /\ out'[L + 1].type # "section"
                                   THEN <<out'[L + 1].body>> ELSE <<>>
  BY <1>1, <1>2, <1>7, <1>8 DEF OuterWell
<1> QED  BY <1>4, <1>6, <1>8, <1>9, <1>10

\* The innermost loop knows whether all nodes the walk is inside of are read through.
LEMMA TopKnows == ASSUME TreeInv, LooseFrames PROVE Top.loose <=> AllWalked
<1>1. Len(open) \in Frames /\ Frames = 1 .. Len(open) /\ Top = open[Len(open)]
  BY TreeShape DEF Frames
<1> QED  BY <1>1 DEF LooseFrames, AllWalked

\* If so, they are a chain of the outer tree as well.
LEMMA OuterChain ==
  ASSUME TreeInv, OpenChain, GatherInv, AllWalked, NEW S, S = {open[k].node : k \in Frames}
  PROVE  Chain(OuterTree, S, Top.node)
<1>1. Chain(out, S, Top.node)
  BY FramesChain
<1>2. /\ Len(OuterTree) = Len(out) /\ Len(out) \in Nat
      /\ \A i \in 1 .. Len(out) :
            /\ OuterTree[i].par = IF Outer(i) THEN out[i].par ELSE 0
            /\ OuterTree[i].text = IF Outer(i) /\ ~Walked(i) THEN <<out[i].body>> ELSE <<>>
  BY OuterIsWell DEF OuterWell
<1>3. ASSUME NEW c \in S PROVE c \in 1 .. Len(out) /\ c # 0 /\ Walked(c) /\ Outer(c)
  <2>1. PICK k \in Frames : c = open[k].node
    OBVIOUS
  <2>2. Ancestors[c] = {open[j].node : j \in 1 .. k - 1}
    BY <2>1 DEF OpenChain
  <2>3. \A j \in 1 .. k - 1 : j \in Frames
    BY TreeShape DEF Frames
  <2>4. c \in 1 .. Len(out)
    BY <2>1, TreeShape
  <2> QED  BY <2>1, <2>2, <2>3, <2>4 DEF AllWalked, Outer
<1>4. \A c \in S : OuterTree[c].text = <<>> /\ OuterTree[c].par = out[c].par
  BY <1>2, <1>3
<1>5. ASSUME NEW c \in S \ {Top.node}
      PROVE  \E d \in S : d > c /\ OuterTree[d].par = c /\ \A j \in d + 1 .. Len(out) : OuterTree[j].par # c
  <2>1. PICK d \in S : d > c /\ out[d].par = c /\ \A j \in d + 1 .. Len(out) : out[j].par # c
    BY <1>1 DEF Chain
  <2>2. c # 0 /\ \A j \in d + 1 .. Len(out) : j \in 1 .. Len(out)
    BY <1>2, <1>3, <2>1
  <2>3. \A j \in d + 1 .. Len(out) : OuterTree[j].par # c
    BY <1>2, <2>1, <2>2
  <2> QED  BY <1>4, <2>1, <2>3
<1>6. /\ S \in SUBSET (1 .. Len(OuterTree)) /\ Top.node \in S
      /\ \A d \in S : out[d].par # Top.node /\ out[d].par \in S \cup {0}
      /\ \A d, e \in S : out[d].par = out[e].par => d = e
  BY <1>1, <1>2 DEF Chain
<1>7. \A c \in S \ {Top.node} : \E d \in S :
         d > c /\ OuterTree[d].par = c /\ \A j \in d + 1 .. Len(OuterTree) : OuterTree[j].par # c
  BY <1>2, <1>5
<1>8. \A c \in S : OuterTree[c].text = <<>>
  BY <1>4, Zenon
<1>9. \A d \in S : OuterTree[d].par # Top.node /\ OuterTree[d].par \in S \cup {0}
  <2> TAKE d \in S
  <2>1. OuterTree[d].par = out[d].par
    BY <1>4, Zenon
  <2> QED  BY <1>6, <2>1, Zenon
<1>10. \A d, e \in S : OuterTree[d].par = OuterTree[e].par => d = e
  <2> TAKE d, e \in S
  <2>1. OuterTree[d].par = out[d].par /\ OuterTree[e].par = out[e].par
    BY <1>4, Zenon
  <2> QED  BY <1>6, <2>1, Zenon
<1>11. S \in SUBSET (1 .. Len(OuterTree)) /\ Top.node \in S
  BY <1>6, Zenon
<1> HIDE DEF OuterTree
<1> QED  BY <1>7, <1>8, <1>9, <1>10, <1>11, Zenon DEF Chain

\* An outer block that is met is collected of the root, any other node is not.
LEMMA ReadGrows ==
  ASSUME TreeInv, TreeInv', OpenChain, GatherInv, ReadInv, Grows, NEW L, L = Len(out),
         loose' = IF Top.loose /\ out'[L + 1].type # "section"
                  THEN Append(loose, out'[L + 1].body) ELSE loose
  PROVE  PlainTexts(OuterTree')[1] = loose'
<1>1. PICK t, u, S : t = OuterTree /\ u = OuterTree' /\ S = {open[k].node : k \in Frames}
  OBVIOUS
<1>2. /\ Len(t) = L /\ Texted(t) /\ Len(u) = Len(out') /\ Texted(u)
      /\ L \in Nat \ {0} /\ Len(out') \in Nat /\ L < Len(out')
  <2>1. OuterWell'
    BY OuterIsWell, PTL
  <2> QED  BY <1>1, <2>1, OuterIsWell DEF OuterWell, Grows
<1>3. /\ \A i \in 1 .. L : u[i] = t[i]
      /\ u[L + 1].par = IF AllWalked THEN Top.node ELSE 0
      /\ u[L + 1].text = IF AllWalked /\ out'[L + 1].type # "section" THEN <<out'[L + 1].body>> ELSE <<>>
      /\ \A i \in L + 2 .. Len(u) : u[i].par = 0
  BY <1>1, <1>2, OuterGrown
<1>4. (Top.loose <=> AllWalked) /\ PlainTexts(t)[1] = loose /\ loose \in Seq(Nat)
  BY <1>1, TopKnows DEF ReadInv, TreeInv, TypeOK
<1>5. out'[L + 1].body \in Nat
  <2>1. L + 1 \in 1 .. Len(out') /\ out' \in Seq(Node)
    BY <1>2 DEF TreeInv, TypeOK
  <2>2. out'[L + 1] \in Node
    BY <2>1, ElementOfSeq
  <2> QED  BY <2>2 DEF Node
<1>6. CASE AllWalked
  <2>1. Chain(t, S, Top.node)
    BY <1>1, <1>6, OuterChain
  <2>2. Added(t, u, Top.node)
    <3>1. \A i \in L + 2 .. Len(u) : u[i].par \notin 1 .. L
      BY <1>2, <1>3
    <3> QED  BY <1>2, <1>3, <1>6, <3>1 DEF Added
  <2>3. 1 \in S /\ 1 \in 1 .. Len(t)
    <3>1. 1 \in Frames /\ open[1].node = 1
      BY TreeShape DEF GatherInv, Frames
    <3> QED  BY <1>1, <1>2, <3>1
  <2>4. PlainTexts(u)[1] = PlainTexts(t)[1] \o PlainTexts(u)[Len(t) + 1]
    <3>1. \A i \in 1 .. Len(t) :
             PlainTexts(u)[i] = IF i \in S THEN PlainTexts(t)[i] \o PlainTexts(u)[Len(t) + 1]
                                           ELSE PlainTexts(t)[i]
      BY <1>2, <2>1, <2>2, ChainGrows
    <3> QED  BY <2>3, <3>1
  <2>5. PlainTexts(u)[L + 1] = u[L + 1].text
    <3>1. L + 1 \in 1 .. Len(u) /\ \A j \in L + 1 + 1 .. Len(u) : j \in L + 2 .. Len(u)
      BY <1>2
    <3>2. \A j \in L + 1 + 1 .. Len(u) : u[j].par # L + 1
      BY <1>2, <1>3, <3>1
    <3> QED  BY <1>2, <3>1, <3>2, LeafText
  <2>6. PlainTexts(u)[1] = loose \o u[L + 1].text
    BY <1>2, <1>4, <2>4, <2>5
  <2>7. loose \o <<out'[L + 1].body>> = Append(loose, out'[L + 1].body) /\ loose \o <<>> = loose
    BY <1>4, <1>5, ConcatEmptySeq
  <2> QED  BY <1>1, <1>3, <1>4, <1>6, <2>6, <2>7
<1>7. CASE ~AllWalked
  <2>1. \A i \in L + 1 .. Len(u) : i = L + 1 \/ i \in L + 2 .. Len(u)
    BY <1>2
  <2>2. \A i \in L + 1 .. Len(u) : u[i].par \notin 1 .. L
    BY <1>2, <1>3, <1>7, <2>1
  <2>3. 1 \in 1 .. L /\ L <= Len(u)
    BY <1>2
  <2>4. PlainTexts(u)[1] = PlainTexts(t)[1]
    BY <1>2, <1>3, <2>2, <2>3, DetachedStay
  <2> QED  BY <1>1, <1>4, <1>7, <2>4
<1> QED  BY <1>6, <1>7

\* What the loops know, and which nodes have no fragment, after one more child.
LEMMA KnownGrows ==
  ASSUME TreeInv, TreeInv', OpenChain, ReadInv, Grows, NEW L, L = Len(out), NEW n, n = Len(open),
         out'[L + 1].body = NoBody => out'[L + 1].type = "section" \/ ~Walked(Top.node),
         \A k \in Frames : open'[k].loose = open[k].loose,
         Len(open') \in {n, n + 1},
         Len(open') = n + 1 => open'[n + 1].loose = (Top.loose /\ out'[L + 1].type = "section")
  PROVE  LooseFrames' /\ BodiesKept'
<1>1. /\ L \in Nat \ {0} /\ n \in Nat \ {0} /\ n \in Frames /\ Frames = 1 .. n /\ Frames' = 1 .. Len(open')
      /\ Top = open[n] /\ ParentsFirst /\ ParentsFirst' /\ Storable' /\ Len(out') \in Nat
      /\ \A k \in Frames : open[k].node \in 1 .. L
  <2>1. ParentsFirst'
    BY TreeShape, PTL
  <2> QED  BY <2>1, TreeShape DEF Frames, ParentsFirst, TreeInv
<1>2. /\ L < Len(out') /\ \A i \in 1 .. L : out'[i] = out[i]
      /\ out'[L + 1].par = Top.node
      /\ \A i \in L + 2 .. Len(out') : out'[i].par = L + 1 /\ out'[i].type = "sentence"
      /\ \A k \in Frames : open'[k].node = open[k].node
      /\ \A k \in 1 .. Len(open') : k \in Frames \/ open'[k].node = L + 1
  BY DEF Grows
<1>3. (\A i \in 1 .. L : Walked(i)' <=> Walked(i)) /\ (Walked(L + 1)' <=> out'[L + 1].type = "section")
  BY OuterGrown
<1>4. LooseFrames'
  <2>1. ASSUME NEW k \in Frames
        PROVE  open'[k].loose <=> \A j \in 1 .. k : Through(out'[open'[j].node])
    <3>1. \A j \in 1 .. k : j \in Frames
      BY <1>1
    <3>2. \A j \in 1 .. k : Through(out'[open'[j].node]) <=> Walked(open[j].node)
      <4> SUFFICES ASSUME NEW j \in 1 .. k PROVE Through(out'[open'[j].node]) <=> Walked(open[j].node)
        OBVIOUS
      <4>1. PICK c : c = open[j].node
        OBVIOUS
      <4>2. c \in 1 .. L /\ open'[j].node = c
        BY <1>1, <1>2, <3>1, <4>1
      <4>3. out'[c] = out[c]
        BY <1>2, <4>2
      <4> QED  BY <4>1, <4>2, <4>3 DEF Walked, Through
    <3> QED  BY <3>1, <3>2 DEF ReadInv, LooseFrames
  <2>2. ASSUME NEW k \in 1 .. Len(open'), k \notin Frames
        PROVE  open'[k].loose <=> \A j \in 1 .. k : Through(out'[open'[j].node])
    <3>1. k = n + 1 /\ Len(open') = n + 1 /\ 1 .. k = Frames \cup {n + 1} /\ open'[k].node = L + 1
      BY <1>1, <1>2, <2>2
    <3>2. Top.loose <=> \A j \in Frames : Through(out'[open'[j].node])
      <4>1. open'[n].loose = Top.loose
        BY <1>1
      <4> QED  BY <1>1, <2>1, <4>1
    <3>3. Through(out'[open'[k].node]) <=> out'[L + 1].type = "section"
      BY <3>1, <1>1, <1>2 DEF Walked, Through, Storable
    <3> QED  BY <3>1, <3>2, <3>3
  <2> QED  BY <1>1, <2>1, <2>2 DEF LooseFrames, Walked
<1>5. BodiesKept'
  <2> SUFFICES ASSUME NEW i \in 2 .. Len(out'), out'[i].body = NoBody
               PROVE  out'[i].type = "section" \/ ~ Through(out'[out'[i].par])
    BY DEF BodiesKept, Walked
  <2>1. i \in 2 .. L \/ i = L + 1 \/ i \in L + 2 .. Len(out')
    BY <1>1
  <2>2. CASE i \in 2 .. L
    <3>1. i \in 1 .. L /\ out[i].par \in 1 .. L
      BY <1>1, <2>2 DEF ParentsFirst
    <3>2. out'[i] = out[i] /\ out'[out[i].par] = out[out[i].par]
      BY <1>2, <3>1
    <3> QED  BY <2>2, <3>2 DEF ReadInv, BodiesKept, Walked, Through
  <2>3. CASE i = L + 1
    <3>1. Top.node \in 1 .. L
      BY <1>1
    <3>2. out'[Top.node] = out[Top.node]
      BY <1>2, <3>1
    <3> QED  BY <1>2, <2>3, <3>2 DEF Walked, Through
  <2>4. CASE i \in L + 2 .. Len(out')
    <3>1. out'[i].par = L + 1 /\ out'[L + 1].type = "paragraph"
      BY <1>1, <1>2, <2>4 DEF Storable
    <3> QED  BY <3>1 DEF Walked, Through
  <2> QED  BY <2>1, <2>2, <2>3, <2>4
<1> QED  BY <1>4, <1>5

\* What is read of the tree after one more child.
LEMMA GrownRead ==
  ASSUME TreeInv, TreeInv', CollectInv, GatherInv, ReadInv, Grows, NEW L, L = Len(out), NEW n, n = Len(open),
         loose' = IF Top.loose /\ out'[L + 1].type # "section"
                  THEN Append(loose, out'[L + 1].body) ELSE loose,
         out'[L + 1].body = NoBody => out'[L + 1].type = "section" \/ ~Walked(Top.node),
         \A k \in Frames : open'[k].loose = open[k].loose,
         Len(open') \in {n, n + 1},
         Len(open') = n + 1 => open'[n + 1].loose = (Top.loose /\ out'[L + 1].type = "section")
  PROVE  ReadInv'
<1>1. OpenChain
  BY DEF CollectInv
<1>2. PlainTexts(OuterTree')[1] = loose'
  BY <1>1, ReadGrows
<1>3. LooseFrames' /\ BodiesKept'
  BY <1>1, KnownGrows
<1> QED  BY <1>2, <1>3 DEF ReadInv

\* A block that becomes one node, and what a paragraph brings with it.
LEMMA JoinRead ==
  ASSUME TreeInv, TreeInv', CollectInv, GatherInv, ReadInv, Grows, NEW text \in Seq(Byte),
         open' = Joined(open, text), out'[Len(out) + 1].type # "section",
         out'[Len(out) + 1].body = count + 1,
         loose' = IF Top.loose THEN Append(loose, count + 1) ELSE loose
  PROVE  ReadInv'
<1>1. /\ open \in Seq(Frame) /\ Len(open) # 0 /\ Frames = 1 .. Len(open) /\ Len(open) \in Nat
      /\ count + 1 # NoBody
  BY TreeShape DEF TreeInv, TypeOK, Frames, NoBody
<1>2. Len(open') = Len(open) /\ \A k \in Frames : open'[k].loose = open[k].loose
  BY <1>1, JoinedFrames, Zenon
<1>3. Len(open') \in {Len(open), Len(open) + 1} /\ Len(open') # Len(open) + 1
  BY <1>1, <1>2
<1>4. loose' = IF Top.loose /\ out'[Len(out) + 1].type # "section"
               THEN Append(loose, out'[Len(out) + 1].body) ELSE loose
  BY Zenon
<1> QED  BY <1>1, <1>2, <1>3, <1>4, GrownRead

LEMMA SingleRead ==
  ASSUME TreeInv, TreeInv', CollectInv, GatherInv, ReadInv,
         NEW type \in {"heading", "code_block", "paragraph", "table", "thematic_break"},
         NEW text \in Seq(Byte), Single(type, text)
  PROVE  ReadInv'
<1>1. type \in NodeType \ {"document", "sentence", "list_item"} /\ type # "section"
  BY DEF NodeType
<1>2. Grows /\ out'[Len(out) + 1].type # "section" /\ out'[Len(out) + 1].body = count + 1
  BY <1>1, SingleGrows
<1>3. open' = Joined(open, text) /\ loose' = IF Top.loose THEN Append(loose, count + 1) ELSE loose
  BY DEF Single
<1> QED  BY <1>2, <1>3, JoinRead

LEMMA ParaRead ==
  ASSUME TreeInv, TreeInv', CollectInv, GatherInv, ReadInv,
         NEW len \in 0 .. MaxText, NEW ends \in Tilings(len), Para(len, ends)
  PROVE  ReadInv'
<1>1. PICK text : text = Text(len)
  OBVIOUS
<1>2. text \in Seq(Byte)
  BY <1>1, TextIsBytes DEF TreeInv
<1>3. Grows /\ out'[Len(out) + 1].type # "section" /\ out'[Len(out) + 1].body = count + 1
  BY ParaGrows
<1>4. open' = Joined(open, text) /\ loose' = IF Top.loose THEN Append(loose, count + 1) ELSE loose
  BY <1>1 DEF Para
<1> QED  BY <1>2, <1>3, <1>4, JoinRead

\* What the loop and the node it is for know.
LEMMA OpenKnows ==
  ASSUME TreeInv, NEW met, NEW type \in Holder \ {"document"},
         NEW hasContent \in BOOLEAN, NEW holds \in {"blocks", "items"}, Open(met, type, hasContent, holds),
         NEW L, L = Len(out), NEW n, n = Len(open)
  PROVE  /\ out'[L + 1].body = IF hasContent THEN count + 1 ELSE NoBody
         /\ open'[n + 1].loose = (Top.loose /\ type = "section")
<1> DEFINE body == IF hasContent THEN count + 1 ELSE NoBody
           child == Child(type, counter, body, <<>>)
           frame == [node |-> Len(out) + 1, holds |-> holds, text |-> <<>>,
                     loose |-> Top.loose /\ type = "section"]
<1>1. out' = Append(out, child) /\ open' = Append(open, frame)
  BY DEF Open
<1>2. child.body = body
  BY DEF Child
<1>3. frame.loose = (Top.loose /\ type = "section")
  OBVIOUS
<1>4. out \in Seq(Node) /\ open \in Seq(Frame) /\ L \in Nat /\ n \in Nat
  BY DEF TreeInv, TypeOK
<1> HIDE DEF child, frame
<1>5. out'[L + 1] = child /\ open'[n + 1] = frame
  BY <1>1, <1>4
<1> QED  BY <1>2, <1>3, <1>5, Zenon

\* A node with children of its own is read through if it is a section, and else a block; only
\* the items of a list are neither, and those stand in one.
LEMMA OpenRead ==
  ASSUME TreeInv, TreeInv', CollectInv, GatherInv, ReadInv, NEW met, NEW type \in Holder \ {"document"},
         NEW hasContent \in BOOLEAN, NEW holds \in {"blocks", "items"}, Open(met, type, hasContent, holds),
         hasContent \/ type = "section" \/ met = "items"
  PROVE  ReadInv'
<1>1. PICK L, n : L = Len(out) /\ n = Len(open)
  OBVIOUS
<1>2. Grows /\ Len(open') = n + 1 /\ out'[L + 1].type = type /\ \A k \in Frames : open'[k] = open[k]
  BY <1>1, OpenGrows
<1>3. /\ out'[L + 1].body = IF hasContent THEN count + 1 ELSE NoBody
      /\ open'[n + 1].loose = (Top.loose /\ type = "section")
  BY <1>1, OpenKnows
<1>4. /\ Top.holds = met /\ n \in Frames /\ Top = open[n] /\ count + 1 # NoBody
      /\ loose' = IF Top.loose /\ type # "section" THEN Append(loose, count + 1) ELSE loose
  BY <1>1, TreeShape DEF Open, Meet, TreeInv, TypeOK, NoBody
<1>5. met = "items" => ~Walked(Top.node)
  BY <1>4 DEF CollectInv, OpenChain, IsList, Walked, Through
<1>6. Top.loose => Walked(Top.node)
  BY <1>4, TopKnows DEF ReadInv, AllWalked
<1>7. loose' = IF Top.loose /\ out'[L + 1].type # "section"
               THEN Append(loose, out'[L + 1].body) ELSE loose
  BY <1>2, <1>3, <1>4, <1>5, <1>6
<1>8. out'[L + 1].body = NoBody => out'[L + 1].type = "section" \/ ~Walked(Top.node)
  BY <1>2, <1>3, <1>4, <1>5
<1> QED  BY <1>1, <1>2, <1>3, <1>7, <1>8, GrownRead

\* Leaving a node gives it a text, which a reader does not look at.
LEMMA CloseRead ==
  ASSUME TreeInv, TreeInv', CollectInv, ReadInv, Close
  PROVE  ReadInv'
<1>1. PICK L, n, c0, p, text : /\ L = Len(out) /\ n = Len(open) /\ c0 = open[n].node
                               /\ p = open[n - 1].node /\ text = TextOf(open[n])
  BY Zenon
<1>2. /\ L \in Nat \ {0} /\ n \in Nat /\ n > 1 /\ Frames = 1 .. n
      /\ Len(out') = L
      /\ \A i \in 1 .. L : out'[i].type = out[i].type /\ out'[i].par = out[i].par /\ out'[i].body = out[i].body
      /\ Len(open') = n - 1 /\ \A k \in 1 .. n - 2 : open'[k] = open[k]
      /\ open'[n - 1].node = p /\ text \in Seq(Byte)
  <2>1. Leaves(L, n, c0, p, text)
    BY <1>1, CloseParts DEF CollectInv
  <2> QED  BY <2>1 DEF Leaves
<1>3. \A i \in 1 .. L : Ancestors'[i] = Ancestors[i]
  <2>1. ParentsFirst /\ ParentsFirst'
    <3>1. ParentsFirst'
      BY TreeShape, PTL
    <3> QED  BY <3>1, TreeShape
  <2> QED  BY <1>1, <1>2, <2>1, AncestorsStay
<1>4. \A i \in 1 .. L : Walked(i)' <=> Walked(i)
  BY <1>2 DEF Walked, Through
<1>5. \A i \in 1 .. L : Outer(i)' <=> Outer(i)
  <2>1. \A i \in 1 .. L : \A a \in Ancestors[i] : a \in 1 .. L
    BY <1>1, <1>2, TreeShape DEF AncestorsOrdered
  <2> QED  BY <1>3, <1>4, <2>1 DEF Outer
<1>6. OuterTree' = OuterTree
  BY <1>1, <1>2, <1>4, <1>5 DEF OuterTree
<1>7. \A k \in 1 .. n - 1 : open'[k].node = open[k].node /\ open'[k].loose = open[k].loose
  <2>1. \A k \in 1 .. n - 1 : k \in 1 .. n - 2 \/ k = n - 1
    BY <1>2
  <2>2. open'[n - 1].loose = open[n - 1].loose
    <3> DEFINE rest == SubSeq(open, 1, n - 1)
    <3>1. open \in Seq(Frame)
      BY DEF TreeInv, TypeOK
    <3>2. rest \in Seq(Frame) /\ Len(rest) = n - 1 /\ rest[n - 1] = open[n - 1]
      BY <1>1, <1>2, <3>1
    <3>3. open' = Joined(rest, text)
      BY <1>1, TreeShape DEF Close
    <3> HIDE DEF rest
    <3>4. n - 1 # 0 /\ n - 1 \in 1 .. n - 1
      BY <1>2
    <3>5. open'[n - 1].loose = rest[n - 1].loose
      BY <1>2, <3>2, <3>3, <3>4, JoinedFrames
    <3> QED  BY <3>2, <3>5
  <2> QED  BY <1>1, <1>2, <2>1, <2>2
<1>8. LooseFrames'
  <2>1. Frames' = 1 .. n - 1
    BY <1>2 DEF Frames
  <2>2. ASSUME NEW k \in 1 .. n - 1
        PROVE  open'[k].loose <=> \A j \in 1 .. k : Through(out'[open'[j].node])
    <3>1. k \in Frames /\ \A j \in 1 .. k : j \in 1 .. n - 1 /\ j \in Frames
      BY <1>2
    <3>2. ASSUME NEW j \in 1 .. k PROVE Through(out'[open'[j].node]) <=> Walked(open[j].node)
      <4>1. PICK c : c = open[j].node
        OBVIOUS
      <4>2. c \in 1 .. L /\ open'[j].node = c
        BY <1>1, <1>7, <3>1, <4>1, TreeShape
      <4>3. out'[c].type = out[c].type
        BY <1>2, <4>2
      <4> QED  BY <4>1, <4>2, <4>3 DEF Walked, Through
    <3> QED  BY <1>7, <3>1, <3>2 DEF ReadInv, LooseFrames
  <2> QED  BY <2>1, <2>2 DEF LooseFrames, Walked
<1>9. BodiesKept'
  <2> SUFFICES ASSUME NEW i \in 2 .. L, out'[i].body = NoBody
               PROVE  out'[i].type = "section" \/ ~ Through(out'[out'[i].par])
    BY <1>2 DEF BodiesKept, Walked
  <2>1. i \in 1 .. L /\ i \in 2 .. Len(out) /\ out[i].par \in 1 .. L
    BY <1>1, <1>2, TreeShape DEF ParentsFirst
  <2>2. out'[i].type = out[i].type /\ out'[i].par = out[i].par /\ out'[i].body = out[i].body
        /\ out'[out[i].par].type = out[out[i].par].type
    BY <1>2, <2>1
  <2> QED  BY <2>1, <2>2 DEF ReadInv, BodiesKept, Walked, Through
<1> QED  BY <1>6, <1>8, <1>9 DEF ReadInv, Close

\* Steps that leave the tree and the loops alone.
LEMMA SameRead == ASSUME ReadInv, UNCHANGED <<out, open, loose>> PROVE ReadInv'
<1>1. Ancestors' = Ancestors
  BY DEF Ancestors
<1>2. \A i : (Walked(i)' <=> Walked(i)) /\ (Outer(i)' <=> Outer(i))
  BY <1>1 DEF Walked, Through, Outer
<1>3. OuterTree' = OuterTree
  BY <1>2 DEF OuterTree
<1> QED  BY <1>2, <1>3 DEF ReadInv, LooseFrames, BodiesKept, Frames, Walked, Through

\* The document alone.
LEMMA InitRead == Init => ReadInv
<1> SUFFICES ASSUME Init PROVE ReadInv
  OBVIOUS
<1>1. /\ TreeInv /\ Len(out) = 1 /\ out[1].type = "document" /\ loose = <<>>
      /\ open[1].node = 1 /\ open[1].loose = TRUE /\ Frames = {1}
  BY InitTree DEF Init, Root, Frames
<1>2. Walked(1)
  BY <1>1 DEF Walked, Through
<1>3. LooseFrames
  BY <1>1, <1>2 DEF LooseFrames
<1>4. BodiesKept
  BY <1>1 DEF BodiesKept
<1>5. OuterWell
  BY <1>1, OuterIsWell
<1>6. PlainTexts(OuterTree)[1] = OuterTree[1].text
  <2>1. 1 \in 1 .. Len(OuterTree) /\ 1 + 1 .. Len(OuterTree) = {}
    BY <1>1, <1>5 DEF OuterWell
  <2> QED  BY <1>5, <2>1, LeafText DEF OuterWell
<1>7. OuterTree[1].text = <<>>
  BY <1>1, <1>2, <1>5 DEF OuterWell
<1> QED  BY <1>1, <1>3, <1>4, <1>6, <1>7 DEF ReadInv

\* Every step.
LEMMA NextRead == TreeInv /\ TreeInv' /\ CollectInv /\ GatherInv /\ ReadInv /\ [Next]_vars => ReadInv'
<1> SUFFICES ASSUME TreeInv, TreeInv', CollectInv, GatherInv, ReadInv, [Next]_vars PROVE ReadInv'
  OBVIOUS
<1>1. ASSUME NEW len \in 0 .. MaxText, NEW ends \in Tilings(len), Para(len, ends) PROVE ReadInv'
  BY <1>1, ParaRead
<1>2. ASSUME NEW len \in 0 .. MaxText,
             Header(len) \/ CodeBlock(len) \/ LineBlock(len) \/ RawBlock(len) \/ DefinitionList(len)
      PROVE  ReadInv'
  <2>1. Text(len) \in Seq(Byte)
    BY TextIsBytes DEF TreeInv
  <2>2. PICK type \in {"heading", "code_block", "paragraph"} : Single(type, Text(len))
    BY <1>2 DEF Header, CodeBlock, LineBlock, RawBlock, DefinitionList
  <2> QED  BY <2>1, <2>2, SingleRead
<1>3. CASE Table \/ HorizontalRule
  <2>1. PICK type \in {"table", "thematic_break"} : Single(type, <<>>)
    BY <1>3 DEF Table, HorizontalRule
  <2>2. <<>> \in Seq(Byte)
    OBVIOUS
  <2> QED  BY <2>1, <2>2, SingleRead
<1>4. CASE BlockQuote \/ List \/ Item \/ Div \/ Figure
  <2>1. PICK met, type, hasContent, holds :
           /\ type \in Holder \ {"document"} /\ hasContent \in BOOLEAN /\ holds \in {"blocks", "items"}
           /\ Open(met, type, hasContent, holds) /\ (hasContent \/ type = "section" \/ met = "items")
    BY <1>4, Zenon DEF BlockQuote, List, Item, Div, Figure, Holder
  <2> QED  BY <2>1, OpenRead
<1>5. CASE Null
  BY <1>5, SameRead DEF Null
<1>6. CASE Close
  BY <1>6, CloseRead
<1>7. CASE Finish
  BY <1>7, SameRead DEF Finish
<1>8. CASE Done \/ UNCHANGED vars
  BY <1>8, SameRead DEF Done, vars
<1> QED  BY <1>1, <1>2, <1>3, <1>4, <1>5, <1>6, <1>7, <1>8 DEF Next

\* The invariant of what is read back.
THEOREM ReadInvariance == Spec => [](TreeInv /\ CollectInv /\ GatherInv /\ ReadInv)
<1>1. Init => TreeInv /\ CollectInv /\ GatherInv /\ ReadInv
  BY InitTree, InitCollect, InitGather, InitRead
<1>2. TreeInv /\ CollectInv /\ GatherInv /\ ReadInv /\ [Next]_vars => (TreeInv /\ CollectInv /\ GatherInv /\ ReadInv)'
  BY NextTree, NextCollect, NextGather, NextRead
<1> QED  BY <1>1, <1>2, PTL DEF Spec

-----------------------------------------------------------------------------
\* Rows read by position come in the order of the tree.
LEMMA PositionsRise ==
  ASSUME TreeInv
  PROVE  \A i, j \in 1 .. Len(out) : i < j => out[i].pos < out[j].pos
<1> SUFFICES ASSUME NEW i \in 1 .. Len(out) PROVE \A j \in 1 .. Len(out) : i < j => out[i].pos < out[j].pos
  OBVIOUS
<1> DEFINE Failing == {j \in 1 .. Len(out) : i < j /\ ~ (out[i].pos < out[j].pos)}
<1>1. /\ Len(out) \in Nat \ {0} /\ \A j \in 1 .. Len(out) : out[j].pos \in Nat
      /\ \A j \in 2 .. Len(out) : out[j - 1].pos < out[j].pos
  <2>1. \A j \in 1 .. Len(out) : out[j].pos \in Nat
    BY TreeShape DEF Node
  <2>2. \A j \in 2 .. Len(out) : out[j].pos > out[j - 1].pos
    BY DEF TreeInv, Storable
  <2> QED  BY <2>1, <2>2, TreeShape DEF ParentsFirst
<1>2. ASSUME Failing # {} PROVE FALSE
  <2>1. PICK j \in Failing : \A k \in Failing : j <= k
    <3>1. Failing \in SUBSET Nat
      OBVIOUS
    <3> HIDE DEF Failing
    <3> QED  BY <1>2, <3>1, LeastNumber
  <2>2. j \in 2 .. Len(out) /\ i <= j - 1 /\ ~ (j <= j - 1) /\ j - 1 \in 1 .. Len(out)
    BY <1>1, <2>1
  <2>3. j - 1 \notin Failing
    BY <2>1, <2>2
  <2>4. i = j - 1 \/ out[i].pos < out[j - 1].pos
    BY <2>2, <2>3
  <2>5. out[j - 1].pos < out[j].pos
    BY <1>1, <2>2
  <2> QED  BY <1>1, <2>1, <2>2, <2>4, <2>5
<1> QED  BY <1>2

\* How many of some numbers there are up to one of them.
Among(C, j) == {v \in C : v <= j}
Upto(C, j) == Cardinality(Among(C, j))

LEMMA UptoCounts ==
  ASSUME NEW L \in Nat, NEW C \in SUBSET (1 .. L)
  PROVE  /\ Cardinality(C) \in Nat
         /\ \A j \in 0 .. L : Upto(C, j) \in 0 .. Cardinality(C)
         /\ \A j \in 1 .. L : Upto(C, j) = Upto(C, j - 1) + (IF j \in C THEN 1 ELSE 0)
         /\ \A j, k \in 0 .. L : j <= k => Upto(C, j) <= Upto(C, k)
         /\ \A j \in 0 .. L : (\A v \in C : v > j) => Upto(C, j) = 0
         /\ Upto(C, L) = Cardinality(C)
<1>1. IsFiniteSet(C) /\ Cardinality(C) \in Nat
  <2>1. IsFiniteSet(1 .. L)
    BY FS_Interval
  <2>2. IsFiniteSet(C)
    BY <2>1, FS_Subset
  <2> QED  BY <2>2, FS_CardinalityType
<1>0. \A v \in C : v \in 1 .. L
  OBVIOUS
<1>2. ASSUME NEW j \in 0 .. L
      PROVE  IsFiniteSet(Among(C, j)) /\ Upto(C, j) \in 0 .. Cardinality(C)
  <2>1. Among(C, j) \in SUBSET C
    BY DEF Among
  <2>2. IsFiniteSet(Among(C, j)) /\ Cardinality(Among(C, j)) <= Cardinality(C)
    BY <1>1, <2>1, FS_Subset
  <2>3. Cardinality(Among(C, j)) \in Nat
    BY <2>2, FS_CardinalityType
  <2> QED  BY <1>1, <2>2, <2>3 DEF Upto
<1>3. ASSUME NEW j \in 1 .. L PROVE Upto(C, j) = Upto(C, j - 1) + (IF j \in C THEN 1 ELSE 0)
  <2>1. j - 1 \in 0 .. L /\ j \notin Among(C, j - 1)
    BY DEF Among
  <2>2. IF j \in C THEN Among(C, j) = Among(C, j - 1) \cup {j} ELSE Among(C, j) = Among(C, j - 1)
    <3>1. \A v \in C : v <= j <=> v <= j - 1 \/ v = j
      BY <1>0
    <3> QED  BY <3>1, Zenon DEF Among
  <2>3. IsFiniteSet(Among(C, j - 1)) /\ Upto(C, j - 1) \in Nat
    BY <1>2, <2>1
  <2>4. Upto(C, j) = Cardinality(Among(C, j)) /\ Upto(C, j - 1) = Cardinality(Among(C, j - 1))
    BY DEF Upto
  <2>5. CASE j \in C
    BY <2>1, <2>2, <2>3, <2>4, <2>5, FS_AddElement
  <2>6. CASE j \notin C
    BY <2>2, <2>3, <2>4, <2>6
  <2> QED  BY <2>5, <2>6
<1>4. ASSUME NEW j \in 0 .. L, NEW k \in 0 .. L, j <= k PROVE Upto(C, j) <= Upto(C, k)
  <2>1. Among(C, j) \in SUBSET Among(C, k)
    <3>1. \A v \in C : v <= j => v <= k
      BY <1>0, <1>4
    <3> QED  BY <3>1, Zenon DEF Among
  <2>2. IsFiniteSet(Among(C, k))
    BY <1>2
  <2>3. Upto(C, j) = Cardinality(Among(C, j)) /\ Upto(C, k) = Cardinality(Among(C, k))
    BY DEF Upto
  <2> QED  BY <2>1, <2>2, <2>3, FS_Subset
<1>5. ASSUME NEW j \in 0 .. L, \A v \in C : v > j PROVE Upto(C, j) = 0
  <2>1. Among(C, j) = {}
    <3>1. \A v \in C : ~ (v <= j)
      BY <1>0, <1>5
    <3> QED  BY <3>1, Zenon DEF Among
  <2> QED  BY <2>1, FS_EmptySet DEF Upto
<1>6. Upto(C, L) = Cardinality(C)
  <2>1. Among(C, L) = C
    <3>1. \A v \in C : v <= L
      BY <1>0
    <3> QED  BY <3>1, Zenon DEF Among
  <2> QED  BY <2>1 DEF Upto
<1> QED  BY <1>1, <1>2, <1>3, <1>4, <1>5, <1>6

\* Some rows, read by position: each comes where its number says.
LEMMA RowsInOrder ==
  ASSUME TreeInv, NEW C \in SUBSET (1 .. Len(out))
  PROVE  /\ Len(ByPosition(StoredRows, C)) = Cardinality(C)
         /\ \A j \in C : /\ Upto(C, j) \in 1 .. Cardinality(C)
                         /\ ByPosition(StoredRows, C)[Upto(C, j)] = j
<1> DEFINE L == Len(out)
           n == Cardinality(C)
           s == ByPosition(StoredRows, C)
<1>1. /\ L \in Nat /\ \A u \in C : u \in 1 .. L /\ u \in 0 .. L /\ u - 1 \in 0 .. L
  BY TreeShape DEF ParentsFirst
<1>2. ASSUME NEW u \in C, NEW v \in C PROVE Before(StoredRows, v, u) <=> v <= u - 1
  <2>1. u \in 1 .. L /\ v \in 1 .. L /\ StoredRows[u].pos = out[u].pos /\ StoredRows[v].pos = out[v].pos
        /\ out[u].pos \in Nat /\ out[v].pos \in Nat
    <3>1. u \in DOMAIN out /\ v \in DOMAIN out /\ out[u] \in Node /\ out[v] \in Node
      BY <1>1, TreeShape DEF TreeInv, TypeOK
    <3> QED  BY <1>1, <3>1 DEF StoredRows, Node
  <2>2. /\ u < v => out[u].pos < out[v].pos
        /\ v < u => out[v].pos < out[u].pos
    BY <2>1, PositionsRise
  <2> QED  BY <2>1, <2>2 DEF Before
<1>3. \A u \in C : Cardinality({v \in C : Before(StoredRows, v, u)}) = Upto(C, u - 1)
  <2>1. \A u \in C : {v \in C : Before(StoredRows, v, u)} = {v \in C : v <= u - 1}
    BY <1>2
  <2> QED  BY <2>1, Zenon DEF Upto, Among
<1>4. /\ n \in Nat
      /\ \A j \in 0 .. L : Upto(C, j) \in 0 .. n
      /\ \A j \in 1 .. L : Upto(C, j) = Upto(C, j - 1) + (IF j \in C THEN 1 ELSE 0)
      /\ \A j, k \in 0 .. L : j <= k => Upto(C, j) <= Upto(C, k)
  BY <1>1, UptoCounts
<1>5. ASSUME NEW j \in C PROVE Upto(C, j - 1) = Upto(C, j) - 1 /\ Upto(C, j) \in 1 .. n
  BY <1>1, <1>4
<1>6. ASSUME NEW u \in C, NEW w \in C, u < w PROVE Upto(C, u - 1) # Upto(C, w - 1)
  <2>1. u <= w - 1
    BY <1>1, <1>6
  <2>2. Upto(C, u) <= Upto(C, w - 1)
    BY <1>1, <1>4, <2>1
  <2>3. Upto(C, u - 1) = Upto(C, u) - 1 /\ Upto(C, u) \in Nat
    BY <1>5, <1>4
  <2> QED  BY <1>1, <1>4, <2>2, <2>3
<1>7. \A u, w \in C : Upto(C, u - 1) = Upto(C, w - 1) => u = w
  BY <1>1, <1>6
<1>8. s = [k \in 1 .. n |-> CHOOSE u \in C : Cardinality({v \in C : Before(StoredRows, v, u)}) = k - 1]
  BY Zenon DEF ByPosition
<1> HIDE DEF s, n
<1>9. ASSUME NEW j \in C PROVE s[Upto(C, j)] = j
  <2>1. PICK k : k = Upto(C, j)
    OBVIOUS
  <2>2. k \in 1 .. n /\ Upto(C, j - 1) = k - 1
    BY <1>5, <2>1
  <2>3. s[k] = CHOOSE u \in C : Cardinality({v \in C : Before(StoredRows, v, u)}) = k - 1
    BY <1>8, <2>2
  <2>4. s[k] \in C /\ Cardinality({v \in C : Before(StoredRows, v, s[k])}) = k - 1
    BY <1>3, <2>2, <2>3
  <2>5. Upto(C, s[k] - 1) = k - 1
    BY <1>3, <2>4
  <2> QED  BY <1>7, <2>1, <2>2, <2>4, <2>5
<1>10. Len(s) = n
  BY <1>4, <1>8
<1> QED  BY <1>5, <1>9, <1>10 DEF s, n

-----------------------------------------------------------------------------
\* Flattening a sequence of sequences joins them one after the other.
Parts(s, N) == Len(s) = N /\ s = [k \in 1 .. N |-> s[k]] /\ \A k \in 1 .. N : s[k] \in Seq(Piece)

LEMMA FlattenJoins ==
  ASSUME NEW N \in Nat, NEW s, Parts(s, N)
  PROVE  \E f : f[0] = <<>> /\ FlattenSeq(s) = f[N] /\ \A k \in 1 .. N : f[k] = f[k - 1] \o s[k]
<1>0. Len(s) = N /\ s = [k \in 1 .. N |-> s[k]] /\ \A k \in 1 .. N : s[k] \in Seq(Piece)
  BY DEF Parts
<1>1. CASE N = 0
  <2> DEFINE f == [k \in {0} |-> <<>>]
  <2>1. s = <<>>
    BY <1>0, <1>1
  <2>2. FlattenSeq(s) = <<>>
    BY <1>0, <1>1, <2>1 DEF FlattenSeq
  <2>3. f[0] = <<>> /\ \A k \in 1 .. N : f[k] = f[k - 1] \o s[k]
    BY <1>1
  <2> HIDE DEF f
  <2> QED  BY <1>1, <2>2, <2>3
<1>2. CASE N # 0
  <2> DEFINE t == [j \in 1 .. N + 1 |-> [par |-> 1]]
             of == [j \in 1 .. N + 1 |-> s[j - 1]]
             up == ChildTexts(t, of, 1)
             Flattens(g) == g = [i \in 1 .. N |-> IF i = 1 THEN s[i] ELSE g[i - 1] \o s[i]]
  <2>1. Len(t) = N + 1 /\ Len(t) \in Nat /\ 1 \in 1 .. Len(t) /\ \A j \in 2 .. N + 1 : Part(t, of, 1, j) = s[j - 1]
    BY DEF Part
  <2>2. up[1] = <<>> /\ \A j \in 1 + 1 .. N + 1 : up[j] = up[j - 1] \o Part(t, of, 1, j)
    <3> HIDE DEF t, of
    <3>1. up[1] = <<>> /\ \A j \in 1 + 1 .. Len(t) : up[j] = up[j - 1] \o Part(t, of, 1, j)
      BY <2>1, UpTo
    <3> QED  BY <2>1, <3>1
  <2> HIDE DEF t, of, up
  <2>3. \A i \in 1 .. N : up[i + 1] = up[i] \o s[i]
    <3> SUFFICES ASSUME NEW i \in 1 .. N PROVE up[i + 1] = up[i] \o s[i]
      OBVIOUS
    <3>1. i + 1 \in 2 .. N + 1 /\ i + 1 \in 1 + 1 .. N + 1 /\ (i + 1) - 1 = i
      OBVIOUS
    <3>2. up[i + 1] = up[(i + 1) - 1] \o Part(t, of, 1, i + 1) /\ Part(t, of, 1, i + 1) = s[(i + 1) - 1]
      BY <2>1, <2>2, <3>1
    <3> QED  BY <3>1, <3>2
  <2>4. <<>> \o s[1] = s[1]
    <3>1. s[1] \in Seq(Piece)
      BY <1>0, <1>2
    <3> QED  BY <3>1, ConcatEmptySeq
  <2> DEFINE g == [i \in 1 .. N |-> up[i + 1]]
  <2>5. Flattens(g)
    <3> DEFINE h == [i \in 1 .. N |-> IF i = 1 THEN s[i] ELSE g[i - 1] \o s[i]]
    <3>1. ASSUME NEW i \in 1 .. N PROVE g[i] = h[i]
      <4>1. g[i] = up[i] \o s[i]
        BY <2>3
      <4>2. i = 1 \/ (i - 1 \in 1 .. N /\ (i - 1) + 1 = i)
        OBVIOUS
      <4>3. i = 1 => up[i] = <<>>
        BY <2>2
      <4>4. i # 1 => g[i - 1] = up[i]
        BY <4>2
      <4>5. h[i] = IF i = 1 THEN s[i] ELSE g[i - 1] \o s[i]
        OBVIOUS
      <4> HIDE DEF g, h
      <4> QED  BY <2>4, <4>1, <4>2, <4>3, <4>4, <4>5
    <3> QED  BY <3>1
  <2> HIDE DEF g
  <2> DEFINE c == CHOOSE c : Flattens(c)
  <2>6. Flattens(c)
    BY <2>5
  <2>7. FlattenSeq(s) = c[N]
    BY <1>0, <1>2, Zenon DEF FlattenSeq
  <2> HIDE DEF c
  <2> DEFINE f == [k \in 0 .. N |-> IF k = 0 THEN <<>> ELSE c[k]]
  <2>8. f[0] = <<>> /\ \A k \in 1 .. N : f[k] = c[k]
    OBVIOUS
  <2> HIDE DEF f
  <2>9. ASSUME NEW k \in 1 .. N PROVE f[k] = f[k - 1] \o s[k]
    <3>1. c[k] = IF k = 1 THEN s[k] ELSE c[k - 1] \o s[k]
      BY <2>6
    <3>2. CASE k = 1
      <4>1. k - 1 = 0 /\ f[k] = s[1]
        BY <2>8, <3>1, <3>2
      <4> QED  BY <2>4, <2>8, <3>2, <4>1
    <3>3. CASE k # 1
      <4>1. k - 1 \in 1 .. N
        BY <3>3
      <4>2. f[k] = c[k] /\ f[k - 1] = c[k - 1]
        BY <2>8, <4>1
      <4> QED  BY <3>1, <3>3, <4>2
    <3> QED  BY <3>2, <3>3
  <2>10. FlattenSeq(s) = f[N]
    BY <1>2, <2>7, <2>8
  <2> QED  BY <2>8, <2>9, <2>10
<1> QED  BY <1>1, <1>2

\* The children's texts, in the order of their numbers, are what is joined of them.
Lists(t, of, i, C, s) ==
  /\ C = {j \in i + 1 .. Len(t) : t[j].par = i}
  /\ Parts(s, Cardinality(C))
  /\ \A j \in C : s[Upto(C, j)] = of[j]

LEMMA JoinedInOrder ==
  ASSUME NEW t, Len(t) \in Nat, NEW of, NEW i \in 1 .. Len(t), NEW C, NEW s, Lists(t, of, i, C, s),
         \A j \in i + 1 .. Len(t) : of[j] \in Seq(Piece)
  PROVE  FlattenSeq(s) = ChildTexts(t, of, i)[Len(t)]
<1> DEFINE L == Len(t)
           N == Cardinality(C)
           up == ChildTexts(t, of, i)
<1>1. /\ C \in SUBSET (1 .. L) /\ L \in Nat /\ i \in 1 .. L /\ \A v \in C : v > i
      /\ \A j \in i + 1 .. L : j \in C <=> t[j].par = i
  BY DEF Lists
<1>0. /\ Parts(s, N)
      /\ \A j \in C : s[Upto(C, j)] = of[j] /\ j \in i + 1 .. L
  BY DEF Lists
<1>2. /\ N \in Nat /\ \A j \in 0 .. L : Upto(C, j) \in 0 .. N
      /\ \A j \in 1 .. L : Upto(C, j) = Upto(C, j - 1) + (IF j \in C THEN 1 ELSE 0)
      /\ \A j \in 0 .. L : (\A v \in C : v > j) => Upto(C, j) = 0
      /\ Upto(C, L) = N
  BY <1>1, UptoCounts, Zenon
<1>3. PICK f : f[0] = <<>> /\ FlattenSeq(s) = f[N] /\ \A k \in 1 .. N : f[k] = f[k - 1] \o s[k]
  BY <1>0, <1>2, FlattenJoins, ZenonT(40)
<1>4. /\ up[i] = <<>> /\ \A j \in i + 1 .. L : up[j] = up[j - 1] \o Part(t, of, i, j)
      /\ \A j \in i .. L : up[j] \in Seq(Piece)
  BY UpTo, UpToBytes
<1> HIDE DEF up, N
<1> DEFINE Failing == {j \in i .. L : f[Upto(C, j)] # up[j]}
<1>5. ASSUME Failing # {} PROVE FALSE
  <2>1. PICK j \in Failing : \A k \in Failing : j <= k
    <3>1. Failing \in SUBSET Nat
      OBVIOUS
    <3> HIDE DEF Failing
    <3> QED  BY <1>5, <3>1, LeastNumber
  <2>2. j # i
    <3>1. i \in 0 .. L /\ \A v \in C : v > i
      BY <1>1
    <3>2. Upto(C, i) = 0
      BY <1>2, <3>1
    <3> QED  BY <1>3, <1>4, <2>1, <3>2
  <2>3. j \in i + 1 .. L /\ j \in 1 .. L /\ j - 1 \in i .. L /\ ~ (j <= j - 1) /\ j \in 0 .. L /\ j - 1 \in 0 .. L
    BY <2>1, <2>2
  <2>4. f[Upto(C, j - 1)] = up[j - 1]
    <3>1. j - 1 \notin Failing
      BY <2>1, <2>3
    <3> QED  BY <2>3, <3>1
  <2>5. up[j] = up[j - 1] \o Part(t, of, i, j) /\ up[j - 1] \in Seq(Piece)
    BY <1>4, <2>3
  <2>6. CASE j \in C
    <3>1. PICK k : k = Upto(C, j)
      OBVIOUS
    <3>2. k \in 1 .. N /\ Upto(C, j - 1) = k - 1
      <4>1. Upto(C, j) = Upto(C, j - 1) + 1 /\ Upto(C, j) \in 0 .. N /\ Upto(C, j - 1) \in 0 .. N
        BY <1>2, <2>3, <2>6, Zenon
      <4> QED  BY <1>2, <3>1, <4>1
    <3>3. f[k] = f[k - 1] \o s[k] /\ s[k] = of[j]
      BY <1>0, <1>3, <2>6, <3>1, <3>2
    <3>4. Part(t, of, i, j) = of[j]
      BY <1>1, <2>3, <2>6 DEF Part
    <3> QED  BY <2>1, <2>4, <2>5, <3>1, <3>2, <3>3, <3>4
  <2>7. CASE j \notin C
    <3>1. Upto(C, j) = Upto(C, j - 1)
      <4>1. Upto(C, j) = Upto(C, j - 1) + 0 /\ Upto(C, j - 1) \in 0 .. N
        BY <1>2, <2>3, <2>7, Zenon
      <4> QED  BY <1>2, <4>1
    <3>2. Part(t, of, i, j) = <<>>
      BY <1>1, <2>3, <2>7 DEF Part
    <3>3. up[j - 1] \o <<>> = up[j - 1]
      BY <2>5, ConcatEmptySeq
    <3> QED  BY <2>1, <2>4, <2>5, <3>1, <3>2, <3>3
  <2> QED  BY <2>6, <2>7
<1>6. L \in i .. L
  OBVIOUS
<1>7. f[Upto(C, L)] = up[L]
  BY <1>5, <1>6
<1> QED  BY <1>2, <1>3, <1>7 DEF up

\* Each number up to how many there are is reached at one of them.
LEMMA UptoReaches ==
  ASSUME NEW L \in Nat, NEW C \in SUBSET (1 .. L), NEW k \in 1 .. Cardinality(C)
  PROVE  \E j \in C : Upto(C, j) = k
<1>1. /\ Cardinality(C) \in Nat
      /\ \A j \in 0 .. L : Upto(C, j) \in 0 .. Cardinality(C)
      /\ \A j \in 1 .. L : Upto(C, j) = Upto(C, j - 1) + (IF j \in C THEN 1 ELSE 0)
      /\ Upto(C, 0) = 0 /\ Upto(C, L) = Cardinality(C)
  <2>1. 0 \in 0 .. L /\ \A v \in C : v > 0
    OBVIOUS
  <2>2. /\ Cardinality(C) \in Nat
        /\ \A j \in 0 .. L : Upto(C, j) \in 0 .. Cardinality(C)
        /\ \A j \in 1 .. L : Upto(C, j) = Upto(C, j - 1) + (IF j \in C THEN 1 ELSE 0)
        /\ \A j \in 0 .. L : (\A v \in C : v > j) => Upto(C, j) = 0
        /\ Upto(C, L) = Cardinality(C)
    BY UptoCounts, Zenon
  <2> QED  BY <2>1, <2>2
<1> DEFINE Far == {j \in 0 .. L : k <= Upto(C, j)}
<1>2. PICK j \in Far : \A m \in Far : j <= m
  <2>1. L \in Far
    BY <1>1
  <2>2. Far \in SUBSET Nat
    OBVIOUS
  <2> HIDE DEF Far
  <2> QED  BY <2>1, <2>2, LeastNumber
<1>3. j \in 1 .. L /\ j - 1 \in 0 .. L /\ ~ (j <= j - 1)
  <2>1. j # 0
    BY <1>1, <1>2
  <2> QED  BY <1>2, <2>1
<1>4. ~ (k <= Upto(C, j - 1)) /\ k <= Upto(C, j)
  <2>1. j - 1 \notin Far
    BY <1>2, <1>3
  <2> QED  BY <1>2, <1>3, <2>1
<1>5. Upto(C, j) \in Nat /\ Upto(C, j - 1) \in Nat
      /\ Upto(C, j) = Upto(C, j - 1) + (IF j \in C THEN 1 ELSE 0)
  <2>1. j \in 0 .. L
    BY <1>3
  <2>2. Upto(C, j) \in 0 .. Cardinality(C) /\ Upto(C, j - 1) \in 0 .. Cardinality(C)
    BY <1>1, <1>3, <2>1
  <2> QED  BY <1>1, <1>3, <2>2
<1> QED  BY <1>4, <1>5

-----------------------------------------------------------------------------
\* The recursion of build_block_list over the stored tree.
ReadAt(f, p) ==
  FlattenSeq([k \in 1 .. Len(ChildRows(StoredRows, p)) |->
                BlocksAt(StoredRows, StoredFiles, f, ChildRows(StoredRows, p)[k])])
Kids(p) == {j \in p + 1 .. Len(out) : out[j].par = p}

\* The children of a node stand behind it, and are read in the order of the tree.
LEMMA KidsInOrder ==
  ASSUME TreeInv, NEW p \in 1 .. Len(out), NEW N, N = Cardinality(Kids(p))
  PROVE  /\ Kids(p) \in SUBSET (1 .. Len(out)) /\ N \in Nat
         /\ Len(ChildRows(StoredRows, p)) = N
         /\ \A j \in Kids(p) : Upto(Kids(p), j) \in 1 .. N /\ ChildRows(StoredRows, p)[Upto(Kids(p), j)] = j
         /\ \A k \in 1 .. N : ChildRows(StoredRows, p)[k] \in Kids(p)
<1>1. /\ Len(out) \in Nat /\ out[1].par = 0 /\ \A i \in 2 .. Len(out) : out[i].par \in 1 .. i - 1
      /\ DOMAIN out = 1 .. Len(out)
  BY TreeShape DEF ParentsFirst, TreeInv, Storable, TypeOK
<1>2. Children(StoredRows, p) = Kids(p)
  <2>1. DOMAIN StoredRows = 1 .. Len(out) /\ \A i \in 1 .. Len(out) : StoredRows[i].parent = out[i].par
    BY <1>1 DEF StoredRows
  <2>2. \A i \in 1 .. Len(out) : out[i].par = p => i \in p + 1 .. Len(out)
    <3> SUFFICES ASSUME NEW i \in 1 .. Len(out), out[i].par = p PROVE i \in p + 1 .. Len(out)
      OBVIOUS
    <3>1. i # 1
      BY <1>1
    <3>2. i \in 2 .. Len(out)
      BY <1>1, <3>1
    <3> QED  BY <1>1, <3>2
  <2>3. \A i \in p + 1 .. Len(out) : i \in 1 .. Len(out)
    BY <1>1
  <2> HIDE DEF StoredRows
  <2> QED  BY <2>1, <2>2, <2>3 DEF Children, Kids
<1>3. Kids(p) \in SUBSET (1 .. Len(out))
  BY <1>1 DEF Kids
<1>4. N \in Nat
  BY <1>1, <1>3, UptoCounts
<1>5. /\ Len(ChildRows(StoredRows, p)) = N
      /\ \A j \in Kids(p) : Upto(Kids(p), j) \in 1 .. N /\ ChildRows(StoredRows, p)[Upto(Kids(p), j)] = j
  <2>1. ChildRows(StoredRows, p) = ByPosition(StoredRows, Kids(p))
    BY <1>2 DEF ChildRows
  <2> QED  BY <1>3, <2>1, RowsInOrder
<1>6. ASSUME NEW k \in 1 .. N PROVE ChildRows(StoredRows, p)[k] \in Kids(p)
  <2>1. PICK j \in Kids(p) : Upto(Kids(p), j) = k
    BY <1>1, <1>3, UptoReaches
  <2> QED  BY <1>5, <2>1
<1> QED  BY <1>3, <1>4, <1>5, <1>6

\* What is read below a node depends on what is read below its children.
LEMMA ReadAtSame ==
  ASSUME TreeInv, NEW p \in 1 .. Len(out), NEW f, NEW h, \A j \in Kids(p) : f[j] = h[j]
  PROVE  ReadAt(f, p) = ReadAt(h, p)
<1>1. \A k \in 1 .. Len(ChildRows(StoredRows, p)) : ChildRows(StoredRows, p)[k] \in Kids(p)
  BY KidsInOrder
<1>2. \A k \in 1 .. Len(ChildRows(StoredRows, p)) :
        BlocksAt(StoredRows, StoredFiles, f, ChildRows(StoredRows, p)[k])
          = BlocksAt(StoredRows, StoredFiles, h, ChildRows(StoredRows, p)[k])
  BY <1>1, Zenon DEF BlocksAt
<1>3. [k \in 1 .. Len(ChildRows(StoredRows, p)) |->
          BlocksAt(StoredRows, StoredFiles, f, ChildRows(StoredRows, p)[k])]
        = [k \in 1 .. Len(ChildRows(StoredRows, p)) |->
             BlocksAt(StoredRows, StoredFiles, h, ChildRows(StoredRows, p)[k])]
  BY <1>2, Zenon
<1> QED  BY <1>3, Zenon DEF ReadAt

\* It is joined of what the children give, in the order of their numbers.
LEMMA ReadAtJoins ==
  ASSUME TreeInv, NEW p \in 1 .. Len(out), NEW f, NEW of,
         \A j \in 1 .. Len(out) : of[j] \in Seq(Piece),
         \A j \in Kids(p) : of[j] = BlocksAt(StoredRows, StoredFiles, f, j)
  PROVE  ReadAt(f, p) = ChildTexts(out, of, p)[Len(out)]
<1>1. PICK N, kids : N = Cardinality(Kids(p)) /\ kids = ChildRows(StoredRows, p)
  OBVIOUS
<1>2. /\ Kids(p) \in SUBSET (1 .. Len(out)) /\ N \in Nat /\ Len(kids) = N
      /\ \A j \in Kids(p) : Upto(Kids(p), j) \in 1 .. N /\ kids[Upto(Kids(p), j)] = j
      /\ \A k \in 1 .. N : kids[k] \in Kids(p)
  BY <1>1, KidsInOrder
<1> DEFINE s == [k \in 1 .. N |-> BlocksAt(StoredRows, StoredFiles, f, kids[k])]
<1>3. ReadAt(f, p) = FlattenSeq(s)
  BY <1>1, <1>2, Zenon DEF ReadAt
<1>4. \A k \in 1 .. N : s[k] = of[kids[k]] /\ s[k] \in Seq(Piece)
  BY <1>2
<1>5. Len(s) = N /\ s = [k \in 1 .. N |-> s[k]]
  BY <1>2
<1> HIDE DEF s
<1>6. Parts(s, N)
  BY <1>4, <1>5, Zenon DEF Parts
<1>7. \A j \in Kids(p) : s[Upto(Kids(p), j)] = of[j]
  BY <1>2, <1>4
<1>8. Lists(out, of, p, Kids(p), s)
  BY <1>1, <1>6, <1>7, Zenon DEF Lists, Kids
<1>9. Len(out) \in Nat /\ \A j \in p + 1 .. Len(out) : of[j] \in Seq(Piece)
  BY TreeShape DEF ParentsFirst
<1>10. FlattenSeq(s) = ChildTexts(out, of, p)[Len(out)]
  BY <1>8, <1>9, JoinedInOrder
<1> QED  BY <1>3, <1>10

\* There is a function that reads every node: it is built from the last one to the first.
Reading(f) == f = [p \in 1 .. Len(out) |-> ReadAt(f, p)]

LEMMA ReadingExists == ASSUME TreeInv PROVE \E f : Reading(f)
<1> DEFINE ReadsLast(m, f) ==
             /\ f = [p \in 1 .. Len(out) |-> f[p]]
             /\ \A p \in 1 .. Len(out) : Len(out) < p + m => f[p] = ReadAt(f, p)
           Failing == {m \in Nat : ~ \E f : ReadsLast(m, f)}
<1>1. Len(out) \in Nat
  BY TreeShape DEF ParentsFirst
<1>2. ASSUME Failing # {} PROVE FALSE
  <2>1. PICK m \in Failing : \A k \in Failing : m <= k
    <3>1. Failing \in SUBSET Nat
      OBVIOUS
    <3> HIDE DEF Failing
    <3> QED  BY <1>2, <3>1, LeastNumber
  <2>2. m \in Nat /\ ~ \E f : ReadsLast(m, f)
    BY <2>1
  <2>3. CASE m = 0
    <3> DEFINE f == [p \in 1 .. Len(out) |-> <<>>]
    <3>1. f = [p \in 1 .. Len(out) |-> f[p]]
      OBVIOUS
    <3>2. \A p \in 1 .. Len(out) : ~ (Len(out) < p + m)
      BY <1>1, <2>3
    <3> HIDE DEF f
    <3>3. ReadsLast(m, f)
      BY <3>1, <3>2
    <3> QED  BY <2>2, <3>3
  <2>4. CASE m # 0
    <3>1. m - 1 \in Nat /\ ~ (m <= m - 1)
      BY <2>2, <2>4
    <3>2. PICK f : ReadsLast(m - 1, f)
      BY <2>1, <3>1
    <3> DEFINE h == [p \in 1 .. Len(out) |-> IF p + m = Len(out) + 1 THEN ReadAt(f, p) ELSE f[p]]
    <3>3. h = [p \in 1 .. Len(out) |-> h[p]]
      OBVIOUS
    <3>4. \A p \in 1 .. Len(out) : /\ p + m = Len(out) + 1 => h[p] = ReadAt(f, p)
                                   /\ p + m # Len(out) + 1 => h[p] = f[p]
      OBVIOUS
    <3> HIDE DEF h
    <3>5. ASSUME NEW p \in 1 .. Len(out), Len(out) < p + m PROVE h[p] = ReadAt(h, p)
      <4>1. ASSUME NEW j \in Kids(p) PROVE f[j] = h[j]
        <5>1. j \in 1 .. Len(out) /\ p < j
          BY <1>1 DEF Kids
        <5>2. j + m # Len(out) + 1
          BY <1>1, <2>2, <3>5, <5>1
        <5> QED  BY <3>4, <5>1, <5>2
      <4>2. ReadAt(f, p) = ReadAt(h, p)
        BY <4>1, ReadAtSame
      <4>3. CASE p + m = Len(out) + 1
        BY <3>4, <4>2, <4>3
      <4>4. CASE p + m # Len(out) + 1
        <5>1. Len(out) < p + (m - 1)
          BY <1>1, <2>2, <3>5, <4>4
        <5>2. f[p] = ReadAt(f, p)
          BY <3>2, <5>1
        <5> QED  BY <3>4, <4>2, <4>4, <5>2
      <4> QED  BY <4>3, <4>4
    <3>6. ReadsLast(m, h)
      BY <3>3, <3>5
    <3> QED  BY <2>2, <3>6
  <2> QED  BY <2>3, <2>4
<1>3. PICK f : ReadsLast(Len(out) + 1, f)
  <2>1. Len(out) + 1 \in Nat
    BY <1>1
  <2>2. Len(out) + 1 \notin Failing
    BY <1>2
  <2> QED  BY <2>1, <2>2
<1>4. \A p \in 1 .. Len(out) : Len(out) < p + (Len(out) + 1)
  BY <1>1
<1>5. \A p \in 1 .. Len(out) : f[p] = ReadAt(f, p)
  BY <1>3, <1>4
<1>6. f = [p \in 1 .. Len(out) |-> f[p]]
  BY <1>3
<1>7. [p \in 1 .. Len(out) |-> f[p]] = [p \in 1 .. Len(out) |-> ReadAt(f, p)]
  BY <1>5, Zenon
<1>8. Reading(f)
  BY <1>6, <1>7, Zenon DEF Reading
<1> QED  BY <1>8

\* Of an outer node that is read through, it reads what is collected of the outer tree.
LEMMA ReadsOuter ==
  ASSUME TreeInv, BodiesKept, NEW f, Reading(f)
  PROVE  \A i \in 1 .. Len(out) : Outer(i) /\ Walked(i) => f[i] = PlainTexts(OuterTree)[i]
<1>1. PICK L, t, of : L = Len(out) /\ t = OuterTree /\ of = PlainTexts(OuterTree)
  OBVIOUS
<1>2. /\ Len(t) = L /\ L \in Nat \ {0} /\ Texted(t)
      /\ \A i \in 1 .. L : /\ t[i].par = IF Outer(i) THEN out[i].par ELSE 0
                           /\ t[i].text = IF Outer(i) /\ ~Walked(i) THEN <<out[i].body>> ELSE <<>>
  BY <1>1, OuterIsWell DEF OuterWell
<1>3. Gathers(t, of) /\ \A i \in 1 .. L : of[i] \in Seq(Piece)
  BY <1>1, <1>2, PlainGathers, GatheredBytes
<1>4. \A i \in 1 .. L : f[i] = ReadAt(f, i)
  BY <1>1 DEF Reading
<1> DEFINE Failing == {i \in 1 .. L : Outer(i) /\ Walked(i) /\ f[i] # of[i]}
<1>5. ASSUME Failing # {} PROVE FALSE
  <2>1. PICK i \in Failing : \A k \in Failing : k <= i
    <3>1. Failing \in SUBSET (0 .. L) /\ L \in Nat
      BY <1>2
    <3> HIDE DEF Failing
    <3> QED  BY <1>5, <3>1, GreatestNumber
  <2>2. i \in 1 .. L /\ Outer(i) /\ Walked(i) /\ f[i] # of[i]
    BY <2>1
  <2>3. ASSUME NEW j \in Kids(i)
        PROVE  j \in 2 .. L /\ i < j /\ out[j].par = i /\ Outer(j)
    <3>1. j \in 2 .. L /\ i < j /\ out[j].par = i /\ j # 1 /\ j \in 1 .. Len(out)
      BY <1>1, <1>2, <2>2 DEF Kids
    <3>2. Ancestors[j] = IF j = 1 THEN {} ELSE {out[j].par} \cup Ancestors[out[j].par]
      BY <3>1, TreeShape, Zenon DEF AncestorsAre
    <3>3. Outer(j)
      BY <2>2, <3>1, <3>2 DEF Outer
    <3> QED  BY <3>1, <3>3
  <2>4. ASSUME NEW j \in Kids(i) PROVE of[j] = BlocksAt(StoredRows, StoredFiles, f, j)
    <3>1. j \in 2 .. L /\ j \in 1 .. L /\ i < j /\ out[j].par = i /\ Outer(j)
      BY <2>3
    <3>2. out[j].type # "document" /\ out[j].type # "sentence"
      <4>1. out[j].type # "document" /\ (out[j].type = "sentence" <=> out[i].type = "paragraph")
        BY <1>1, <3>1 DEF TreeInv, Storable
      <4> QED  BY <2>2, <4>1 DEF Walked, Through
    <3>3. /\ StoredRows[j].type = out[j].type /\ StoredFiles[j] = out[j].body
          /\ StoredRows[j].content <=> out[j].body # NoBody
      <4>1. j \in DOMAIN out
        BY <1>1, <3>1 DEF TreeInv, TypeOK
      <4> QED  BY <4>1 DEF StoredRows, StoredFiles
    <3>4. CASE Walked(j)
      <4>1. ReadThrough(StoredRows[j])
        BY <3>3, <3>4 DEF ReadThrough, Walked, Through
      <4>2. BlocksAt(StoredRows, StoredFiles, f, j) = f[j]
        BY <3>2, <3>3, <4>1 DEF BlocksAt
      <4>3. j \notin Failing
        BY <2>1, <2>2, <3>1
      <4>4. f[j] = of[j]
        BY <3>1, <3>4, <4>3
      <4> QED  BY <4>2, <4>4
    <3>5. CASE ~ Walked(j)
      <4>1. out[j].body # NoBody
        BY <1>1, <2>2, <3>1, <3>5 DEF BodiesKept, Walked, Through
      <4>2. ~ ReadThrough(StoredRows[j])
        BY <3>3, <3>5, <4>1 DEF ReadThrough, Walked, Through
      <4>3. BlocksAt(StoredRows, StoredFiles, f, j) = <<out[j].body>>
        BY <3>2, <3>3, <4>2 DEF BlocksAt
      <4>4. of[j] = t[j].text
        <5>1. ASSUME NEW k \in j + 1 .. L PROVE t[k].par # j
          <6>1. k \in 1 .. L /\ k # 1 /\ j # 0 /\ k \in 1 .. Len(out)
            BY <1>1, <1>2, <3>1
          <6>2. Ancestors[k] = IF k = 1 THEN {} ELSE {out[k].par} \cup Ancestors[out[k].par]
            BY <6>1, TreeShape, Zenon DEF AncestorsAre
          <6>3. out[k].par = j => ~ Outer(k)
            BY <3>5, <6>1, <6>2 DEF Outer
          <6> QED  BY <1>2, <6>1, <6>3
        <5> QED  BY <1>1, <1>2, <3>1, <5>1, LeafText
      <4>5. t[j].text = <<out[j].body>>
        BY <1>2, <3>1, <3>5
      <4> QED  BY <4>3, <4>4, <4>5
    <3> QED  BY <3>4, <3>5
  <2>5. f[i] = ChildTexts(out, of, i)[L]
    BY <1>1, <1>3, <1>4, <2>2, <2>4, ReadAtJoins
  <2>6. ChildTexts(out, of, i)[L] = ChildTexts(t, of, i)[L]
    <3>1. ASSUME NEW j \in i + 1 .. L PROVE Part(out, of, i, j) = Part(t, of, i, j)
      <4>1. j \in 1 .. L /\ i # 0
        BY <1>2, <2>2
      <4>2. out[j].par = i => j \in Kids(i)
        BY <1>1 DEF Kids
      <4>3. t[j].par = i <=> out[j].par = i
        BY <1>2, <2>3, <4>1, <4>2
      <4> QED  BY <4>3 DEF Part
    <3>2. L \in i .. L /\ L <= Len(t)
      BY <1>2, <2>2
    <3>3. \A j \in i .. L : ChildTexts(out, of, i)[j] = ChildTexts(t, of, i)[j]
      BY <1>1, <1>2, <2>2, <3>1, <3>2, UpToSame
    <3> QED  BY <3>2, <3>3
  <2>7. of[i] = OwnOr(t, of, i) /\ t[i].text = <<>>
    BY <1>2, <1>3, <2>2 DEF Gathers
  <2>8. of[i] = ChildTexts(t, of, i)[L]
    BY <1>2, <2>7 DEF OwnOr
  <2> QED  BY <2>2, <2>5, <2>6, <2>8
<1> QED  BY <1>1, <1>5

\* The root is the only row of its type, and what is read of it is what the walk has noted.
LEMMA ReadsLoose == ASSUME TreeInv, ReadInv PROVE ProjectDocument(StoredRows, StoredFiles) = loose
<1>1. /\ Len(out) \in Nat \ {0} /\ 1 \in 1 .. Len(out) /\ DOMAIN out = 1 .. Len(out)
      /\ out[1].type = "document" /\ \A i \in 2 .. Len(out) : out[i].type # "document"
  BY TreeShape DEF ParentsFirst, TreeInv, TypeOK, Storable
<1>2. DOMAIN StoredRows = 1 .. Len(out) /\ \A i \in 1 .. Len(out) : StoredRows[i].type = out[i].type
  BY <1>1 DEF StoredRows
<1>3. Head(RootsOf(StoredRows)) = 1
  <2>1. {u \in DOMAIN StoredRows : StoredRows[u].type = "document"} = {1}
    BY <1>1, <1>2
  <2>2. RootsOf(StoredRows) = ByPosition(StoredRows, {1})
    BY <2>1 DEF RootsOf
  <2>3. {1} \in SUBSET (1 .. Len(out)) /\ Cardinality({1}) = 1
    BY <1>1, FS_Singleton
  <2>4. Upto({1}, 1) \in 1 .. 1 /\ ByPosition(StoredRows, {1})[Upto({1}, 1)] = 1
    BY <2>3, RowsInOrder
  <2>5. Upto({1}, 1) = 1
    BY <2>4
  <2>6. \A s : Head(s) = s[1]
    OBVIOUS
  <2> QED  BY <2>2, <2>4, <2>5, <2>6
<1>4. BlockList(StoredRows, StoredFiles, 1) = PlainTexts(OuterTree)[1]
  <2> DEFINE g == CHOOSE g : g = [p \in DOMAIN StoredRows |-> ReadAt(g, p)]
  <2>1. BlockList(StoredRows, StoredFiles, 1) = g[1]
    BY Zenon DEF BlockList, ReadAt
  <2>2. PICK f : Reading(f)
    BY ReadingExists
  <2>3. f = [p \in DOMAIN StoredRows |-> ReadAt(f, p)]
    BY <1>2, <2>2, Zenon DEF Reading
  <2>4. g = [p \in DOMAIN StoredRows |-> ReadAt(g, p)]
    BY <2>3, Zenon
  <2> HIDE DEF g
  <2>5. Reading(g)
    BY <1>2, <2>4, Zenon DEF Reading
  <2>6. Outer(1) /\ Walked(1) /\ BodiesKept
    BY <1>1, OuterIsWell DEF OuterWell, Walked, Through, ReadInv
  <2>7. g[1] = PlainTexts(OuterTree)[1]
    BY <1>1, <2>5, <2>6, ReadsOuter
  <2> QED  BY <2>1, <2>7
<1> QED  BY <1>3, <1>4, Zenon DEF ProjectDocument, ReadInv

\* The stored tree reads back as the blocks of the document, in its order and each once, for
\* documents of any size and any depth.
THEOREM ReadsBack == Spec => []ReadBack
<1>1. TreeInv /\ ReadInv => ReadBack
  BY ReadsLoose DEF ReadBack
<1> QED  BY <1>1, ReadInvariance, PTL
=============================================================================
