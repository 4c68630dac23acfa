------------------------------- MODULE Inlines -------------------------------
(***************************************************************************)
(* From the inlines of one paragraph to its sentences: the walk of         *)
(* pipeline/inline_mapping.rs, which flattens the inline tree to a plain   *)
(* text with a position index, and segment_paragraph of                    *)
(* pipeline/segmenter.rs, which maps the breakpoints of the sentence       *)
(* segmenter to spans of that text.                                        *)
(*                                                                         *)
(* The paragraph is read as it is walked: each step meets some inline, or  *)
(* the end of the innermost list.  A text is its length in bytes and       *)
(* whether trimming leaves nothing of it.  The segmenter is external: it   *)
(* answers 0, any increasing breakpoints, and the length of the text.      *)
(*                                                                         *)
(* Definitions named Slip... are plausible slips in the definition that    *)
(* follows them; no specification uses them.                               *)
(***************************************************************************)
EXTENDS Integers, Sequences

CONSTANTS
  MaxInlines,  \* bound: inlines of the paragraph
  MaxLen,      \* bound: bytes of one run of text
  MaxDepth     \* bound: containers inside each other

ASSUME BoundsAssumption ==
  MaxInlines \in Nat /\ MaxLen \in Nat \ {0} /\ MaxDepth \in Nat

VARIABLES
  stage,      \* "walk", "segment" or "done"
  flat,       \* length of flat_text
  blank,      \* flat_text.trim().is_empty()
  positions,  \* the position index
  stack,      \* container_stack, with what the recursion keeps per level
  here,       \* index of the next inline at the innermost level
  atomic,     \* inherited_atomic of the innermost level
  count,      \* inlines met
  brk,        \* the last breakpoint taken from the segmenter
  spans       \* sentence spans

vars == <<stage, flat, blank, positions, stack, here, atomic, count, brk, spans>>

-----------------------------------------------------------------------------
Kind == {"text", "atom", "container", "image"}
(* TextOffsetInInline; the leaf's offset counts from its parent's start.   *)
Step == [index : Nat, offset : Nat, kind : Kind]
(* TextPosition; path is inline_stack. *)
Position == [start : Nat, end : Nat, path : Seq(Step), atomic : BOOLEAN]
(* A container: its place among its siblings, the flat length when it was  *)
(* entered, and the flag of the level it is in.                            *)
Level == [index : Nat, start : Nat, kind : {"container", "image"}, atomic : BOOLEAN]
Span == [start : Nat, end : Nat]

TypeOK ==
  /\ stage \in {"walk", "segment", "done"}
  /\ flat \in Nat /\ brk \in Nat /\ count \in Nat /\ here \in Nat
  /\ blank \in BOOLEAN /\ atomic \in BOOLEAN
  /\ positions \in Seq(Position)
  /\ stack \in Seq(Level)
  /\ spans \in Seq(Span)

Init ==
  /\ stage = "walk"
  /\ flat = 0 /\ blank = TRUE /\ positions = <<>>
  /\ stack = <<>> /\ here = 0 /\ atomic = FALSE
  /\ count = 0 /\ brk = 0 /\ spans = <<>>

-----------------------------------------------------------------------------
(* push_position; the code's subtractions saturate at 0, which by TypeOK   *)
(* they never need to.                                                     *)
Start(level) == level.start
ParentStart == IF stack = <<>> THEN 0 ELSE Start(stack[Len(stack)])
PathTo(leaf) ==
  [i \in 1 .. Len(stack) + 1 |->
     IF i <= Len(stack)
       THEN [index |-> stack[i].index, offset |-> flat - Start(stack[i]), kind |-> stack[i].kind]
       ELSE [index |-> here, offset |-> flat - ParentStart, kind |-> leaf]]

Meet == /\ stage = "walk"
        /\ count < MaxInlines
        /\ count' = count + 1

Run(len, white, leaf, isAtomic) ==
  /\ Meet
  /\ flat' = flat + len
  /\ blank' = (blank /\ white)
  /\ positions' = Append(positions, [start |-> flat, end |-> flat + len,
                                     path |-> PathTo(leaf), atomic |-> isAtomic])
  /\ here' = here + 1
  /\ UNCHANGED <<stage, stack, atomic, brk, spans>>

(* Str, and Space, SoftBreak or LineBreak, which give one space: text that *)
(* may be split.                                                           *)
Str(len, white) == Run(len, white, "text", atomic)
Blank == Run(1, TRUE, "text", atomic)

(* Code, Math, RawInline: text that may not. *)
Atom(len, white) == Run(len, white, "atom", TRUE)

Enter(kind, isAtomic) ==
  /\ Meet
  /\ Len(stack) < MaxDepth
  /\ stack' = Append(stack, [index |-> here, start |-> flat, kind |-> kind, atomic |-> atomic])
  /\ here' = 0
  /\ atomic' = isAtomic
  /\ UNCHANGED <<stage, flat, blank, positions, brk, spans>>

(* Emph, Strong, Quoted, Span, Link, Cite and the other containers pass on *)
(* what they inherit; an Image makes its caption atomic.                   *)
SlipContainer == Enter("container", FALSE)
Container == Enter("container", atomic)
Image == Enter("image", TRUE)

(* The children are done: container_stack.pop(). *)
SlipLeave ==
  /\ stage = "walk"
  /\ stack # <<>>
  /\ here' = stack[Len(stack)].index
  /\ atomic' = stack[Len(stack)].atomic
  /\ stack' = SubSeq(stack, 1, Len(stack) - 1)
  /\ UNCHANGED <<stage, flat, blank, positions, count, brk, spans>>
Leave ==
  /\ stage = "walk"
  /\ stack # <<>>
  /\ here' = stack[Len(stack)].index + 1
  /\ atomic' = stack[Len(stack)].atomic
  /\ stack' = SubSeq(stack, 1, Len(stack) - 1)
  /\ UNCHANGED <<stage, flat, blank, positions, count, brk, spans>>

(* A Note is skipped, but keeps its index. *)
Note ==
  /\ Meet
  /\ here' = here + 1
  /\ UNCHANGED <<stage, flat, blank, positions, stack, atomic, brk, spans>>

(* The walk is over.  A blank text has no sentences; the segmenter's first *)
(* breakpoint is 0.                                                        *)
Segment ==
  /\ stage = "walk"
  /\ stack = <<>>
  /\ stage' = IF blank THEN "done" ELSE "segment"
  /\ UNCHANGED <<flat, blank, positions, stack, here, atomic, count, brk, spans>>

-----------------------------------------------------------------------------
(* push_boundary_to_safe: a boundary inside an atomic position moves to    *)
(* the nearer of its ends, to the later one when they are equally near.    *)
SlipHolds(p, b) == p.start < b /\ b < p.end
Holds(p, b) == p.start <= b /\ b < p.end
Holding(b) == {i \in DOMAIN positions : Holds(positions[i], b)}
First(S) == CHOOSE i \in S : \A j \in S : i <= j

NearestEnd(p, b) == IF b - p.start < p.end - b THEN p.start ELSE p.end

InAtom(b) == Holding(b) # {} /\ positions[First(Holding(b))].atomic
Safe(b) == IF InAtom(b) THEN NearestEnd(positions[First(Holding(b))], b) ELSE b

(* map_sentence_boundaries, one window of breakpoints per step: a window   *)
(* that the pushes leave empty gives no sentence.                          *)
SlipSentence(s, e) == IF s < e THEN <<[start |-> s, end |-> Safe(e)]>> ELSE <<>>
Sentence(s, e) ==
  IF s < e /\ s < Safe(e) THEN <<[start |-> s, end |-> Safe(e)]>> ELSE <<>>

Window(next) ==
  /\ stage = "segment"
  /\ brk < next
  /\ spans' = spans \o Sentence(Safe(brk), next)
  /\ brk' = next
  /\ stage' = IF next = flat THEN "done" ELSE "segment"
  /\ UNCHANGED <<flat, blank, positions, stack, here, atomic, count>>

Done == stage = "done" /\ UNCHANGED vars

Next ==
  \/ \E len \in 0 .. MaxLen : \E white \in {w \in BOOLEAN : len = 0 => w} :
        Str(len, white) \/ Atom(len, white)
  \/ Blank \/ Container \/ Image \/ Leave \/ Note \/ Segment
  \/ \E next \in 1 .. flat : Window(next)
  \/ Done

Spec == Init /\ [][Next]_vars

-----------------------------------------------------------------------------
(* find_inline_position: the first position that ends at the offset, else  *)
(* the first that holds it.                                                *)
EndingAt(o) == {i \in DOMAIN positions : positions[i].end = o}
Found(o) == IF EndingAt(o) # {} THEN First(EndingAt(o)) ELSE First(Holding(o))

-----------------------------------------------------------------------------
(* "entries are non-overlapping and cover the entire flat_text in order",  *)
(* at every moment of the walk.                                            *)
StartOf(i) == IF i <= Len(positions) THEN positions[i].start ELSE flat
PositionsTile ==
  /\ StartOf(1) = 0
  /\ \A i \in 1 .. Len(positions) :
        /\ positions[i].end = StartOf(i + 1)
        /\ positions[i].start <= positions[i].end

(* The path of a position leads to one run of text: paths grow from each   *)
(* position to the next, whatever is entered, left or skipped between.     *)
Before(p, q) ==
  \E k \in 1 .. Len(p) :
     /\ k <= Len(q)
     /\ p[k].index < q[k].index
     /\ \A j \in 1 .. k - 1 : p[j].index = q[j].index
PathsInOrder ==
  \A i \in 1 .. Len(positions) - 1 : Before(positions[i].path, positions[i + 1].path)

(* The sentences of a paragraph follow each other without a gap or an      *)
(* overlap from its first byte on, none is empty, and in the end they      *)
(* cover all of it, although both ends of each are moved on their own and  *)
(* some are dropped.                                                       *)
EndOf(i) == IF i = 0 THEN 0 ELSE spans[i].end
SpansTile ==
  /\ \A i \in 1 .. Len(spans) :
        spans[i].start = EndOf(i - 1) /\ spans[i].start < spans[i].end
  /\ stage = "done" => EndOf(Len(spans)) = IF blank THEN 0 ELSE flat

(* No sentence begins or ends inside a position marked atomic, those in    *)
(* containers inside an Image included.                                    *)
Inside(b, p) == p.start < b /\ b < p.end
UnderImage(p) == \E k \in 1 .. Len(p.path) : p.path[k].kind = "image"
Unsplittable(p) == UnderImage(p) \/ p.path[Len(p.path)].kind = "atom"
AtomsUncut ==
  \A i \in 1 .. Len(positions), s \in 1 .. Len(spans) :
     Unsplittable(positions[i]) =>
        ~Inside(spans[s].start, positions[i]) /\ ~Inside(spans[s].end, positions[i])

(* Every offset of a text that is not empty is found, both its ends        *)
(* included, at a position that touches it.                                *)
OffsetsFound ==
  stage # "walk" /\ flat > 0 =>
     \A o \in 0 .. flat :
        /\ EndingAt(o) \cup Holding(o) # {}
        /\ positions[Found(o)].start <= o /\ o <= positions[Found(o)].end

==============================================================================
