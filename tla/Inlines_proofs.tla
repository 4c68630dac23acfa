---------------------------- MODULE Inlines_proofs -----------------------------
(***************************************************************************)
(* The position index and the sentences of a paragraph, for paragraphs of  *)
(* any size and depth and for every answer of the sentence segmenter.      *)
(***************************************************************************)
EXTENDS Inlines, SequenceTheorems, NaturalsInduction, WellFoundedInduction, TLAPS

USE BoundsAssumption

-----------------------------------------------------------------------------
\* The positions lie in the text one after the other and leave none of it out.
Geometry ==
  /\ \A i, j \in 1 .. Len(positions) : i < j => positions[i].end <= positions[j].start
  /\ \A i \in 1 .. Len(positions) :
        positions[i].start <= positions[i].end /\ positions[i].end <= flat
  /\ \A o \in 0 .. flat - 1 : \E i \in 1 .. Len(positions) : Holds(positions[i], o)

\* Containers were entered no later than here.
LevelStarts == \A k \in 1 .. Len(stack) : stack[k].start <= flat

\* Inside an image everything is atomic, and so is what it will return to inside an outer
\* image.
ImagesAtomic ==
  /\ \A j, k \in 1 .. Len(stack) : stack[j].kind = "image" /\ j < k => stack[k].atomic
  /\ \A j \in 1 .. Len(stack) : stack[j].kind = "image" => atomic

\* What may not be split is marked atomic.
Marked == \A i \in 1 .. Len(positions) : Unsplittable(positions[i]) => positions[i].atomic

\* The indices that lead to the next inline.
Cursor(k) == IF k <= Len(stack) THEN stack[k].index ELSE here

\* The walk is past the last position.
CursorAhead ==
  Len(positions) > 0 =>
     LET p == positions[Len(positions)].path
     IN \E k \in 1 .. Len(p) :
           /\ k <= Len(stack) + 1
           /\ p[k].index < Cursor(k)
           /\ \A j \in 1 .. k - 1 : p[j].index = Cursor(j)

\* Sentences begin and end at boundaries that were moved.
EndsSafe ==
  \A s \in 1 .. Len(spans) :
     /\ \E b \in 0 .. flat : spans[s].start = Safe(b)
     /\ \E b \in 0 .. flat : spans[s].end = Safe(b)

\* How far the segmentation is.
Progress ==
  /\ flat = 0 => blank
  /\ stage = "walk" \/ blank => brk = 0 /\ spans = <<>>
  /\ stage = "segment" => ~blank /\ brk < flat
  /\ stage = "done" /\ ~blank => brk = flat
  /\ stage # "walk" /\ ~blank => EndOf(Len(spans)) = Safe(brk)

InlineInv ==
  /\ TypeOK /\ Geometry /\ PositionsTile
  /\ LevelStarts /\ ImagesAtomic /\ Marked
  /\ CursorAhead /\ PathsInOrder
  /\ Progress /\ EndsSafe /\ SpansTile

-----------------------------------------------------------------------------
\* A position is a pair of offsets, a path and a flag.
LEMMA PositionTypes ==
  ASSUME TypeOK, NEW i \in 1 .. Len(positions)
  PROVE  /\ positions[i] \in Position
         /\ positions[i].start \in Nat /\ positions[i].end \in Nat /\ positions[i].atomic \in BOOLEAN
         /\ i \in DOMAIN positions
<1>1. positions \in Seq(Position)
  BY DEF TypeOK
<1>2. positions[i] \in Position
  BY <1>1, ElementOfSeq
<1>3. i \in DOMAIN positions
  BY <1>1, LenProperties
<1> QED  BY <1>2, <1>3 DEF Position

\* No offset is in two positions.
LEMMA OneHolds ==
  ASSUME TypeOK, Geometry, NEW b \in Nat, NEW i \in Holding(b), NEW j \in Holding(b)
  PROVE  i = j
<1>1. i \in 1 .. Len(positions) /\ j \in 1 .. Len(positions) /\ Len(positions) \in Nat
  BY LenProperties DEF Holding, TypeOK
<1>2. /\ positions[i].start <= b /\ b < positions[i].end
      /\ positions[j].start <= b /\ b < positions[j].end
  BY DEF Holding, Holds
<1>3. /\ positions[i].start \in Nat /\ positions[i].end \in Nat
      /\ positions[j].start \in Nat /\ positions[j].end \in Nat
  BY <1>1, PositionTypes
<1>4. /\ i < j => positions[i].end <= positions[j].start
      /\ j < i => positions[j].end <= positions[i].start
  BY <1>1 DEF Geometry
<1> QED  BY <1>1, <1>2, <1>3, <1>4

\* The first position that holds an offset is any that does.
LEMMA FirstHolds ==
  ASSUME TypeOK, Geometry, NEW b \in Nat, NEW i \in Holding(b)
  PROVE  First(Holding(b)) = i
<1>1. \A j \in Holding(b) : j = i
  BY OneHolds
<1>2. i \in 1 .. Len(positions)
  BY LenProperties DEF Holding, TypeOK
<1>3. \A j \in Holding(b) : i <= j
  BY <1>1, <1>2
<1>4. First(Holding(b)) \in Holding(b)
  BY <1>3 DEF First
<1> QED  BY <1>1, <1>4

\* A boundary in an atomic position moves to the nearer end of that position.
LEMMA SafeInAtom ==
  ASSUME TypeOK, Geometry, NEW b \in Nat, NEW i \in 1 .. Len(positions),
         Holds(positions[i], b), positions[i].atomic
  PROVE  Safe(b) = NearestEnd(positions[i], b)
<1>1. i \in Holding(b)
  BY PositionTypes DEF Holding
<1>2. First(Holding(b)) = i
  BY <1>1, FirstHolds
<1> QED  BY <1>1, <1>2 DEF Safe, InAtom

\* A boundary that is in none stays.
LEMMA SafeElsewhere ==
  ASSUME TypeOK, Geometry, NEW b \in Nat,
         \A i \in 1 .. Len(positions) : positions[i].atomic => ~Holds(positions[i], b)
  PROVE  Safe(b) = b
<1>1. CASE Holding(b) = {}
  BY <1>1 DEF Safe, InAtom
<1>2. CASE Holding(b) # {}
  <2>1. PICK i \in Holding(b) : TRUE
    BY <1>2
  <2>2. First(Holding(b)) = i /\ i \in 1 .. Len(positions) /\ Holds(positions[i], b)
    BY <2>1, FirstHolds, LenProperties DEF Holding, TypeOK
  <2>3. ~positions[i].atomic
    BY <2>2
  <2> QED  BY <2>2, <2>3 DEF Safe, InAtom
<1> QED  BY <1>1, <1>2

\* Where a boundary goes.
LEMMA SafeCases ==
  ASSUME TypeOK, Geometry, NEW b \in Nat
  PROVE  \/ /\ Safe(b) = b
            /\ \A i \in 1 .. Len(positions) : positions[i].atomic => ~Holds(positions[i], b)
         \/ \E i \in 1 .. Len(positions) :
               /\ positions[i].atomic
               /\ positions[i].start <= b /\ b < positions[i].end
               /\ Safe(b) = IF b - positions[i].start < positions[i].end - b
                              THEN positions[i].start ELSE positions[i].end
<1>1. CASE \A i \in 1 .. Len(positions) : positions[i].atomic => ~Holds(positions[i], b)
  BY <1>1, SafeElsewhere
<1>2. ASSUME NEW i \in 1 .. Len(positions), positions[i].atomic, Holds(positions[i], b)
      PROVE  /\ positions[i].start <= b /\ b < positions[i].end
             /\ Safe(b) = IF b - positions[i].start < positions[i].end - b
                            THEN positions[i].start ELSE positions[i].end
  BY <1>2, SafeInAtom DEF Holds, NearestEnd
<1> QED  BY <1>1, <1>2

\* Boundaries stay in the text.
LEMMA SafeInText ==
  ASSUME TypeOK, Geometry, NEW b \in 0 .. flat
  PROVE  Safe(b) \in 0 .. flat
<1>1. flat \in Nat /\ b \in Nat
  BY DEF TypeOK
<1>2. CASE Safe(b) = b
  BY <1>1, <1>2
<1>3. ASSUME NEW i \in 1 .. Len(positions), Safe(b) \in {positions[i].start, positions[i].end}
      PROVE  Safe(b) \in 0 .. flat
  BY <1>1, <1>3, PositionTypes DEF Geometry
<1> QED  BY <1>1, <1>2, <1>3, SafeCases

\* The two ends of the text do not move.
LEMMA SafeAtEnds == ASSUME TypeOK, Geometry PROVE Safe(0) = 0 /\ Safe(flat) = flat
<1>1. flat \in Nat /\ 0 \in Nat
  BY DEF TypeOK
<1>2. Safe(0) = 0
  <2>1. ASSUME NEW i \in 1 .. Len(positions), positions[i].start <= 0, 0 < positions[i].end,
               Safe(0) = IF 0 - positions[i].start < positions[i].end - 0
                           THEN positions[i].start ELSE positions[i].end
        PROVE  Safe(0) = 0
    BY <2>1, PositionTypes
  <2> QED  BY <1>1, <2>1, SafeCases
<1>3. Safe(flat) = flat
  <2>1. \A i \in 1 .. Len(positions) : ~Holds(positions[i], flat)
    BY <1>1, PositionTypes DEF Geometry, Holds
  <2> QED  BY <1>1, <2>1, SafeElsewhere
<1> QED  BY <1>2, <1>3

\* A boundary moves no further than the next one, or both move to the same place.
LEMMA SafeMonotone ==
  ASSUME TypeOK, Geometry, NEW b \in 0 .. flat, NEW c \in 0 .. flat, b < c
  PROVE  /\ Safe(b) <= Safe(c)
         /\ c <= Safe(b) => Safe(c) = Safe(b)
<1>1. b \in Nat /\ c \in Nat /\ Len(positions) \in Nat
  BY LenProperties DEF TypeOK
<1> DEFINE S(i) == positions[i].start
           E(i) == positions[i].end
           N(i, o) == IF o - S(i) < E(i) - o THEN S(i) ELSE E(i)
           In(i, o) == positions[i].atomic /\ S(i) <= o /\ o < E(i)
           Out(o) == \A i \in 1 .. Len(positions) : ~In(i, o)
<1>2. \A i \in 1 .. Len(positions) : S(i) \in Nat /\ E(i) \in Nat
  BY PositionTypes
<1>3. \A i, j \in 1 .. Len(positions) : i < j => E(i) <= S(j)
  BY DEF Geometry
<1>4. \A o \in Nat : \/ Safe(o) = o /\ Out(o)
                     \/ \E i \in 1 .. Len(positions) : In(i, o) /\ Safe(o) = N(i, o)
  BY SafeCases DEF Holds
<1> HIDE DEF S, E
<1>5. CASE Safe(b) = b /\ Safe(c) = c
  BY <1>1, <1>5
<1>6. ASSUME NEW i \in 1 .. Len(positions), In(i, b), Safe(b) = N(i, b), Safe(c) = c, Out(c)
      PROVE  Safe(b) <= Safe(c) /\ (c <= Safe(b) => Safe(c) = Safe(b))
  <2>1. ~(S(i) <= c /\ c < E(i))
    BY <1>6
  <2>2. E(i) <= c
    BY <1>1, <1>2, <1>6, <2>1
  <2> QED  BY <1>1, <1>2, <1>6, <2>2
<1>7. ASSUME NEW j \in 1 .. Len(positions), In(j, c), Safe(c) = N(j, c), Safe(b) = b, Out(b)
      PROVE  Safe(b) <= Safe(c) /\ (c <= Safe(b) => Safe(c) = Safe(b))
  <2>1. ~(S(j) <= b /\ b < E(j))
    BY <1>7
  <2>2. b < S(j)
    BY <1>1, <1>2, <1>7, <2>1
  <2> QED  BY <1>1, <1>2, <1>7, <2>2
<1>8. ASSUME NEW i \in 1 .. Len(positions), In(i, b), Safe(b) = N(i, b),
             NEW j \in 1 .. Len(positions), In(j, c), Safe(c) = N(j, c)
      PROVE  Safe(b) <= Safe(c) /\ (c <= Safe(b) => Safe(c) = Safe(b))
  <2>1. CASE i = j
    BY <1>1, <1>2, <1>8, <2>1
  <2>2. CASE i < j
    <3>1. E(i) <= S(j)
      BY <1>3, <2>2
    <3> QED  BY <1>1, <1>2, <1>8, <3>1, SMTT(40)
  <2>3. CASE j < i
    <3>1. E(j) <= S(i)
      BY <1>3, <2>3
    <3> QED  BY <1>1, <1>2, <1>8, <3>1
  <2> QED  BY <1>1, <2>1, <2>2, <2>3
<1> HIDE DEF N, In, Out
<1> QED  BY <1>1, <1>4, <1>5, <1>6, <1>7, <1>8

\* A moved boundary is inside no atomic position.
LEMMA SafeNotInside ==
  ASSUME TypeOK, Geometry, NEW b \in 0 .. flat, NEW i \in 1 .. Len(positions), positions[i].atomic
  PROVE  ~Inside(Safe(b), positions[i])
<1>1. b \in Nat /\ Len(positions) \in Nat
  BY LenProperties DEF TypeOK
<1>2. CASE Safe(b) = b /\ ~Holds(positions[i], b)
  BY <1>1, <1>2, PositionTypes DEF Holds, Inside
<1>3. ASSUME NEW j \in 1 .. Len(positions), Safe(b) \in {positions[j].start, positions[j].end}
      PROVE  ~Inside(Safe(b), positions[i])
  <2>1. /\ positions[i].start \in Nat /\ positions[i].end \in Nat
        /\ positions[j].start \in Nat /\ positions[j].end \in Nat
    BY PositionTypes
  <2>2. /\ i < j => positions[i].end <= positions[j].start
        /\ j < i => positions[j].end <= positions[i].start
        /\ positions[j].start <= positions[j].end
    BY DEF Geometry
  <2>3. CASE i = j
    BY <1>3, <2>1, <2>3 DEF Inside
  <2>4. CASE i # j
    BY <1>1, <1>3, <2>1, <2>2, <2>4 DEF Inside
  <2> QED  BY <2>3, <2>4
<1> QED  BY <1>1, <1>2, <1>3, SafeCases

-----------------------------------------------------------------------------
\* A nonempty set of numbers has a first.
LEMMA FirstOfNumbers ==
  ASSUME NEW A \in SUBSET Nat, A # {}
  PROVE  First(A) \in A
<1> DEFINE less == {ss \in Nat \X Nat : ss[1] < ss[2]}
<1>1. IsWellFoundedOn(less, Nat)
  BY NatLessThanWellFounded DEF OpToRel
<1> HIDE DEF less
<1>2. PICK m \in A : \A k \in A : ~ (<<k, m>> \in less)
  BY <1>1, WFMin
<1>3. ASSUME NEW k \in A PROVE m <= k
  <2>1. k \in Nat /\ m \in Nat /\ ~ (<<k, m>> \in less)
    BY <1>2
  <2>2. <<k, m>> \in Nat \X Nat /\ <<k, m>>[1] = k /\ <<k, m>>[2] = m
    BY <2>1
  <2>3. ~ (k < m)
    BY <2>1, <2>2 DEF less
  <2> QED  BY <2>1, <2>3
<1> QED  BY <1>2, <1>3 DEF First

\* Every offset of a text that is not empty is found at a position that touches it.
LEMMA OffsetsAreFound == ASSUME TypeOK, Geometry, PositionsTile PROVE OffsetsFound
<1>1. flat \in Nat /\ Len(positions) \in Nat /\ DOMAIN positions = 1 .. Len(positions)
  BY LenProperties DEF TypeOK
<1> SUFFICES ASSUME flat > 0, NEW o \in 0 .. flat
             PROVE  /\ EndingAt(o) \cup Holding(o) # {}
                    /\ positions[Found(o)].start <= o /\ o <= positions[Found(o)].end
  BY DEF OffsetsFound
<1>2. EndingAt(o) \cup Holding(o) # {}
  <2>1. CASE o < flat
    <3>1. PICK i \in 1 .. Len(positions) : Holds(positions[i], o)
      BY <1>1, <2>1 DEF Geometry
    <3> QED  BY <1>1, <3>1 DEF Holding
  <2>2. CASE o = flat
    <3>1. Len(positions) # 0
      BY <1>1 DEF PositionsTile, StartOf
    <3>2. Len(positions) \in DOMAIN positions /\ positions[Len(positions)].end = StartOf(Len(positions) + 1)
      BY <1>1, <3>1 DEF PositionsTile
    <3>3. StartOf(Len(positions) + 1) = flat
      BY <1>1 DEF StartOf
    <3> QED  BY <2>2, <3>2, <3>3 DEF EndingAt
  <2> QED  BY <1>1, <2>1, <2>2
<1>3. CASE EndingAt(o) # {}
  <2>1. EndingAt(o) \in SUBSET Nat
    BY <1>1 DEF EndingAt
  <2>2. Found(o) \in EndingAt(o)
    BY <1>3, <2>1, FirstOfNumbers DEF Found
  <2>3. Found(o) \in 1 .. Len(positions) /\ positions[Found(o)].end = o
    BY <1>1, <2>2 DEF EndingAt
  <2> QED  BY <1>1, <1>2, <2>3, PositionTypes DEF Geometry
<1>4. CASE EndingAt(o) = {}
  <2>1. Holding(o) \in SUBSET Nat /\ Holding(o) # {}
    BY <1>1, <1>2, <1>4 DEF Holding
  <2>2. Found(o) \in Holding(o)
    BY <1>4, <2>1, FirstOfNumbers DEF Found
  <2>3. Found(o) \in 1 .. Len(positions) /\ Holds(positions[Found(o)], o)
    BY <1>1, <2>2 DEF Holding
  <2> QED  BY <1>1, <1>2, <2>3, PositionTypes DEF Holds
<1> QED  BY <1>3, <1>4

-----------------------------------------------------------------------------
\* Nothing was read.
LEMMA InitInline == Init => InlineInv
<1> SUFFICES ASSUME Init PROVE InlineInv
  OBVIOUS
<1>1. flat = 0 /\ positions = <<>> /\ stack = <<>> /\ spans = <<>> /\ stage = "walk" /\ brk = 0 /\ blank
  BY DEF Init
<1>2. TypeOK
  <2>1. blank = TRUE /\ atomic = FALSE
    BY DEF Init
  <2>2. blank \in BOOLEAN /\ atomic \in BOOLEAN
    BY <2>1
  <2> QED  BY <1>1, <2>2, EmptySeq DEF Init, TypeOK
<1>3. Geometry /\ LevelStarts /\ ImagesAtomic /\ Marked /\ CursorAhead /\ PathsInOrder /\ EndsSafe
  BY <1>1 DEF Geometry, LevelStarts, ImagesAtomic, Marked, CursorAhead, PathsInOrder, EndsSafe
<1>4. PositionsTile
  BY <1>1 DEF PositionsTile, StartOf
<1>5. Progress
  BY <1>1 DEF Progress
<1>6. SpansTile
  BY <1>1 DEF SpansTile, EndOf
<1> QED  BY <1>2, <1>3, <1>4, <1>5, <1>6 DEF InlineInv

-----------------------------------------------------------------------------
\* The path to the next run of text: its indices are those of the cursor.
LEMMA PathTypes ==
  ASSUME InlineInv, NEW leaf \in {"text", "atom"}
  PROVE  /\ PathTo(leaf) \in Seq(Step) /\ Len(PathTo(leaf)) = Len(stack) + 1
         /\ \A k \in 1 .. Len(stack) + 1 : PathTo(leaf)[k].index = Cursor(k)
         /\ \A k \in 1 .. Len(stack) : PathTo(leaf)[k].kind = stack[k].kind
         /\ PathTo(leaf)[Len(stack) + 1].kind = leaf
<1>1. flat \in Nat /\ here \in Nat /\ stack \in Seq(Level) /\ Len(stack) \in Nat
  BY LenProperties DEF InlineInv, TypeOK
<1>2. \A k \in 1 .. Len(stack) : /\ stack[k] \in Level /\ stack[k].start <= flat
                                 /\ stack[k].index \in Nat /\ stack[k].start \in Nat
                                 /\ stack[k].kind \in {"container", "image"}
  <2>1. \A k \in 1 .. Len(stack) : stack[k] \in Level
    BY <1>1, ElementOfSeq
  <2> QED  BY <2>1 DEF InlineInv, LevelStarts, Level
<1>3. ParentStart \in Nat /\ ParentStart <= flat
  <2>1. CASE stack = <<>>
    BY <1>1, <2>1 DEF ParentStart
  <2>2. CASE stack # <<>>
    <3>1. Len(stack) \in 1 .. Len(stack)
      BY <1>1, <2>2, EmptySeq
    <3> QED  BY <1>2, <2>2, <3>1 DEF ParentStart, Start
  <2> QED  BY <2>1, <2>2
<1> DEFINE step(i) == IF i <= Len(stack)
                        THEN [index |-> stack[i].index, offset |-> flat - Start(stack[i]),
                              kind |-> stack[i].kind]
                        ELSE [index |-> here, offset |-> flat - ParentStart, kind |-> leaf]
<1>4. \A i \in 1 .. Len(stack) + 1 : step(i) \in Step
  BY <1>1, <1>2, <1>3 DEF Step, Kind, Start
<1>5. PathTo(leaf) = [i \in 1 .. Len(stack) + 1 |-> step(i)]
  BY DEF PathTo
<1>6. \A i \in 1 .. Len(stack) + 1 : step(i).index = Cursor(i)
  BY DEF Cursor
<1>7. /\ \A i \in 1 .. Len(stack) : step(i).kind = stack[i].kind
      /\ step(Len(stack) + 1).kind = leaf
  BY <1>1
<1> HIDE DEF step
<1>8. PathTo(leaf) \in Seq(Step) /\ Len(PathTo(leaf)) = Len(stack) + 1
  BY <1>1, <1>4, <1>5
<1>9. \A k \in 1 .. Len(stack) + 1 : PathTo(leaf)[k] = step(k)
  BY <1>5
<1> QED  BY <1>1, <1>6, <1>7, <1>8, <1>9

-----------------------------------------------------------------------------
\* Before the segmentation there are no sentences, and nothing to say of them.
LEMMA NoSentences ==
  ASSUME stage' = "walk", spans' = <<>>, brk' = 0, flat' = 0 => blank'
  PROVE  Progress' /\ EndsSafe' /\ SpansTile'
<1>1. Progress'
  BY DEF Progress
<1>2. EndsSafe'
  BY DEF EndsSafe
<1>3. SpansTile'
  BY DEF SpansTile, EndOf
<1> QED  BY <1>1, <1>2, <1>3

\* What the walk knows of its place when it meets an inline.
LEMMA WalkTypes ==
  ASSUME InlineInv
  PROVE  /\ TypeOK /\ positions \in Seq(Position) /\ stack \in Seq(Level)
         /\ Len(positions) \in Nat /\ Len(stack) \in Nat
         /\ flat \in Nat /\ here \in Nat /\ count \in Nat
         /\ stage = "walk" => spans = <<>> /\ brk = 0
         /\ flat = 0 => blank
  BY LenProperties DEF InlineInv, TypeOK, Progress

\* A run of text: one more position, at the end of the text.
LEMMA RunInline ==
  ASSUME InlineInv, NEW len \in Nat, NEW white \in BOOLEAN, len = 0 => white,
         NEW leaf \in {"text", "atom"}, NEW isAtomic \in BOOLEAN,
         leaf = "atom" \/ (\E k \in 1 .. Len(stack) : stack[k].kind = "image") => isAtomic,
         Run(len, white, leaf, isAtomic)
  PROVE  InlineInv'
<1> DEFINE new == [start |-> flat, end |-> flat + len, path |-> PathTo(leaf), atomic |-> isAtomic]
<1>0. PICK n \in Nat, d \in Nat : n = Len(positions) /\ d = Len(stack)
  BY WalkTypes
<1>1. /\ TypeOK /\ positions \in Seq(Position) /\ stack \in Seq(Level) /\ n \in Nat /\ d \in Nat
      /\ flat \in Nat /\ here \in Nat /\ count \in Nat
  BY WalkTypes
<1>2. new \in Position
  BY <1>1, PathTypes DEF Position
<1>3. /\ flat' = flat + len /\ positions' = Append(positions, new) /\ here' = here + 1
      /\ stage = "walk" /\ UNCHANGED <<stage, stack, atomic, brk, spans>>
      /\ count' = count + 1 /\ blank' = (blank /\ white)
  BY DEF Run, Meet
<1>4. new.start = flat /\ new.end = flat + len /\ new.path = PathTo(leaf) /\ new.atomic = isAtomic
  OBVIOUS
<1> HIDE DEF new
<1>5. /\ positions' \in Seq(Position) /\ Len(positions') = n + 1 /\ positions'[n + 1] = new
      /\ \A i \in 1 .. n : positions'[i] = positions[i]
  BY <1>1, <1>2, <1>3, <1>0
<1>6. TypeOK'
  <2>1. blank' \in BOOLEAN
    BY <1>1, <1>3 DEF TypeOK
  <2>2. flat' \in Nat /\ here' \in Nat /\ count' \in Nat
    BY <1>1, <1>3
  <2>3. /\ stage' \in {"walk", "segment", "done"} /\ brk' \in Nat /\ atomic' \in BOOLEAN
        /\ stack' \in Seq(Level) /\ spans' \in Seq(Span)
    BY <1>1, <1>3 DEF TypeOK
  <2> QED  BY <1>5, <2>1, <2>2, <2>3 DEF TypeOK
<1>7. \A i \in 1 .. n : /\ positions[i].start \in Nat /\ positions[i].end \in Nat
                        /\ positions[i].start <= positions[i].end /\ positions[i].end <= flat
  BY <1>1, <1>0, PositionTypes DEF InlineInv, Geometry
<1>8. Geometry'
  <2>1. ASSUME NEW i \in 1 .. n + 1, NEW j \in 1 .. n + 1, i < j
        PROVE  positions'[i].end <= positions'[j].start
    <3>1. CASE j = n + 1
      <4>1. i \in 1 .. n
        BY <1>1, <2>1, <3>1
      <4> QED  BY <1>4, <1>5, <1>7, <3>1, <4>1
    <3>2. CASE j # n + 1
      <4>1. i \in 1 .. n /\ j \in 1 .. n
        BY <1>1, <2>1, <3>2
      <4> QED  BY <1>5, <1>0, <2>1, <4>1 DEF InlineInv, Geometry
    <3> QED  BY <3>1, <3>2
  <2>2. ASSUME NEW i \in 1 .. n + 1
        PROVE  positions'[i].start <= positions'[i].end /\ positions'[i].end <= flat'
    <3>1. CASE i = n + 1
      BY <1>1, <1>3, <1>4, <1>5, <3>1
    <3>2. CASE i # n + 1
      <4>1. i \in 1 .. n
        BY <1>1, <3>2
      <4> QED  BY <1>1, <1>3, <1>5, <1>7, <4>1
    <3> QED  BY <3>1, <3>2
  <2>3. ASSUME NEW o \in 0 .. flat' - 1 PROVE \E i \in 1 .. n + 1 : Holds(positions'[i], o)
    <3>1. CASE o < flat
      <4>1. PICK i \in 1 .. n : Holds(positions[i], o)
        BY <1>1, <1>0, <3>1 DEF InlineInv, Geometry
      <4>2. i \in 1 .. n + 1 /\ positions'[i] = positions[i]
        BY <1>1, <1>5
      <4> QED  BY <4>1, <4>2
    <3>2. CASE ~ (o < flat)
      <4>1. Holds(new, o)
        BY <1>1, <1>3, <1>4, <3>2 DEF Holds
      <4>2. n + 1 \in 1 .. n + 1
        BY <1>1
      <4> QED  BY <1>5, <4>1, <4>2
    <3> QED  BY <3>1, <3>2
  <2> QED  BY <1>5, <2>1, <2>2, <2>3 DEF Geometry, Holds
<1>9. PositionsTile'
  <2>1. \A i \in 1 .. n + 1 : StartOf(i)' = StartOf(i)
    <3> SUFFICES ASSUME NEW i \in 1 .. n + 1 PROVE StartOf(i)' = StartOf(i)
      OBVIOUS
    <3>1. CASE i = n + 1
      BY <1>1, <1>4, <1>5, <1>0, <3>1 DEF StartOf
    <3>2. CASE i # n + 1
      <4>1. i \in 1 .. n
        BY <1>1, <3>2
      <4> QED  BY <1>1, <1>5, <1>0, <4>1 DEF StartOf
    <3> QED  BY <3>1, <3>2
  <2>2. StartOf(1)' = 0
    BY <1>1, <2>1 DEF InlineInv, PositionsTile
  <2>3. ASSUME NEW i \in 1 .. n + 1
        PROVE  positions'[i].end = StartOf(i + 1)' /\ positions'[i].start <= positions'[i].end
    <3>1. CASE i = n + 1
      BY <1>1, <1>3, <1>4, <1>5, <3>1 DEF StartOf
    <3>2. CASE i # n + 1
      <4>1. i \in 1 .. n /\ i + 1 \in 1 .. n + 1
        BY <1>1, <3>2
      <4> QED  BY <1>5, <1>7, <1>0, <2>1, <4>1 DEF InlineInv, PositionsTile
    <3> QED  BY <3>1, <3>2
  <2> QED  BY <1>5, <2>2, <2>3 DEF PositionsTile
<1>10. LevelStarts'
  <2>0. \A k \in 1 .. d : stack[k] \in Level
    BY <1>1, <1>0, ElementOfSeq
  <2>1. \A k \in 1 .. d : stack[k].start \in Nat
    BY <2>0 DEF Level
  <2> QED  BY <1>1, <1>3, <1>0, <2>1 DEF InlineInv, LevelStarts
<1>11. ImagesAtomic'
  BY <1>3 DEF InlineInv, ImagesAtomic
<1>12. Marked'
  <2>1. Unsplittable(new) => isAtomic
    <3>1. Len(new.path) = d + 1 /\ new.path[d + 1].kind = leaf
          /\ \A k \in 1 .. d : new.path[k].kind = stack[k].kind
      BY <1>4, <1>0, PathTypes
    <3>2. UnderImage(new) => \E k \in 1 .. d : stack[k].kind = "image"
      <4> SUFFICES ASSUME NEW k \in 1 .. d + 1, new.path[k].kind = "image"
                   PROVE  \E j \in 1 .. d : stack[j].kind = "image"
        BY <3>1 DEF UnderImage
      <4>1. k # d + 1
        BY <3>1
      <4>2. k \in 1 .. d
        BY <1>1, <4>1
      <4> QED  BY <3>1, <4>2
    <3>3. new.path[Len(new.path)].kind = "atom" => leaf = "atom"
      BY <3>1
    <3> QED  BY <1>0, <3>2, <3>3 DEF Unsplittable
  <2>2. ASSUME NEW i \in 1 .. n + 1, Unsplittable(positions'[i]) PROVE positions'[i].atomic
    <3>1. CASE i = n + 1
      BY <1>4, <1>5, <2>1, <2>2, <3>1
    <3>2. CASE i # n + 1
      <4>1. i \in 1 .. n
        BY <1>1, <3>2
      <4> QED  BY <1>5, <1>0, <2>2, <4>1 DEF InlineInv, Marked
    <3> QED  BY <3>1, <3>2
  <2> QED  BY <1>5, <2>2 DEF Marked, Unsplittable, UnderImage
<1>13. new.path \in Seq(Step) /\ Len(new.path) = d + 1 /\ \A k \in 1 .. d + 1 : new.path[k].index = Cursor(k)
  BY <1>4, <1>0, PathTypes
<1>14. CursorAhead'
  <2>1. \A k \in 1 .. d : Cursor(k)' = Cursor(k)
    BY <1>3, <1>0 DEF Cursor
  <2>2. Cursor(d + 1)' = here + 1 /\ Cursor(d + 1) = here
    BY <1>1, <1>3, <1>0 DEF Cursor
  <2>3. d + 1 \in 1 .. d + 1 /\ new.path[d + 1].index < Cursor(d + 1)'
    BY <1>1, <1>13, <2>2
  <2>4. \A j \in 1 .. d : new.path[j].index = Cursor(j)'
    BY <1>1, <1>13, <2>1
  <2> HIDE DEF Cursor
  <2>5. positions'[Len(positions')].path = new.path
    BY <1>5
  <2>6. d + 1 - 1 = d /\ Len(stack') + 1 = d + 1
    BY <1>1, <1>3, <1>0
  <2>7. d + 1 <= Len(stack') + 1 /\ d + 1 \in 1 .. Len(new.path)
    BY <1>1, <1>13, <2>6
  <2> QED  BY <2>3, <2>4, <2>5, <2>6, <2>7 DEF CursorAhead
<1>15. PathsInOrder'
  <2>1. ASSUME NEW i \in 1 .. n PROVE Before(positions'[i].path, positions'[i + 1].path)
    <3>1. CASE i = n
      <4>1. positions'[i] = positions[n] /\ positions'[i + 1] = new /\ n > 0
        BY <1>1, <1>5, <3>1
      <4>2. PICK k \in 1 .. Len(positions[n].path) :
                /\ k <= d + 1
                /\ positions[n].path[k].index < Cursor(k)
                /\ \A j \in 1 .. k - 1 : positions[n].path[j].index = Cursor(j)
        BY <1>0, <4>1 DEF InlineInv, CursorAhead
      <4>3. positions[n].path \in Seq(Step)
        BY <1>1, <1>0, <3>1, PositionTypes DEF Position
      <4>4. k \in Nat /\ k \in 1 .. d + 1 /\ \A j \in 1 .. k - 1 : j \in 1 .. d + 1
        BY <1>1, <4>2, <4>3, LenProperties
      <4>5. k <= Len(new.path) /\ positions[n].path[k].index < new.path[k].index
            /\ \A j \in 1 .. k - 1 : positions[n].path[j].index = new.path[j].index
        BY <1>13, <4>2, <4>4
      <4> QED  BY <4>1, <4>2, <4>5 DEF Before
    <3>2. CASE i # n
      <4>1. i \in 1 .. n - 1 /\ i + 1 \in 1 .. n
        BY <1>1, <3>2
      <4> QED  BY <1>5, <1>0, <4>1 DEF InlineInv, PathsInOrder
    <3> QED  BY <3>1, <3>2
  <2>2. Len(positions') - 1 = n
    BY <1>1, <1>5
  <2> QED  BY <2>1, <2>2 DEF PathsInOrder, Before
<1>16. Progress' /\ EndsSafe' /\ SpansTile'
  <2>1. flat' = 0 => blank'
    BY <1>1, <1>3, WalkTypes
  <2> QED  BY <1>3, <2>1, NoSentences, WalkTypes
<1> QED  BY <1>6, <1>8, <1>9, <1>10, <1>11, <1>12, <1>14, <1>15, <1>16 DEF InlineInv

-----------------------------------------------------------------------------
\* What is said of the positions stays true while they and the text stay the same.
LEMMA SamePositions ==
  ASSUME InlineInv, UNCHANGED <<flat, positions>>
  PROVE  Geometry' /\ PositionsTile' /\ Marked' /\ PathsInOrder'
<1>1. Geometry'
  BY DEF InlineInv, Geometry, Holds
<1>2. PositionsTile'
  BY DEF InlineInv, PositionsTile, StartOf
<1>3. Marked'
  BY DEF InlineInv, Marked, Unsplittable, UnderImage
<1>4. PathsInOrder'
  BY DEF InlineInv, PathsInOrder, Before
<1> QED  BY <1>1, <1>2, <1>3, <1>4

\* A container: the cursor goes to its first inline.
LEMMA EnterInline ==
  ASSUME InlineInv, NEW kind \in {"container", "image"}, NEW isAtomic \in BOOLEAN,
         kind = "image" => isAtomic, atomic => isAtomic, Enter(kind, isAtomic)
  PROVE  InlineInv'
<1> DEFINE level == [index |-> here, start |-> flat, kind |-> kind, atomic |-> atomic]
<1>0. PICK d \in Nat : d = Len(stack)
  BY WalkTypes
<1>1. /\ stack \in Seq(Level) /\ flat \in Nat /\ here \in Nat /\ count \in Nat /\ atomic \in BOOLEAN
  BY WalkTypes DEF TypeOK
<1>2. level \in Level
  BY <1>1 DEF Level
<1>3. /\ stack' = Append(stack, level) /\ here' = 0 /\ atomic' = isAtomic /\ count' = count + 1
      /\ stage = "walk" /\ UNCHANGED <<stage, flat, blank, positions, brk, spans>>
  BY DEF Enter, Meet
<1>4. level.index = here /\ level.start = flat /\ level.kind = kind /\ level.atomic = atomic
  OBVIOUS
<1> HIDE DEF level
<1>5. /\ stack' \in Seq(Level) /\ Len(stack') = d + 1 /\ stack'[d + 1] = level
      /\ \A k \in 1 .. d : stack'[k] = stack[k]
  BY <1>0, <1>1, <1>2, <1>3
<1>6. TypeOK'
  <2>1. blank' \in BOOLEAN /\ atomic' \in BOOLEAN
    BY <1>3, WalkTypes DEF TypeOK
  <2>2. /\ stage' \in {"walk", "segment", "done"} /\ brk' \in Nat /\ flat' \in Nat
        /\ positions' \in Seq(Position) /\ spans' \in Seq(Span) /\ here' \in Nat /\ count' \in Nat
    BY <1>1, <1>3, WalkTypes DEF TypeOK
  <2> QED  BY <1>5, <2>1, <2>2 DEF TypeOK
<1>7. \A k \in 1 .. d + 1 : k = d + 1 \/ k \in 1 .. d
  OBVIOUS
<1>8. LevelStarts'
  BY <1>0, <1>1, <1>3, <1>4, <1>5, <1>7 DEF InlineInv, LevelStarts
<1>9. ImagesAtomic'
  <2>1. \A j \in 1 .. d : stack[j].kind = "image" => atomic
    BY <1>0 DEF InlineInv, ImagesAtomic
  <2>2. \A j, k \in 1 .. d + 1 : stack'[j].kind = "image" /\ j < k => stack'[k].atomic
    <3> SUFFICES ASSUME NEW j \in 1 .. d + 1, NEW k \in 1 .. d + 1, stack'[j].kind = "image", j < k
                 PROVE  stack'[k].atomic
      OBVIOUS
    <3>1. j \in 1 .. d /\ stack[j].kind = "image"
      BY <1>5
    <3>2. CASE k = d + 1
      BY <1>4, <1>5, <2>1, <3>1, <3>2
    <3>3. CASE k \in 1 .. d
      BY <1>0, <1>5, <3>1, <3>3 DEF InlineInv, ImagesAtomic
    <3> QED  BY <1>7, <3>2, <3>3
  <2>3. \A j \in 1 .. d + 1 : stack'[j].kind = "image" => atomic'
    BY <1>3, <1>4, <1>5, <1>7, <2>1
  <2> QED  BY <1>5, <2>2, <2>3 DEF ImagesAtomic
<1>10. CursorAhead'
  <2>1. \A k \in 1 .. d + 1 : Cursor(k)' = Cursor(k)
    <3> SUFFICES ASSUME NEW k \in 1 .. d + 1 PROVE Cursor(k)' = Cursor(k)
      OBVIOUS
    <3>1. CASE k = d + 1
      BY <1>0, <1>4, <1>5, <3>1 DEF Cursor
    <3>2. CASE k \in 1 .. d
      BY <1>0, <1>5, <3>2 DEF Cursor
    <3> QED  BY <1>7, <3>1, <3>2
  <2> SUFFICES ASSUME Len(positions) > 0
               PROVE  LET p == positions[Len(positions)].path
                      IN \E k \in 1 .. Len(p) : /\ k <= d + 2
                                               /\ p[k].index < Cursor(k)'
                                               /\ \A j \in 1 .. k - 1 : p[j].index = Cursor(j)'
    BY <1>3, <1>5 DEF CursorAhead
  <2> DEFINE p == positions[Len(positions)].path
  <2>2. PICK k \in 1 .. Len(p) : /\ k <= d + 1
                                /\ p[k].index < Cursor(k)
                                /\ \A j \in 1 .. k - 1 : p[j].index = Cursor(j)
    BY <1>0 DEF InlineInv, CursorAhead
  <2>3. k \in 1 .. d + 1 /\ \A j \in 1 .. k - 1 : j \in 1 .. d + 1
    BY <2>2
  <2> QED  BY <2>1, <2>2, <2>3
<1>11. Progress' /\ EndsSafe' /\ SpansTile'
  BY <1>3, NoSentences, WalkTypes
<1> QED  BY <1>3, <1>6, <1>8, <1>9, <1>10, <1>11, SamePositions DEF InlineInv

\* The end of a container: the cursor goes past it.
LEMMA LeaveInline == ASSUME InlineInv, Leave PROVE InlineInv'
<1>1. /\ stack \in Seq(Level) /\ flat \in Nat /\ here \in Nat /\ count \in Nat /\ stack # <<>>
  BY WalkTypes DEF Leave
<1>0. PICK d \in Nat : Len(stack) = d + 1
  <2>1. Len(stack) \in Nat \ {0}
    BY <1>1, EmptySeq
  <2>2. Len(stack) - 1 \in Nat /\ Len(stack) = (Len(stack) - 1) + 1
    BY <2>1
  <2> QED  BY <2>2
<1>2. stack[d + 1] \in Level /\ stack[d + 1].index \in Nat /\ stack[d + 1].atomic \in BOOLEAN
  <2>1. stack[d + 1] \in Level
    BY <1>0, <1>1, ElementOfSeq
  <2> QED  BY <2>1 DEF Level
<1>3. /\ stack' = SubSeq(stack, 1, d) /\ here' = stack[d + 1].index + 1
      /\ atomic' = stack[d + 1].atomic
      /\ stage = "walk" /\ UNCHANGED <<stage, flat, blank, positions, count, brk, spans>>
  BY <1>0 DEF Leave
<1>4. /\ stack' \in Seq(Level) /\ Len(stack') = d
      /\ \A k \in 1 .. d : stack'[k] = stack[k]
  BY <1>0, <1>1, <1>3
<1>5. TypeOK'
  <2>1. blank' \in BOOLEAN /\ atomic' \in BOOLEAN
    BY <1>2, <1>3, WalkTypes DEF TypeOK
  <2>2. /\ stage' \in {"walk", "segment", "done"} /\ brk' \in Nat /\ flat' \in Nat
        /\ positions' \in Seq(Position) /\ spans' \in Seq(Span) /\ here' \in Nat /\ count' \in Nat
    BY <1>1, <1>2, <1>3, WalkTypes DEF TypeOK
  <2> QED  BY <1>4, <2>1, <2>2 DEF TypeOK
<1>6. LevelStarts'
  BY <1>0, <1>3, <1>4 DEF InlineInv, LevelStarts
<1>7. ImagesAtomic'
  <2>1. \A j \in 1 .. d : stack[j].kind = "image" => stack[d + 1].atomic
    BY <1>0 DEF InlineInv, ImagesAtomic
  <2>2. \A j, k \in 1 .. d : stack[j].kind = "image" /\ j < k => stack[k].atomic
    BY <1>0 DEF InlineInv, ImagesAtomic
  <2> QED  BY <1>3, <1>4, <2>1, <2>2 DEF ImagesAtomic
<1>8. CursorAhead'
  <2>1. \A k \in 1 .. d : Cursor(k)' = Cursor(k)
    BY <1>0, <1>4 DEF Cursor
  <2>2. Cursor(d + 1)' = Cursor(d + 1) + 1 /\ Cursor(d + 1) \in Nat
    BY <1>0, <1>2, <1>3, <1>4 DEF Cursor
  <2> SUFFICES ASSUME Len(positions) > 0
               PROVE  LET p == positions[Len(positions)].path
                      IN \E k \in 1 .. Len(p) : /\ k <= d + 1
                                               /\ p[k].index < Cursor(k)'
                                               /\ \A j \in 1 .. k - 1 : p[j].index = Cursor(j)'
    BY <1>3, <1>4 DEF CursorAhead
  <2> DEFINE p == positions[Len(positions)].path
  <2>3. PICK k \in 1 .. Len(p) : /\ k <= d + 2
                                /\ p[k].index < Cursor(k)
                                /\ \A j \in 1 .. k - 1 : p[j].index = Cursor(j)
    BY <1>0 DEF InlineInv, CursorAhead
  <2>4. p \in Seq(Step)
    <3>1. Len(positions) \in 1 .. Len(positions)
      BY WalkTypes
    <3> QED  BY <3>1, PositionTypes, WalkTypes DEF Position
  <2>5. \A j \in 1 .. Len(p) : p[j].index \in Nat
    <3>1. \A j \in 1 .. Len(p) : p[j] \in Step
      BY <2>4, ElementOfSeq
    <3> QED  BY <3>1 DEF Step
  <2> HIDE DEF p, Cursor
  <2>6. CASE k <= d
    <3>1. k \in 1 .. d /\ \A j \in 1 .. k - 1 : j \in 1 .. d
      BY <2>6
    <3>2. /\ k <= d + 1 /\ p[k].index < Cursor(k)'
          /\ \A j \in 1 .. k - 1 : p[j].index = Cursor(j)'
      BY <2>1, <2>3, <3>1
    <3> QED  BY <3>2 DEF p
  <2>7. CASE k = d + 1
    <3>1. \A j \in 1 .. k - 1 : j \in 1 .. d
      BY <2>7
    <3>2. p[k].index < Cursor(k)'
      BY <2>2, <2>3, <2>5, <2>7
    <3>3. k <= d + 1 /\ \A j \in 1 .. k - 1 : p[j].index = Cursor(j)'
      BY <2>1, <2>3, <2>7, <3>1
    <3> QED  BY <3>2, <3>3 DEF p
  <2>8. CASE k = d + 2
    <3>1. d + 1 \in 1 .. Len(p) /\ d + 1 \in 1 .. k - 1 /\ \A j \in 1 .. (d + 1) - 1 : j \in 1 .. d /\ j \in 1 .. k - 1
      BY <2>4, <2>8, LenProperties
    <3>2. p[d + 1].index = Cursor(d + 1)
      BY <2>3, <3>1
    <3>3. p[d + 1].index < Cursor(d + 1)'
      BY <2>2, <3>2
    <3>4. \A j \in 1 .. (d + 1) - 1 : p[j].index = Cursor(j)'
      BY <2>1, <2>3, <3>1
    <3> QED  BY <3>1, <3>3, <3>4 DEF p
  <2> QED  BY <2>3, <2>6, <2>7, <2>8
<1>9. Progress' /\ EndsSafe' /\ SpansTile'
  BY <1>3, NoSentences, WalkTypes
<1> QED  BY <1>3, <1>5, <1>6, <1>7, <1>8, <1>9, SamePositions DEF InlineInv

\* A note: the cursor goes past it.
LEMMA NoteInline == ASSUME InlineInv, Note PROVE InlineInv'
<1>0. PICK d \in Nat : d = Len(stack)
  BY WalkTypes
<1>1. /\ here' = here + 1 /\ here \in Nat /\ count' = count + 1 /\ count \in Nat /\ stage = "walk"
      /\ UNCHANGED <<stage, flat, blank, positions, stack, atomic, brk, spans>>
  BY WalkTypes DEF Note, Meet
<1>2. TypeOK'
  BY <1>1, WalkTypes DEF TypeOK
<1>3. LevelStarts' /\ ImagesAtomic'
  BY <1>1 DEF InlineInv, LevelStarts, ImagesAtomic
<1>4. CursorAhead'
  <2>1. \A k \in 1 .. d : Cursor(k)' = Cursor(k)
    BY <1>0, <1>1 DEF Cursor
  <2>2. Cursor(d + 1)' = Cursor(d + 1) + 1 /\ Cursor(d + 1) \in Nat
    BY <1>0, <1>1 DEF Cursor
  <2> SUFFICES ASSUME Len(positions) > 0
               PROVE  LET p == positions[Len(positions)].path
                      IN \E k \in 1 .. Len(p) : /\ k <= d + 1
                                               /\ p[k].index < Cursor(k)'
                                               /\ \A j \in 1 .. k - 1 : p[j].index = Cursor(j)'
    BY <1>0, <1>1 DEF CursorAhead
  <2> DEFINE p == positions[Len(positions)].path
  <2>3. PICK k \in 1 .. Len(p) : /\ k <= d + 1
                                /\ p[k].index < Cursor(k)
                                /\ \A j \in 1 .. k - 1 : p[j].index = Cursor(j)
    BY <1>0 DEF InlineInv, CursorAhead
  <2>4. p \in Seq(Step)
    <3>1. Len(positions) \in 1 .. Len(positions)
      BY WalkTypes
    <3> QED  BY <3>1, PositionTypes, WalkTypes DEF Position
  <2>5. p[k].index \in Nat
    <3>1. p[k] \in Step
      BY <2>4, ElementOfSeq
    <3> QED  BY <3>1 DEF Step
  <2> HIDE DEF p, Cursor
  <2>6. \A j \in 1 .. k - 1 : j \in 1 .. d
    BY <2>3
  <2>7. p[k].index < Cursor(k)'
    <3>1. CASE k = d + 1
      BY <2>2, <2>3, <2>5, <3>1
    <3>2. CASE k # d + 1
      BY <2>1, <2>3, <3>2
    <3> QED  BY <3>1, <3>2
  <2>8. k <= d + 1 /\ \A j \in 1 .. k - 1 : p[j].index = Cursor(j)'
    BY <2>1, <2>3, <2>6
  <2> QED  BY <2>7, <2>8 DEF p
<1>5. Progress' /\ EndsSafe' /\ SpansTile'
  BY <1>1, NoSentences, WalkTypes
<1> QED  BY <1>1, <1>2, <1>3, <1>4, <1>5, SamePositions DEF InlineInv

-----------------------------------------------------------------------------
\* The walk is over: nothing of a text that is not blank is in a sentence yet.
LEMMA SegmentInline == ASSUME InlineInv, Segment PROVE InlineInv'
<1>1. /\ stage = "walk" /\ stage' = IF blank THEN "done" ELSE "segment"
      /\ UNCHANGED <<flat, blank, positions, stack, here, atomic, count, brk, spans>>
  BY DEF Segment
<1>2. /\ TypeOK /\ spans = <<>> /\ brk = 0 /\ flat \in Nat /\ blank \in BOOLEAN
      /\ flat = 0 => blank
  BY <1>1, WalkTypes DEF TypeOK
<1>3. TypeOK'
  BY <1>1, <1>2 DEF TypeOK
<1>4. LevelStarts' /\ ImagesAtomic' /\ CursorAhead'
  BY <1>1 DEF InlineInv, LevelStarts, ImagesAtomic, CursorAhead, Cursor
<1>5. Progress'
  <2>1. Safe(0)' = 0 /\ EndOf(0)' = 0
    <3>1. Safe(0) = 0
      BY SafeAtEnds DEF InlineInv
    <3>2. Safe(0)' = Safe(0)
      BY <1>1 DEF Safe, InAtom, Holding, Holds, First, NearestEnd
    <3> QED  BY <3>1, <3>2 DEF EndOf
  <2>2. Len(spans)' = 0 /\ brk' = 0
    BY <1>1, <1>2
  <2>3. stage' # "walk" /\ ~blank' => EndOf(Len(spans))' = Safe(brk)'
    BY <2>1, <2>2
  <2>4. /\ flat' = 0 => blank'
        /\ stage' = "walk" \/ blank' => brk' = 0 /\ spans' = <<>>
        /\ stage' = "segment" => ~blank' /\ brk' < flat'
        /\ stage' = "done" /\ ~blank' => brk' = flat'
    BY <1>1, <1>2
  <2> QED  BY <2>3, <2>4 DEF Progress
<1>6. EndsSafe'
  BY <1>1, <1>2 DEF EndsSafe
<1>7. SpansTile'
  BY <1>1, <1>2 DEF SpansTile, EndOf
<1> QED  BY <1>1, <1>3, <1>4, <1>5, <1>6, <1>7, SamePositions DEF InlineInv

\* One window: a sentence from the last end to the next boundary, or none if both moved to
\* the same place.
LEMMA WindowInline == ASSUME InlineInv, NEW next \in 1 .. flat, Window(next) PROVE InlineInv'
<1>1. /\ stage = "segment" /\ brk < next /\ brk' = next
      /\ spans' = spans \o Sentence(Safe(brk), next)
      /\ stage' = IF next = flat THEN "done" ELSE "segment"
      /\ UNCHANGED <<flat, blank, positions, stack, here, atomic, count>>
  BY DEF Window
<1>2. /\ TypeOK /\ Geometry /\ flat \in Nat /\ brk \in Nat /\ spans \in Seq(Span) /\ ~blank
  BY <1>1 DEF InlineInv, TypeOK, Progress
<1>3. ASSUME NEW b \in 0 .. flat PROVE Safe(b)' = Safe(b)
  <2>1. positions' = positions
    BY <1>1
  <2> QED  BY ONLY <2>1 DEF Safe, InAtom, Holding, Holds, First, NearestEnd
<1>4. PICK b \in 0 .. flat : b = brk
  BY <1>1, <1>2
<1>5. PICK n \in Nat, e \in Nat, f \in Nat : n = Len(spans) /\ e = Safe(b) /\ f = Safe(next)
  <2>1. Safe(b) \in Nat /\ Safe(next) \in Nat
    <3>1. next \in 0 .. flat
      BY <1>2
    <3>2. Safe(b) \in 0 .. flat /\ Safe(next) \in 0 .. flat
      BY <1>2, <3>1, SafeInText
    <3> QED  BY <1>2, <3>2
  <2> QED  BY <1>2, <2>1, LenProperties
<1>6. EndOf(n) = e
  BY <1>1, <1>2, <1>4, <1>5 DEF InlineInv, Progress
<1>7. e <= f /\ (next <= e => f = e)
  BY <1>1, <1>2, <1>4, <1>5, SafeMonotone
<1>8. spans' = spans \o (IF e < next /\ e < f THEN <<[start |-> e, end |-> f]>> ELSE <<>>)
  BY <1>1, <1>4, <1>5 DEF Sentence
<1>9. TypeOK'
  <2>1. [start |-> e, end |-> f] \in Span
    BY DEF Span
  <2>2. (IF e < next /\ e < f THEN <<[start |-> e, end |-> f]>> ELSE <<>>) \in Seq(Span)
    BY <2>1
  <2>3. spans' \in Seq(Span)
    BY <1>2, <1>8, <2>2, ConcatProperties
  <2>4. stage' \in {"walk", "segment", "done"} /\ brk' \in Nat
    BY <1>1, <1>2
  <2>5. blank' \in BOOLEAN /\ atomic' \in BOOLEAN
    BY <1>1, <1>2 DEF TypeOK
  <2>6. /\ flat' \in Nat /\ count' \in Nat /\ here' \in Nat
        /\ positions' \in Seq(Position) /\ stack' \in Seq(Level)
    BY <1>1, <1>2 DEF TypeOK
  <2> QED  BY <2>3, <2>4, <2>5, <2>6 DEF TypeOK
<1>10. LevelStarts' /\ ImagesAtomic' /\ CursorAhead'
  BY <1>1 DEF InlineInv, LevelStarts, ImagesAtomic, CursorAhead, Cursor
<1>11. \A i \in 1 .. n : /\ spans[i].start = EndOf(i - 1) /\ spans[i].start < spans[i].end
                         /\ \E o \in 0 .. flat : spans[i].start = Safe(o)
                         /\ \E o \in 0 .. flat : spans[i].end = Safe(o)
  BY <1>5 DEF InlineInv, SpansTile, EndsSafe
<1>12. flat = next => f = flat
  BY <1>2, <1>5, SafeAtEnds
<1>13. CASE e < next /\ e < f
  <2> DEFINE new == [start |-> e, end |-> f]
  <2>1. new \in Span /\ new.start = e /\ new.end = f
    BY DEF Span
  <2> HIDE DEF new
  <2>2. /\ Len(spans') = n + 1 /\ spans'[n + 1] = new /\ \A i \in 1 .. n : spans'[i] = spans[i]
    <3>1. spans' = spans \o <<new>>
      BY <1>8, <1>13 DEF new
    <3> QED  BY <1>2, <1>5, <2>1, <3>1
  <2>3. \A i \in 0 .. n : EndOf(i)' = EndOf(i)
    BY <2>2 DEF EndOf
  <2>4. EndOf(n + 1)' = f
    BY <2>1, <2>2 DEF EndOf
  <2>5. ASSUME NEW i \in 1 .. n + 1
        PROVE  /\ spans'[i].start = EndOf(i - 1)' /\ spans'[i].start < spans'[i].end
               /\ \E o \in 0 .. flat : spans'[i].start = Safe(o)
               /\ \E o \in 0 .. flat : spans'[i].end = Safe(o)
    <3>1. CASE i = n + 1
      <4>1. (n + 1) - 1 = n /\ n \in 0 .. n /\ next \in 0 .. flat
        BY <1>2
      <4>2. EndOf((n + 1) - 1)' = e
        BY <1>6, <2>3, <4>1
      <4>3. spans'[n + 1].start = e /\ spans'[n + 1].end = f
        BY <2>1, <2>2
      <4> QED  BY <1>5, <1>13, <3>1, <4>1, <4>2, <4>3
    <3>2. CASE i # n + 1
      <4>1. i \in 1 .. n /\ i - 1 \in 0 .. n
        BY <3>2
      <4>2. EndOf(i - 1)' = EndOf(i - 1)
        BY <2>3, <4>1
      <4> QED  BY <1>11, <2>2, <4>1, <4>2
    <3> QED  BY <3>1, <3>2
  <2>6. EndOf(Len(spans))' = f
    BY <2>2, <2>4
  <2> HIDE DEF EndOf
  <2>7. Progress'
    <3>1. Safe(next)' = f
      BY <1>2, <1>3, <1>5
    <3>2. EndOf(Len(spans))' = Safe(brk)'
      BY <1>1, <2>6, <3>1
    <3> QED  BY <1>1, <1>2, <3>2 DEF Progress
  <2>8. EndsSafe'
    <3>1. \A i \in 1 .. n + 1 : /\ \E o \in 0 .. flat' : spans'[i].start = Safe(o)'
                               /\ \E o \in 0 .. flat' : spans'[i].end = Safe(o)'
      BY <1>1, <1>3, <2>5
    <3> QED  BY <2>2, <3>1 DEF EndsSafe
  <2>9. SpansTile'
    <3>1. stage' = "done" => flat = next
      BY <1>1
    <3>2. stage' = "done" => EndOf(Len(spans))' = IF blank' THEN 0 ELSE flat'
      BY <1>1, <1>2, <1>12, <2>6, <3>1
    <3>3. \A i \in 1 .. Len(spans)' : spans'[i].start = EndOf(i - 1)' /\ spans'[i].start < spans'[i].end
      BY <2>2, <2>5
    <3> QED  BY <3>2, <3>3 DEF SpansTile
  <2> QED  BY <1>1, <1>9, <1>10, <2>7, <2>8, <2>9, SamePositions DEF InlineInv
<1>14. CASE ~ (e < next /\ e < f)
  <2>1. spans' = spans
    BY <1>2, <1>8, <1>14, ConcatEmptySeq
  <2>2. f = e
    BY <1>7, <1>14
  <2>3. \A i \in 0 .. n : EndOf(i)' = EndOf(i)
    BY <2>1 DEF EndOf
  <2>4. EndOf(Len(spans))' = f
    <3>1. EndOf(n)' = f
      BY <1>6, <2>2, <2>3
    <3>2. Len(spans)' = n
      BY <1>5, <2>1
    <3> QED  BY <3>1, <3>2
  <2> HIDE DEF EndOf
  <2>5. Progress'
    <3>1. Safe(next)' = f
      BY <1>2, <1>3, <1>5
    <3>2. EndOf(Len(spans))' = Safe(brk)'
      BY <1>1, <2>4, <3>1
    <3> QED  BY <1>1, <1>2, <3>2 DEF Progress
  <2>6. EndsSafe'
    <3>1. \A i \in 1 .. n : /\ \E o \in 0 .. flat' : spans'[i].start = Safe(o)'
                           /\ \E o \in 0 .. flat' : spans'[i].end = Safe(o)'
      BY <1>1, <1>3, <1>11, <2>1
    <3> QED  BY <1>5, <2>1, <3>1 DEF EndsSafe
  <2>7. SpansTile'
    <3>1. stage' = "done" => flat = next
      BY <1>1
    <3>2. stage' = "done" => EndOf(Len(spans))' = IF blank' THEN 0 ELSE flat'
      BY <1>1, <1>2, <1>12, <2>4, <3>1
    <3>3. \A i \in 1 .. n : EndOf(i - 1)' = EndOf(i - 1)
      BY <2>3
    <3>4. \A i \in 1 .. Len(spans)' : spans'[i].start = EndOf(i - 1)' /\ spans'[i].start < spans'[i].end
      BY <1>5, <1>11, <2>1, <3>3
    <3> QED  BY <3>2, <3>4 DEF SpansTile
  <2> QED  BY <1>1, <1>9, <1>10, <2>5, <2>6, <2>7, SamePositions DEF InlineInv
<1> QED  BY <1>13, <1>14

\* A step in which nothing changes.
LEMMA StutterInline == ASSUME InlineInv, UNCHANGED vars PROVE InlineInv'
<1>1. /\ TypeOK' /\ LevelStarts' /\ ImagesAtomic' /\ CursorAhead'
  BY DEF InlineInv, vars, TypeOK, LevelStarts, ImagesAtomic, CursorAhead, Cursor
<1>2. ASSUME NEW b \in 0 .. flat PROVE Safe(b)' = Safe(b)
  BY DEF vars, Safe, InAtom, Holding, Holds, First, NearestEnd
<1>3. EndsSafe'
  BY <1>2 DEF InlineInv, vars, EndsSafe
<1>4. Progress'
  BY DEF InlineInv, vars, Progress, EndOf, Safe, InAtom, Holding, Holds, First, NearestEnd
<1>5. SpansTile'
  BY DEF InlineInv, vars, SpansTile, EndOf
<1>6. Geometry' /\ PositionsTile' /\ Marked' /\ PathsInOrder'
  BY SamePositions DEF vars
<1> QED  BY <1>1, <1>3, <1>4, <1>5, <1>6 DEF InlineInv

\* Every step.
LEMMA NextInline == InlineInv /\ [Next]_vars => InlineInv'
<1> SUFFICES ASSUME InlineInv, [Next]_vars PROVE InlineInv'
  OBVIOUS
<1>0. /\ atomic \in BOOLEAN /\ 1 \in Nat
      /\ (\E k \in 1 .. Len(stack) : stack[k].kind = "image") => atomic
  BY DEF InlineInv, TypeOK, ImagesAtomic
<1>1. ASSUME NEW len \in 0 .. MaxLen, NEW white \in {w \in BOOLEAN : len = 0 => w}, Str(len, white)
      PROVE  InlineInv'
  <2>1. len \in Nat /\ white \in BOOLEAN /\ (len = 0 => white)
    OBVIOUS
  <2>2. Run(len, white, "text", atomic)
    BY <1>1 DEF Str
  <2> QED  BY <1>0, <2>1, <2>2, RunInline
<1>2. ASSUME NEW len \in 0 .. MaxLen, NEW white \in {w \in BOOLEAN : len = 0 => w}, Atom(len, white)
      PROVE  InlineInv'
  <2>1. len \in Nat /\ white \in BOOLEAN /\ (len = 0 => white)
    OBVIOUS
  <2>2. Run(len, white, "atom", TRUE) /\ TRUE \in BOOLEAN
    BY <1>2 DEF Atom
  <2> QED  BY <2>1, <2>2, RunInline
<1>3. CASE Blank
  <2>1. Run(1, TRUE, "text", atomic) /\ TRUE \in BOOLEAN /\ (1 = 0 => TRUE)
    BY <1>3 DEF Blank
  <2> QED  BY <1>0, <2>1, RunInline
<1>4. CASE Container
  <2>1. Enter("container", atomic)
    BY <1>4 DEF Container
  <2> QED  BY <1>0, <2>1, EnterInline
<1>5. CASE Image
  <2>1. Enter("image", TRUE) /\ TRUE \in BOOLEAN
    BY <1>5 DEF Image
  <2> QED  BY <2>1, EnterInline
<1>6. CASE Leave \/ Note \/ Segment
  BY <1>6, LeaveInline, NoteInline, SegmentInline
<1>7. ASSUME NEW next \in 1 .. flat, Window(next) PROVE InlineInv'
  BY <1>7, WindowInline
<1>8. CASE Done \/ UNCHANGED vars
  BY <1>8, StutterInline DEF Done
<1> QED  BY <1>1, <1>2, <1>3, <1>4, <1>5, <1>6, <1>7, <1>8 DEF Next

\* The invariant of the walk and of the segmentation.
THEOREM InlineInvariance == Spec => []InlineInv
  BY InitInline, NextInline, PTL DEF Spec

\* The position index, the stack and the spans have their types throughout.
THEOREM InlineTypes == Spec => []TypeOK
<1>1. InlineInv => TypeOK
  BY DEF InlineInv
<1> QED  BY <1>1, InlineInvariance, PTL

\* The positions of a paragraph do not overlap and leave nothing of its text out, as the
\* doc of walk_inlines has it, for any nesting of inlines.
THEOREM IndexTiles == Spec => []PositionsTile
<1>1. InlineInv => PositionsTile
  BY DEF InlineInv
<1> QED  BY <1>1, InlineInvariance, PTL

\* No two positions have the same path, and paths grow with the positions.
THEOREM IndexPathsInOrder == Spec => []PathsInOrder
<1>1. InlineInv => PathsInOrder
  BY DEF InlineInv
<1> QED  BY <1>1, InlineInvariance, PTL

\* find_inline_position finds every offset of the text, both ends included.
THEOREM IndexComplete == Spec => []OffsetsFound
<1>1. InlineInv => OffsetsFound
  BY OffsetsAreFound DEF InlineInv
<1> QED  BY <1>1, InlineInvariance, PTL

\* Whatever the segmenter answers, the sentences are not empty, follow each other without
\* gap or overlap, and in the end cover all of a text that is not blank.
THEOREM SentencesTile == Spec => []SpansTile
<1>1. InlineInv => SpansTile
  BY DEF InlineInv
<1> QED  BY <1>1, InlineInvariance, PTL

\* Whatever the segmenter answers, no sentence begins or ends inside an atomic inline or
\* inside a run of an image's caption.
THEOREM SentencesKeepAtoms == Spec => []AtomsUncut
<1>1. InlineInv => AtomsUncut
  <2> SUFFICES ASSUME InlineInv, NEW i \in 1 .. Len(positions), NEW s \in 1 .. Len(spans),
                      Unsplittable(positions[i])
               PROVE  ~Inside(spans[s].start, positions[i]) /\ ~Inside(spans[s].end, positions[i])
    BY DEF AtomsUncut
  <2>1. positions[i].atomic
    BY DEF InlineInv, Marked
  <2>2. PICK b \in 0 .. flat : spans[s].start = Safe(b)
    BY DEF InlineInv, EndsSafe
  <2>3. PICK c \in 0 .. flat : spans[s].end = Safe(c)
    BY DEF InlineInv, EndsSafe
  <2> QED  BY <2>1, <2>2, <2>3, SafeNotInside DEF InlineInv
<1> QED  BY <1>1, InlineInvariance, PTL
=============================================================================
