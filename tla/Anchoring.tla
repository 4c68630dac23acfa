----------------------------- MODULE Anchoring ------------------------------
(***************************************************************************)
(* An annotation on a span of a text that is edited afterwards: the        *)
(* selectors annotation/reconcile.rs makes of the span, and how            *)
(* annotation/anchoring.rs finds the span again in the text as it is now.  *)
(*                                                                         *)
(* A text is a sequence of UTF-8 bytes and an offset counts bytes; a Wide  *)
(* character has two, the second being Cont.  Slicing a text inside a      *)
(* character panics.  A Sep stands for white space and punctuation.        *)
(*                                                                         *)
(* Definitions named Slip... are plausible slips in the definition that    *)
(* follows them; no specification uses them.                               *)
(***************************************************************************)
EXTENDS Integers, Sequences, FiniteSets

CONSTANTS
  Letter,   \* characters of one byte
  Wide,     \* letters of two bytes
  Sep,      \* the separator
  Cont,     \* the second byte of a wide letter
  NoAnno,   \* before the annotation
  Orphan,   \* no span (None, AnchorStatus::Orphan)
  Panic,    \* the call does not return
  Gone,     \* the annotated text was edited itself
  Context,  \* bytes of prefix and suffix, 64 in the code
  MaxLen,   \* bound: bytes of the text
  MaxEdits  \* bound: edits after the annotation

Byte == Letter \cup Wide \cup {Sep, Cont}
Encode(c) == IF c \in Wide THEN <<c, Cont>> ELSE <<c>>
Char == Letter \cup Wide \cup {Sep}

Kinds == {"both", "position", "quote"}
Anno == [kind : Kinds, start : Nat, end : Nat,
         exact : Seq(Byte), prefix : Seq(Byte), suffix : Seq(Byte)]

Span == [start : Nat, end : Nat]

ASSUME ValuesAssumption ==
  /\ Cont \notin Letter \cup Wide \cup {Sep}
  /\ Sep \notin Letter \cup Wide
  /\ Letter \cap Wide = {}
  /\ NoAnno \notin Anno
  /\ Gone \notin Span
  /\ Orphan # Panic
  /\ \A r \in {Orphan, Panic} : r \notin Span \cup {"active", "active_partial"}
ASSUME BoundsAssumption == Context \in Nat \ {0} /\ MaxLen \in Nat /\ MaxEdits \in Nat

VARIABLES
  text,   \* the plain text
  anno,   \* the annotation's selectors, or NoAnno
  truth,  \* history: where the annotated bytes are now, or Gone
  edits   \* edits since the annotation

vars == <<text, anno, truth, edits>>

-----------------------------------------------------------------------------
(* &text[from..to] *)
OnBoundary(t, o) == o = Len(t) \/ (o \in 0 .. Len(t) - 1 /\ t[o + 1] # Cont)
Sliceable(t, from, to) == from <= to /\ OnBoundary(t, from) /\ OnBoundary(t, to)
Slice(t, from, to) == SubSeq(t, from + 1, to)
Least(S) == CHOOSE i \in S : \A j \in S : i <= j
SmallerOf(m, n) == IF m <= n THEN m ELSE n

Chars(t) == SelectSeq(t, LAMBDA c : c # Cont)
IsWord(c) == c \in Letter \cup Wide

(* find_word_boundary_left and _right count characters. *)
WordStarts(t) == {i \in 1 .. Len(Chars(t)) - 1 : Chars(t)[i] = Sep /\ IsWord(Chars(t)[i + 1])}
WordEnds(t) == {i \in 1 .. Len(Chars(t)) - 1 : IsWord(Chars(t)[i]) /\ Chars(t)[i + 1] = Sep}

(* build_prefix_context: up to Context bytes before the span, from the     *)
(* first start of a word in them on.                                       *)
PrefixFrom(s) == s - SmallerOf(Context, s)
RawPrefix(s) == Slice(text, PrefixFrom(s), s)
PrefixCut(s) == IF WordStarts(RawPrefix(s)) = {} THEN 0 ELSE Least(WordStarts(RawPrefix(s)))
Prefix(s) == Slice(RawPrefix(s), PrefixCut(s), Len(RawPrefix(s)))
PrefixPanics(s) == ~OnBoundary(text, PrefixFrom(s)) \/ ~OnBoundary(RawPrefix(s), PrefixCut(s))

(* build_suffix_context: up to Context bytes after it, to the first end of *)
(* a word in them.                                                         *)
SuffixTo(e) == e + SmallerOf(Context, Len(text) - e)
RawSuffix(e) == Slice(text, e, SuffixTo(e))
SuffixCut(e) == IF WordEnds(RawSuffix(e)) = {} THEN Len(RawSuffix(e))
                ELSE Least(WordEnds(RawSuffix(e)))
Suffix(e) == Slice(RawSuffix(e), 0, SuffixCut(e))
SuffixPanics(e) == ~OnBoundary(text, SuffixTo(e)) \/ ~OnBoundary(RawSuffix(e), SuffixCut(e))

ReconcilePanics(s, e) == PrefixPanics(s) \/ SuffixPanics(e)

(* reconcile_selectors gives both selectors; an annotation may also have   *)
(* the position alone, or a quote without context.                         *)
Selectors(kind, s, e) ==
  [kind |-> kind, start |-> s, end |-> e, exact |-> Slice(text, s, e),
   prefix |-> IF kind = "both" THEN Prefix(s) ELSE <<>>,
   suffix |-> IF kind = "both" THEN Suffix(e) ELSE <<>>]

-----------------------------------------------------------------------------
(* match_indices: the occurrences from the left, none overlapping one that *)
(* was taken.                                                              *)
OccursAt(t, w, i) == i + Len(w) <= Len(t) /\ Slice(t, i, i + Len(w)) = w
Matches(t, w) ==
  LET taken[i \in 0 .. Len(t)] ==
        OccursAt(t, w, i) /\ \A j \in 0 .. i - 1 : i < j + Len(w) => ~taken[j]
  IN {i \in 0 .. Len(t) : taken[i]}

(* disambiguate_matches: one point for the prefix, one for the suffix, and *)
(* the first match with the most points.                                   *)
ComparesPrefix(a, i) == a.prefix # <<>> /\ i >= Len(a.prefix)
PrefixAgrees(t, a, i) ==
  ComparesPrefix(a, i) /\ Slice(t, i - Len(a.prefix), i) = a.prefix

SuffixStart(a, i) == i + Len(a.exact)
SuffixEnd(t, a, i) == SmallerOf(SuffixStart(a, i) + Len(a.suffix), Len(t))
ComparesSuffix(t, a, i) == a.suffix # <<>> /\ SuffixEnd(t, a, i) > SuffixStart(a, i)
SuffixAgrees(t, a, i) ==
  ComparesSuffix(t, a, i) /\ Slice(t, SuffixStart(a, i), SuffixEnd(t, a, i)) = a.suffix

ScorePanics(t, a, i) ==
  \/ ComparesPrefix(a, i) /\ ~OnBoundary(t, i - Len(a.prefix))
  \/ ComparesSuffix(t, a, i) /\ ~OnBoundary(t, SuffixEnd(t, a, i))

Score(t, a, i) ==
  (IF PrefixAgrees(t, a, i) THEN 1 ELSE 0) + (IF SuffixAgrees(t, a, i) THEN 1 ELSE 0)

Best(t, a, M) == Least({i \in M : \A j \in M : Score(t, a, j) <= Score(t, a, i)})

(* find_quote_span *)
SlipSpanAt(a, i) == [start |-> i, end |-> i + Len(a.exact) - 1]
SpanAt(a, i) == [start |-> i, end |-> i + Len(a.exact)]
SlipFindQuote(t, a) ==
  LET M == Matches(t, a.exact) IN IF M = {} THEN Orphan ELSE SpanAt(a, Least(M))
FindQuote(t, a) ==
  LET M == Matches(t, a.exact)
  IN IF M = {} THEN Orphan
     ELSE IF Cardinality(M) = 1 THEN SpanAt(a, Least(M))
     ELSE IF \E i \in M : ScorePanics(t, a, i) THEN Panic
     ELSE SpanAt(a, Best(t, a, M))

(* resolve_annotation_span: the position, if it still has the quote or if  *)
(* there is no quote; otherwise the quote.                                 *)
InRange(t, a) == a.kind # "quote" /\ a.start <= Len(t) /\ a.end <= Len(t)

SlipResolve(t, a) ==
  IF a.kind # "position" /\ FindQuote(t, a) # Orphan THEN FindQuote(t, a)
  ELSE IF InRange(t, a) THEN [start |-> a.start, end |-> a.end] ELSE Orphan
Resolve(t, a) ==
  IF InRange(t, a) /\ a.kind = "position" THEN [start |-> a.start, end |-> a.end]
  ELSE IF InRange(t, a) /\ ~Sliceable(t, a.start, a.end) THEN Panic
  ELSE IF InRange(t, a) /\ Slice(t, a.start, a.end) = a.exact
    THEN [start |-> a.start, end |-> a.end]
  ELSE IF a.kind = "position" THEN Orphan
  ELSE FindQuote(t, a)

(* classify_anchor_status slices the text before it looks for a quote. *)
Classify(t, a) ==
  IF InRange(t, a) /\ ~Sliceable(t, a.start, a.end) THEN [status |-> Panic, span |-> Panic]
  ELSE IF InRange(t, a) /\ (a.kind = "position" \/ Slice(t, a.start, a.end) = a.exact)
    THEN [status |-> "active", span |-> [start |-> a.start, end |-> a.end]]
  ELSE IF a.kind # "position" /\ FindQuote(t, a) # Orphan
    THEN [status |-> "active_partial", span |-> FindQuote(t, a)]
  ELSE [status |-> Orphan, span |-> Orphan]

-----------------------------------------------------------------------------
(* The byte sequences that are texts. *)
Utf8(t) ==
  \A i \in 1 .. Len(t) : /\ t[i] = Cont <=> i > 1 /\ t[i - 1] \in Wide
                         /\ t[i] \in Wide => i < Len(t)

Init ==
  /\ text \in {t \in UNION {[1 .. n -> Byte] : n \in 1 .. MaxLen} : Utf8(t)}
  /\ anno = NoAnno /\ truth = Gone /\ edits = 0

(* A span of whole characters is annotated. *)
Annotate(kind, s, e) ==
  /\ anno = NoAnno
  /\ s < e
  /\ Sliceable(text, s, e)
  /\ kind = "both" => ~ReconcilePanics(s, e)
  /\ anno' = Selectors(kind, s, e)
  /\ truth' = [start |-> s, end |-> e]
  /\ UNCHANGED <<text, edits>>

(* The document is edited, one character at a time. *)
Edit == /\ anno # NoAnno
        /\ edits < MaxEdits
        /\ edits' = edits + 1
        /\ UNCHANGED anno

Moved(by) == [start |-> truth.start + by, end |-> truth.end + by]

Insert(c, at) ==
  /\ Edit
  /\ OnBoundary(text, at)
  /\ Len(text) + Len(Encode(c)) <= MaxLen
  /\ text' = Slice(text, 0, at) \o Encode(c) \o Slice(text, at, Len(text))
  /\ truth' = IF truth = Gone \/ at >= truth.end THEN truth
              ELSE IF at <= truth.start THEN Moved(Len(Encode(c)))
              ELSE Gone

Delete(from, to) ==
  /\ Edit
  /\ Len(Chars(Slice(text, from, to))) = 1
  /\ Sliceable(text, from, to)
  /\ text' = Slice(text, 0, from) \o Slice(text, to, Len(text))
  /\ truth' = IF truth = Gone \/ from >= truth.end THEN truth
              ELSE IF to <= truth.start THEN Moved(from - to)
              ELSE Gone

Next ==
  \/ \E kind \in Kinds, s, e \in 0 .. Len(text) : Annotate(kind, s, e)
  \/ \E c \in Char, at \in 0 .. Len(text) : Insert(c, at)
  \/ \E from \in 0 .. Len(text) : \E to \in {from + 1, from + 2} \cap 0 .. Len(text) :
        Delete(from, to)

Spec == Init /\ [][Next]_vars

-----------------------------------------------------------------------------
Quoted == anno # NoAnno /\ anno.kind # "position"

(* The text alone decides what becomes of an annotation with a quote, in   *)
(* whatever way it was edited and whichever selector is tried first: the   *)
(* annotation is an orphan only if its quote is nowhere in the text, and   *)
(* else resolves to a span that reads as the quote.                        *)
QuoteDecides ==
  Quoted => LET r == Resolve(text, anno)
            IN /\ r = Orphan => \A i \in 0 .. Len(text) : ~OccursAt(text, anno.exact, i)
               /\ r \notin {Orphan, Panic} => Slice(text, r.start, r.end) = anno.exact

(* The two cascades, which are written separately, agree on the span and   *)
(* on whether there is one.  Neither panics for want of text, however much *)
(* was deleted: only a character of more than one byte makes it panic.     *)
Narrow(t) == \A i \in 1 .. Len(t) : t[i] # Cont
CascadesAgree ==
  anno # NoAnno =>
     LET c == Classify(text, anno)
     IN /\ c.status # Panic =>
             /\ c.span = Resolve(text, anno)
             /\ c.status = Orphan <=> Resolve(text, anno) = Orphan
        /\ Narrow(text \o anno.exact \o anno.prefix \o anno.suffix) =>
             c.status # Panic /\ Resolve(text, anno) # Panic

(* An annotation whose span moved with the context it was given is found   *)
(* again among all other occurrences of its quote, if none of them has as  *)
(* much of the context and none has come to stand at the old position.     *)
FullScore(a) == (IF a.prefix # <<>> THEN 1 ELSE 0) + (IF a.suffix # <<>> THEN 1 ELSE 0)
OverlapsItself(w) ==
  \E k \in 1 .. Len(w) - 1 : SubSeq(w, 1, k) = SubSeq(w, Len(w) - k + 1, Len(w))
FollowsContext ==
  /\ Quoted /\ truth # Gone
  /\ ~OverlapsItself(anno.exact)
  /\ Score(text, anno, truth.start) = FullScore(anno)
  /\ \A i \in Matches(text, anno.exact) \ {truth.start} :
        /\ Score(text, anno, i) < FullScore(anno)
        /\ i # anno.start
  => Resolve(text, anno) \in {truth, Panic}

-----------------------------------------------------------------------------
(* The inductive invariant behind the theorems.  Every variable keeps its  *)
(* type; a span has as many bytes as its quote, and as long as an edit has *)
(* not touched it, truth is where the quote is.                            *)
TypeOK ==
  /\ text \in Seq(Byte)
  /\ anno # NoAnno => anno \in Anno
  /\ truth # Gone => truth \in Span

SpanTracked ==
  /\ anno # NoAnno => anno.start < anno.end /\ Len(anno.exact) = anno.end - anno.start
  /\ truth # Gone => /\ anno # NoAnno
                     /\ truth.end = truth.start + Len(anno.exact)
                     /\ OccursAt(text, anno.exact, truth.start)

AnchorInv == TypeOK /\ SpanTracked
=============================================================================
