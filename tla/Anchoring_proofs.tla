-------------------------- MODULE Anchoring_proofs --------------------------
(***************************************************************************)
(* Theorems about Anchoring for every alphabet, every length of a text and *)
(* of a context, and every number of edits.                                *)
(***************************************************************************)
EXTENDS Anchoring, SequenceTheorems, FiniteSetTheorems, WellFoundedInduction, TLAPS

-----------------------------------------------------------------------------
(* Slices and least numbers. *)

(* A slice between two offsets of a text.                                  *)
LEMMA SliceProps ==
  ASSUME NEW t \in Seq(Byte), NEW from \in Nat, NEW to \in Nat, from <= to, to <= Len(t)
  PROVE  /\ Slice(t, from, to) \in Seq(Byte)
         /\ Len(Slice(t, from, to)) = to - from
         /\ \A k \in 1 .. to - from : Slice(t, from, to)[k] = t[from + k]
<1>1. from + 1 \in 1 .. Len(t) + 1 /\ to \in from .. Len(t)
  BY LenProperties
<1>2. /\ SubSeq(t, from + 1, to) \in Seq(Byte)
      /\ Len(SubSeq(t, from + 1, to)) = to - from
      /\ \A k \in 1 .. to - from : SubSeq(t, from + 1, to)[k] = t[from + k]
  BY <1>1
<1>3. QED
  BY <1>2 DEF Slice

(* Two sequences, one after the other.                                     *)
LEMMA Concat ==
  ASSUME NEW S, NEW a \in Seq(S), NEW b \in Seq(S), NEW m \in Nat, NEW n \in Nat,
         Len(a) = m, Len(b) = n
  PROVE  /\ a \o b \in Seq(S)
         /\ Len(a \o b) = m + n
         /\ \A k \in 1 .. m : (a \o b)[k] = a[k]
         /\ \A k \in 1 .. n : (a \o b)[m + k] = b[k]
OBVIOUS

Join(a, x, b) == a \o x \o b

(* Three of them.                                                          *)
LEMMA Joined ==
  ASSUME NEW S, NEW a \in Seq(S), NEW x \in Seq(S), NEW b \in Seq(S),
         NEW l \in Nat, NEW m \in Nat, NEW n \in Nat,
         Len(a) = l, Len(x) = m, Len(b) = n,
         NEW r, r = Join(a, x, b), NEW lm \in Nat, lm = l + m
  PROVE  /\ r \in Seq(S)
         /\ Len(r) = lm + n
         /\ \A k \in 1 .. l : r[k] = a[k]
         /\ \A k \in 1 .. n : r[lm + k] = b[k]
<1> DEFINE ax == a \o x
<1>1. ax \in Seq(S)
  OBVIOUS
<1>2. Len(ax) = lm
  <2>1. Len(a \o x) = l + m
    BY Concat
  <2>2. QED
    BY <2>1
<1>3. \A k \in 1 .. l : ax[k] = a[k]
  BY Concat
<1> HIDE DEF ax
<1>4. ax \o b \in Seq(S)
  BY <1>1
<1>5. Len(ax \o b) = lm + n
  BY <1>1, <1>2, Concat
<1>6. \A k \in 1 .. lm : (ax \o b)[k] = ax[k]
  BY <1>1, <1>2
<1>7. \A k \in 1 .. n : (ax \o b)[lm + k] = b[k]
  BY <1>1, <1>2
<1>8. ASSUME NEW k \in 1 .. l PROVE (ax \o b)[k] = a[k]
  <2>1. k \in 1 .. lm
    OBVIOUS
  <2>2. QED
    BY <1>3, <1>6, <2>1
<1>9. QED
  BY <1>4, <1>5, <1>7, <1>8 DEF ax, Join

(* An occurrence, byte by byte. *)
LEMMA OccursBytes ==
  ASSUME NEW t \in Seq(Byte), NEW w \in Seq(Byte), NEW i \in Nat
  PROVE  OccursAt(t, w, i) <=> /\ i + Len(w) <= Len(t)
                               /\ \A k \in 1 .. Len(w) : t[i + k] = w[k]
<1>1. /\ Len(t) \in Nat /\ Len(w) \in Nat /\ i + Len(w) \in Nat
      /\ i <= i + Len(w) /\ (i + Len(w)) - i = Len(w)
  BY LenProperties
<1>2. SUFFICES ASSUME i + Len(w) <= Len(t)
               PROVE  Slice(t, i, i + Len(w)) = w <=> \A k \in 1 .. Len(w) : t[i + k] = w[k]
  BY DEF OccursAt
<1> DEFINE to == i + Len(w)
           s == Slice(t, i, to)
<1>3. to \in Nat /\ i <= to /\ to <= Len(t) /\ to - i = Len(w)
  BY <1>1, <1>2
<1> HIDE DEF to
<1>4. s \in Seq(Byte) /\ Len(s) = to - i /\ \A k \in 1 .. to - i : s[k] = t[i + k]
  BY <1>3, SliceProps
<1> HIDE DEF s
<1>5. s = w <=> \A k \in 1 .. Len(w) : s[k] = w[k]
  BY <1>3, <1>4, SeqEqual
<1>6. s = w <=> \A k \in 1 .. Len(w) : t[i + k] = w[k]
  BY <1>3, <1>4, <1>5
<1>7. QED
  BY <1>6 DEF s, to

(* A set of numbers that is not empty has the least number that Least      *)
(* chooses.                                                                *)
LEMMA LeastMember ==
  ASSUME NEW A \in SUBSET Nat, A # {}
  PROVE  Least(A) \in A /\ \A k \in A : Least(A) <= k
<1> DEFINE less == {ss \in Nat \X Nat : ss[1] < ss[2]}
<1>1. IsWellFoundedOn(less, Nat)
  BY NatLessThanWellFounded DEF OpToRel
<1> HIDE DEF less
<1>2. PICK m \in A : \A k \in A : ~ (<<k, m>> \in less)
  BY <1>1, WFMin
<1>3. ASSUME NEW k \in A PROVE m <= k
  <2>1. k \in Nat /\ m \in Nat /\ ~ (<<k, m>> \in less)
    BY <1>2
  <2>2. <<k, m>> \in Nat \X Nat /\ <<k, m>>[1] = k /\ <<k, m>>[2] = m
    BY <2>1
  <2>3. ~ (k < m)
    BY <2>1, <2>2 DEF less
  <2>4. QED
    BY <2>1, <2>3
<1>4. QED
  BY <1>2, <1>3 DEF Least

-----------------------------------------------------------------------------
(* match_indices takes an occurrence if none it overlaps was taken before. *)

Greedy(t, w, n, f) ==
  /\ f \in [0 .. n -> BOOLEAN]
  /\ \A i \in 0 .. n :
       f[i] = (OccursAt(t, w, i) /\ \A j \in 0 .. i - 1 : i < j + Len(w) => ~f[j])

(* The scan that goes one byte further exists if the shorter one does.     *)
LEMMA GreedyExists ==
  ASSUME NEW t, NEW w, NEW n \in Nat
  PROVE  \E f : Greedy(t, w, n, f)
<1> DEFINE Failing == {m \in Nat : ~ \E f : Greedy(t, w, m, f)}
<1>1. SUFFICES ASSUME Failing # {} PROVE FALSE
  OBVIOUS
<1> DEFINE m == Least(Failing)
<1>2. /\ m \in Nat /\ ~ \E f : Greedy(t, w, m, f)
      /\ \A k \in Failing : m <= k
  BY <1>1, LeastMember
<1> HIDE DEF m
<1>3. CASE m = 0
  <2> DEFINE f == [i \in 0 .. 0 |-> OccursAt(t, w, 0)]
  <2>1. f[0] = OccursAt(t, w, 0) /\ f \in [0 .. 0 -> BOOLEAN]
    BY DEF OccursAt
  <2>2. 0 .. 0 = {0} /\ 0 .. 0 - 1 = {}
    OBVIOUS
  <2> HIDE DEF f
  <2>3. \A j \in 0 .. 0 - 1 : 0 < j + Len(w) => ~f[j]
    BY <2>2
  <2>4. OccursAt(t, w, 0) \in BOOLEAN
    BY DEF OccursAt
  <2>5. Greedy(t, w, 0, f)
    BY <2>1, <2>2, <2>3, <2>4 DEF Greedy
  <2>6. QED
    BY <1>2, <1>3, <2>5
<1>4. CASE m # 0
  <2>1. m - 1 \in Nat /\ m - 1 \notin Failing
    BY <1>2, <1>4
  <2>2. PICK g : Greedy(t, w, m - 1, g)
    BY <2>1
  <2> DEFINE here == OccursAt(t, w, m) /\ \A j \in 0 .. m - 1 : m < j + Len(w) => ~g[j]
             f == [i \in 0 .. m |-> IF i = m THEN here ELSE g[i]]
  <2>3. here \in BOOLEAN
    BY DEF OccursAt
  <2>4. 0 .. m = (0 .. m - 1) \cup {m} /\ m \notin 0 .. m - 1
    BY <1>2, <1>4
  <2>5. f \in [0 .. m -> BOOLEAN] /\ f[m] = here /\ \A i \in 0 .. m - 1 : f[i] = g[i]
    BY <2>2, <2>3, <2>4 DEF Greedy
  <2> HIDE DEF f
  <2>6. ASSUME NEW i \in 0 .. m
        PROVE  f[i] = (OccursAt(t, w, i) /\ \A j \in 0 .. i - 1 : i < j + Len(w) => ~f[j])
    <3>1. \A j \in 0 .. i - 1 : f[j] = g[j]
      BY <1>2, <2>5
    <3>2. CASE i = m
      <4>1. (\A j \in 0 .. m - 1 : m < j + Len(w) => ~f[j])
              <=> (\A j \in 0 .. m - 1 : m < j + Len(w) => ~g[j])
        BY <2>5
      <4>2. QED
        BY <2>5, <3>2, <4>1
    <3>3. CASE i \in 0 .. m - 1
      BY <2>2, <2>5, <3>1, <3>3 DEF Greedy
    <3>4. QED
      BY <2>4, <3>2, <3>3
  <2>7. Greedy(t, w, m, f)
    BY <2>5, <2>6 DEF Greedy
  <2>8. QED
    BY <1>2, <2>7
<1>5. QED
  BY <1>3, <1>4

(* match_indices takes an occurrence unless it overlaps one taken before.  *)
LEMMA MatchesTaken ==
  ASSUME NEW t, NEW w, Len(t) \in Nat
  PROVE  /\ Matches(t, w) \subseteq 0 .. Len(t)
         /\ \A i \in 0 .. Len(t) :
              i \in Matches(t, w) <=>
                /\ OccursAt(t, w, i)
                /\ \A j \in 0 .. i - 1 : i < j + Len(w) => j \notin Matches(t, w)
<1> DEFINE g == CHOOSE g : g = [i \in 0 .. Len(t) |->
                    OccursAt(t, w, i) /\ \A j \in 0 .. i - 1 : i < j + Len(w) => ~g[j]]
<1>1. PICK f : Greedy(t, w, Len(t), f)
  BY GreedyExists
<1>2. f = [i \in 0 .. Len(t) |->
             OccursAt(t, w, i) /\ \A j \in 0 .. i - 1 : i < j + Len(w) => ~f[j]]
  BY <1>1, Zenon DEF Greedy
<1>3. g = [i \in 0 .. Len(t) |->
             OccursAt(t, w, i) /\ \A j \in 0 .. i - 1 : i < j + Len(w) => ~g[j]]
  BY <1>2, Zenon
<1>4. Matches(t, w) = {i \in 0 .. Len(t) : g[i]}
  BY Zenon DEF Matches
<1> HIDE DEF g
<1>5. \A i \in 0 .. Len(t) :
        g[i] = (OccursAt(t, w, i) /\ \A j \in 0 .. i - 1 : i < j + Len(w) => ~g[j])
  BY <1>3, Zenon
<1>6. \A i \in 0 .. Len(t) : \A j \in 0 .. i - 1 : j \in 0 .. Len(t)
  OBVIOUS
<1>7. QED
  BY <1>4, <1>5, <1>6, Zenon

-----------------------------------------------------------------------------
(* What replacing the bytes from .. to of a text by x does to the rest. *)

Splice(t, from, x, to) == Slice(t, 0, from) \o x \o Slice(t, to, Len(t))

(* What replaces a part of a text moves the bytes after it and no others.  *)
LEMMA SpliceBytes ==
  ASSUME NEW t \in Seq(Byte), NEW x \in Seq(Byte), NEW from \in Nat, NEW to \in Nat,
         from <= to, to <= Len(t)
  PROVE  /\ Splice(t, from, x, to) \in Seq(Byte)
         /\ Len(Splice(t, from, x, to)) = from + Len(x) + (Len(t) - to)
         /\ \A k \in 1 .. from : Splice(t, from, x, to)[k] = t[k]
         /\ \A k \in to + 1 .. Len(t) : Splice(t, from, x, to)[k - to + from + Len(x)] = t[k]
<1> DEFINE nil == 0
           len == Len(t)
           a == Slice(t, nil, from)
           b == Slice(t, to, len)
           r == Join(a, x, b)
<1>1. /\ len \in Nat /\ Len(x) \in Nat /\ from <= len /\ nil \in Nat /\ nil <= from
      /\ len <= Len(t) /\ from - nil = from /\ to <= len /\ from <= Len(t)
      /\ \A k \in Nat : nil + k = k
  BY LenProperties
<1> HIDE DEF nil, len
<1>2. a \in Seq(Byte) /\ Len(a) = from /\ \A k \in 1 .. from : a[k] = t[k]
  <2>1. /\ a \in Seq(Byte) /\ Len(a) = from - nil
        /\ \A k \in 1 .. from - nil : a[k] = t[nil + k]
    BY <1>1, SliceProps
  <2>2. QED
    BY <1>1, <2>1
<1>3. /\ b \in Seq(Byte) /\ Len(b) = len - to
      /\ \A k \in 1 .. len - to : b[k] = t[to + k]
  BY <1>1, SliceProps
<1> DEFINE n == Len(x)
           rest == len - to
           fn == from + n
<1>4. /\ a \in Seq(Byte) /\ b \in Seq(Byte) /\ from \in Nat /\ n \in Nat /\ rest \in Nat
      /\ Len(a) = from /\ Len(x) = n /\ Len(b) = rest
  BY <1>1, <1>2, <1>3
<1> HIDE DEF a, b, n, rest
<1>5. /\ r \in Seq(Byte)
      /\ Len(r) = fn + rest
      /\ \A k \in 1 .. from : r[k] = a[k]
      /\ \A k \in 1 .. rest : r[fn + k] = b[k]
  <2>1. r = Join(a, x, b) /\ fn \in Nat /\ fn = from + n
    BY <1>4
  <2> HIDE DEF r, fn
  <2>2. r \in Seq(Byte)
    BY <1>4, <2>1, Joined
  <2>3. Len(r) = fn + rest
    BY <1>4, <2>1, Joined
  <2>4. \A k \in 1 .. from : r[k] = a[k]
    BY <1>4, <2>1, Joined
  <2>5. \A k \in 1 .. rest : r[fn + k] = b[k]
    BY <1>4, <2>1, Joined
  <2>6. QED
    BY <2>2, <2>3, <2>4, <2>5
<1> HIDE DEF r, fn
<1>6. ASSUME NEW k \in to + 1 .. len PROVE r[k - to + from + n] = t[k]
  <2>1. k - to \in 1 .. rest /\ fn + (k - to) = k - to + from + n /\ to + (k - to) = k
    BY <1>1, <1>4 DEF rest, fn
  <2>2. r[fn + (k - to)] = b[k - to]
    BY <1>5, <2>1
  <2>3. b[k - to] = t[k]
    BY <1>3, <2>1 DEF rest
  <2>4. QED
    BY <2>1, <2>2, <2>3
<1>7. \A k \in 1 .. from : r[k] = t[k]
  BY <1>2, <1>5
<1>8. r = Splice(t, from, x, to)
  BY DEF r, a, b, nil, len, Splice, Join
<1>9. QED
  BY <1>5, <1>6, <1>7, <1>8 DEF len, rest, n, fn

(* An occurrence before or after the part is there still, moved with the   *)
(* bytes.                                                                  *)
LEMMA SpliceKeeps ==
  ASSUME NEW t \in Seq(Byte), NEW x \in Seq(Byte), NEW from \in Nat, NEW to \in Nat,
         from <= to, to <= Len(t),
         NEW w \in Seq(Byte), NEW i \in Nat, OccursAt(t, w, i)
  PROVE  /\ i + Len(w) <= from => OccursAt(Splice(t, from, x, to), w, i)
         /\ to <= i => /\ i - to + from + Len(x) \in Nat
                       /\ OccursAt(Splice(t, from, x, to), w, i - to + from + Len(x))
<1> DEFINE r == Splice(t, from, x, to)
<1> HIDE DEF r
<1>1. /\ r \in Seq(Byte) /\ Len(r) = from + Len(x) + (Len(t) - to)
      /\ \A k \in 1 .. from : r[k] = t[k]
      /\ \A k \in to + 1 .. Len(t) : r[k - to + from + Len(x)] = t[k]
  <2>1. r \in Seq(Byte)
    BY SpliceBytes DEF r
  <2>2. Len(r) = from + Len(x) + (Len(t) - to)
    BY SpliceBytes DEF r
  <2>3. \A k \in 1 .. from : r[k] = t[k]
    BY SpliceBytes DEF r
  <2>4. \A k \in to + 1 .. Len(t) : r[k - to + from + Len(x)] = t[k]
    BY SpliceBytes DEF r
  <2>5. QED
    BY <2>1, <2>2, <2>3, <2>4
<1>2. Len(t) \in Nat /\ Len(x) \in Nat /\ Len(w) \in Nat
  BY LenProperties
<1>3. i + Len(w) <= Len(t) /\ \A k \in 1 .. Len(w) : t[i + k] = w[k]
  BY OccursBytes
<1>4. ASSUME i + Len(w) <= from PROVE OccursAt(r, w, i)
  <2>1. \A k \in 1 .. Len(w) : i + k \in 1 .. from
    BY <1>2, <1>4
  <2>2. i + Len(w) <= Len(r)
    BY <1>1, <1>2, <1>4
  <2>3. QED
    BY <1>1, <1>3, <2>1, <2>2, OccursBytes
<1>5. ASSUME to <= i
      PROVE  i - to + from + Len(x) \in Nat /\ OccursAt(r, w, i - to + from + Len(x))
  <2> DEFINE d == i - to + from + Len(x)
  <2>1. d \in Nat /\ d + Len(w) <= Len(r)
    BY <1>1, <1>2, <1>3, <1>5
  <2>2. ASSUME NEW k \in 1 .. Len(w) PROVE r[d + k] = w[k]
    <3>1. i + k \in to + 1 .. Len(t) /\ (i + k) - to + from + Len(x) = d + k
      BY <1>2, <1>3, <1>5
    <3> HIDE DEF d
    <3>2. r[d + k] = t[i + k]
      BY <1>1, <3>1
    <3>3. QED
      BY <1>3, <3>2
  <2> HIDE DEF d
  <2>3. OccursAt(r, w, d)
    BY <1>1, <2>1, <2>2, OccursBytes
  <2>4. QED
    BY <2>1, <2>3 DEF d
<1>6. QED
  BY <1>4, <1>5 DEF r

-----------------------------------------------------------------------------
(* The inductive invariant. *)

(* No annotation.                                                          *)
LEMMA InitInv == Init => AnchorInv
BY DEF Init, AnchorInv, TypeOK, SpanTracked

(* The selectors are texts because a call that cuts a character panics.    *)
LEMMA SelectorsType ==
  ASSUME TypeOK, NEW kind \in Kinds, NEW s \in 0 .. Len(text), NEW e \in 0 .. Len(text), s < e,
         kind = "both" => ~ReconcilePanics(s, e)
  PROVE  /\ Selectors(kind, s, e) \in Anno
         /\ Len(Slice(text, s, e)) = e - s
<1>1. /\ text \in Seq(Byte) /\ Len(text) \in Nat /\ s \in Nat /\ e \in Nat
      /\ s <= Len(text) /\ e <= Len(text) /\ s <= e /\ Context \in Nat
  BY BoundsAssumption, LenProperties DEF TypeOK
<1>2. Slice(text, s, e) \in Seq(Byte) /\ Len(Slice(text, s, e)) = e - s
  BY <1>1, SliceProps
<1>3. kind = "both" => Prefix(s) \in Seq(Byte)
  <2> SUFFICES ASSUME kind = "both" PROVE Prefix(s) \in Seq(Byte)
    OBVIOUS
  <2>1. PrefixFrom(s) \in Nat /\ PrefixFrom(s) <= s
    BY <1>1 DEF PrefixFrom, SmallerOf
  <2>2. RawPrefix(s) \in Seq(Byte)
    BY <1>1, <2>1, SliceProps DEF RawPrefix
  <2>3. Len(RawPrefix(s)) \in Nat
    BY <2>2, LenProperties
  <2>4. OnBoundary(RawPrefix(s), PrefixCut(s))
    BY DEF ReconcilePanics, PrefixPanics
  <2>5. PrefixCut(s) \in Nat /\ PrefixCut(s) <= Len(RawPrefix(s))
    BY <2>3, <2>4 DEF OnBoundary
  <2>6. QED
    BY <2>2, <2>3, <2>5, SliceProps DEF Prefix
<1>4. kind = "both" => Suffix(e) \in Seq(Byte)
  <2> SUFFICES ASSUME kind = "both" PROVE Suffix(e) \in Seq(Byte)
    OBVIOUS
  <2>1. SuffixTo(e) \in Nat /\ e <= SuffixTo(e) /\ SuffixTo(e) <= Len(text)
    BY <1>1 DEF SuffixTo, SmallerOf
  <2>2. RawSuffix(e) \in Seq(Byte)
    BY <1>1, <2>1, SliceProps DEF RawSuffix
  <2>3. Len(RawSuffix(e)) \in Nat
    BY <2>2, LenProperties
  <2>4. OnBoundary(RawSuffix(e), SuffixCut(e))
    BY DEF ReconcilePanics, SuffixPanics
  <2>5. SuffixCut(e) \in Nat /\ 0 <= SuffixCut(e) /\ SuffixCut(e) <= Len(RawSuffix(e))
    BY <2>3, <2>4 DEF OnBoundary
  <2>6. QED
    BY <2>2, <2>5, SliceProps DEF Suffix
<1>5. <<>> \in Seq(Byte)
  OBVIOUS
<1>6. QED
  BY <1>1, <1>2, <1>3, <1>4, <1>5 DEF Selectors, Anno

(* A new annotation's quote stands where it was made.                      *)
LEMMA AnnotateStep ==
  ASSUME AnchorInv, NEW kind \in Kinds, NEW s \in 0 .. Len(text), NEW e \in 0 .. Len(text),
         Annotate(kind, s, e)
  PROVE  AnchorInv'
<1>1. /\ TypeOK /\ s < e /\ anno' = Selectors(kind, s, e) /\ text' = text
      /\ truth' = [start |-> s, end |-> e]
      /\ kind = "both" => ~ReconcilePanics(s, e)
  BY DEF Annotate, AnchorInv
<1>2. anno' \in Anno /\ Len(Slice(text, s, e)) = e - s
  BY <1>1, SelectorsType
<1>3. Len(text) \in Nat /\ s \in Nat /\ e \in Nat /\ e <= Len(text)
  BY <1>1, LenProperties DEF TypeOK
<1>4. anno'.start = s /\ anno'.end = e /\ anno'.exact = Slice(text, s, e)
  BY <1>1 DEF Selectors
<1>5. s + Len(anno'.exact) = e /\ OccursAt(text, anno'.exact, s)
  BY <1>2, <1>3, <1>4 DEF OccursAt
<1>6. TypeOK'
  BY <1>1, <1>2, <1>3 DEF TypeOK, Span
<1>7. SpanTracked'
  <2>1. anno' # NoAnno
    BY <1>2, ValuesAssumption
  <2>2. QED
    BY <1>1, <2>1, <1>2, <1>3, <1>4, <1>5 DEF SpanTracked
<1>8. QED
  BY <1>6, <1>7 DEF AnchorInv

(* What an edit outside the span does to truth and to the text. *)
LEMMA EditKeeps ==
  ASSUME AnchorInv, anno # NoAnno, anno' = anno,
         NEW x \in Seq(Byte), NEW from \in Nat, NEW to \in Nat,
         from <= to, to <= Len(text), text' = Splice(text, from, x, to),
         NEW d \in Int, d = from + Len(x) - to,
         truth' = IF truth = Gone \/ from >= truth.end THEN truth
                  ELSE IF to <= truth.start THEN Moved(d)
                  ELSE Gone
  PROVE  AnchorInv'
<1>1. /\ TypeOK /\ SpanTracked /\ text \in Seq(Byte) /\ anno \in Anno
      /\ anno.exact \in Seq(Byte) /\ Len(anno.exact) \in Nat /\ Len(x) \in Nat
  BY LenProperties DEF AnchorInv, TypeOK, Anno
<1>2. text' \in Seq(Byte)
  BY <1>1, SpliceBytes
<1>3. SUFFICES ASSUME truth' # Gone
               PROVE  /\ truth' \in Span
                      /\ truth'.end = truth'.start + Len(anno.exact)
                      /\ OccursAt(text', anno.exact, truth'.start)
  BY <1>1, <1>2 DEF AnchorInv, TypeOK, SpanTracked
<1>4. /\ truth # Gone /\ truth \in Span /\ truth.start \in Nat /\ truth.end \in Nat
      /\ truth.end = truth.start + Len(anno.exact)
      /\ OccursAt(text, anno.exact, truth.start)
  BY <1>1, <1>3 DEF TypeOK, SpanTracked, Span
<1>5. CASE from >= truth.end
  <2>1. truth' = truth
    BY <1>5
  <2>2. truth.start + Len(anno.exact) <= from
    BY <1>4, <1>5
  <2>3. OccursAt(Splice(text, from, x, to), anno.exact, truth.start)
    BY <1>1, <1>4, <2>2, SpliceKeeps
  <2>4. QED
    BY <1>4, <2>1, <2>3
<1>6. CASE ~(from >= truth.end)
  <2>1. to <= truth.start /\ truth' = Moved(d)
    BY <1>3, <1>4, <1>6
  <2> DEFINE i == truth.start - to + from + Len(x)
  <2>2. i \in Nat /\ OccursAt(Splice(text, from, x, to), anno.exact, i)
    BY <1>1, <1>4, <2>1, SpliceKeeps
  <2>3. truth.start + d = i /\ truth.end + d = i + Len(anno.exact)
    <3> DEFINE s == truth.start
               n == Len(anno.exact)
               m == Len(x)
    <3>1. s \in Nat /\ n \in Nat /\ m \in Nat /\ truth.end = s + n
      BY <1>1, <1>4
    <3>2. d = from + m - to /\ i = s - to + from + m
      OBVIOUS
    <3> HIDE DEF s, n, m, i
    <3>3. s + d = i /\ (s + n) + d = i + n
      BY <3>1, <3>2
    <3>4. QED
      BY <3>1, <3>3 DEF s, n
  <2> HIDE DEF i
  <2>4. truth' = [start |-> i, end |-> i + Len(anno.exact)]
    BY <2>1, <2>3 DEF Moved
  <2>5. i + Len(anno.exact) \in Nat
    BY <1>1, <2>2
  <2>6. truth' \in Span /\ truth'.start = i /\ truth'.end = i + Len(anno.exact)
    BY <2>2, <2>4, <2>5 DEF Span
  <2>7. OccursAt(text', anno.exact, i)
    BY <2>2 DEF i
  <2>8. QED
    BY <2>6, <2>7
<1>7. QED
  BY <1>5, <1>6

(* A character is inserted: the span is before it, after it, or gone.      *)
LEMMA InsertStep ==
  ASSUME AnchorInv, NEW c \in Char, NEW at \in 0 .. Len(text), Insert(c, at)
  PROVE  AnchorInv'
<1>1. text \in Seq(Byte) /\ Len(text) \in Nat /\ at \in Nat /\ at <= at /\ at <= Len(text)
  BY LenProperties DEF AnchorInv, TypeOK
<1>2. Encode(c) \in Seq(Byte)
  <2>1. c \in Byte /\ Cont \in Byte
    BY DEF Char, Byte
  <2>2. <<c, Cont>> \in Seq(Byte) /\ <<c>> \in Seq(Byte)
    BY <2>1
  <2>3. QED
    BY <2>2 DEF Encode
<1> DEFINE d == Len(Encode(c))
<1>3. d \in Int /\ d = at + Len(Encode(c)) - at
  <2>1. Len(Encode(c)) \in Nat
    BY <1>2, LenProperties
  <2>2. QED
    BY <1>1, <2>1
<1>4. anno # NoAnno /\ anno' = anno /\ text' = Splice(text, at, Encode(c), at)
  BY DEF Insert, Edit, Splice
<1>5. truth' = IF truth = Gone \/ at >= truth.end THEN truth
               ELSE IF at <= truth.start THEN Moved(d)
               ELSE Gone
  BY DEF Insert
<1> HIDE DEF d
<1>6. QED
  BY <1>1, <1>2, <1>3, <1>4, <1>5, EditKeeps

(* A character is deleted, likewise.                                       *)
LEMMA DeleteStep ==
  ASSUME AnchorInv, NEW from \in 0 .. Len(text), NEW to \in 0 .. Len(text), Delete(from, to)
  PROVE  AnchorInv'
<1>1. text \in Seq(Byte) /\ Len(text) \in Nat /\ from \in Nat /\ to \in Nat /\ to <= Len(text)
  BY LenProperties DEF AnchorInv, TypeOK
<1> DEFINE x == <<>>
           d == from - to
<1>2. x \in Seq(Byte) /\ d \in Int /\ d = from + Len(x) - to
  BY <1>1
<1>3. anno # NoAnno /\ anno' = anno /\ from <= to
  BY DEF Delete, Edit, Sliceable
<1>4. Slice(text, 0, from) \in Seq(Byte)
  BY <1>1, <1>3, SliceProps
<1>5. text' = Splice(text, from, x, to)
  BY <1>4, ConcatEmptySeq DEF Delete, Splice
<1>6. truth' = IF truth = Gone \/ from >= truth.end THEN truth
               ELSE IF to <= truth.start THEN Moved(d)
               ELSE Gone
  BY DEF Delete
<1> HIDE DEF x, d
<1>7. QED
  BY <1>1, <1>2, <1>3, <1>5, <1>6, EditKeeps

(* The invariant holds throughout: an annotation's span and its quote      *)
(* have the same length, and truth, which the edits move along, is always  *)
(* a place where the text reads as the quote.                              *)
THEOREM AnchorInvariance == Spec => []AnchorInv
<1>1. Init => AnchorInv
  BY InitInv
<1>2. AnchorInv /\ [Next]_vars => AnchorInv'
  <2> SUFFICES ASSUME AnchorInv, [Next]_vars PROVE AnchorInv'
    OBVIOUS
  <2>1. CASE \E kind \in Kinds, s, e \in 0 .. Len(text) : Annotate(kind, s, e)
    BY <2>1, AnnotateStep
  <2>2. CASE \E c \in Char, at \in 0 .. Len(text) : Insert(c, at)
    BY <2>2, InsertStep
  <2>3. CASE \E from \in 0 .. Len(text) : \E to \in {from + 1, from + 2} \cap 0 .. Len(text) :
               Delete(from, to)
    BY <2>3, DeleteStep
  <2>4. CASE UNCHANGED vars
    BY <2>4 DEF vars, AnchorInv, TypeOK, SpanTracked
  <2>5. QED
    BY <2>1, <2>2, <2>3, <2>4 DEF Next
<1>3. QED
  BY <1>1, <1>2, PTL DEF Spec

-----------------------------------------------------------------------------
(* What find_quote_span returns. *)

(* A match is an occurrence, and without a match there is none.            *)
LEMMA MatchesOccur ==
  ASSUME NEW t \in Seq(Byte), NEW w
  PROVE  /\ \A i \in Matches(t, w) : i \in 0 .. Len(t) /\ OccursAt(t, w, i)
         /\ Matches(t, w) = {} => \A i \in 0 .. Len(t) : ~OccursAt(t, w, i)
<1>1. Len(t) \in Nat
  BY LenProperties
<1>2. /\ Matches(t, w) \subseteq 0 .. Len(t)
      /\ \A i \in 0 .. Len(t) :
           i \in Matches(t, w) <=>
             /\ OccursAt(t, w, i)
             /\ \A j \in 0 .. i - 1 : i < j + Len(w) => j \notin Matches(t, w)
  BY <1>1, MatchesTaken
<1>3. QED
  BY <1>2, Zenon

(* A match is scored by its two contexts.                                  *)
LEMMA ScoreType == \A t, a, i : Score(t, a, i) \in {0, 1, 2}
BY DEF Score

(* The best match is one that none has more context than.                  *)
LEMMA BestMember ==
  ASSUME NEW t, NEW a, NEW M \in SUBSET Nat, M # {}
  PROVE  Best(t, a, M) \in M /\ \A j \in M : Score(t, a, j) <= Score(t, a, Best(t, a, M))
<1> DEFINE best == {i \in M : \A j \in M : Score(t, a, j) <= Score(t, a, i)}
<1>1. \A i \in M : Score(t, a, i) \in {0, 1, 2}
  BY ScoreType
<1>2. best # {}
  <2>1. CASE \E i \in M : Score(t, a, i) = 2
    BY <1>1, <2>1
  <2>2. CASE (\A i \in M : Score(t, a, i) # 2) /\ \E i \in M : Score(t, a, i) = 1
    BY <1>1, <2>2
  <2>3. CASE \A i \in M : Score(t, a, i) \notin {1, 2}
    BY <1>1, <2>3
  <2>4. QED
    BY <2>1, <2>2, <2>3
<1>3. best \in SUBSET Nat
  OBVIOUS
<1>4. Best(t, a, M) = Least(best)
  BY DEF Best
<1> HIDE DEF best
<1>5. Best(t, a, M) \in best
  BY <1>2, <1>3, <1>4, LeastMember
<1>6. QED
  BY <1>5 DEF best

(* find_quote_span gives a match, or finds none.                           *)
LEMMA FoundQuote ==
  ASSUME NEW t \in Seq(Byte), NEW a \in Anno
  PROVE  /\ FindQuote(t, a) = Orphan => Matches(t, a.exact) = {}
         /\ FindQuote(t, a) \notin {Orphan, Panic} =>
              \E i \in Matches(t, a.exact) : FindQuote(t, a) = SpanAt(a, i)
<1> DEFINE M == Matches(t, a.exact)
<1>1. a.exact \in Seq(Byte) /\ Len(a.exact) \in Nat
  BY LenProperties DEF Anno
<1>2. M \in SUBSET Nat
  BY MatchesOccur, LenProperties
<1>3. \A i \in Nat : SpanAt(a, i) \in Span /\ SpanAt(a, i) # Orphan
  BY <1>1, ValuesAssumption DEF SpanAt, Span
<1>4. FindQuote(t, a) = IF M = {} THEN Orphan
                        ELSE IF Cardinality(M) = 1 THEN SpanAt(a, Least(M))
                        ELSE IF \E i \in M : ScorePanics(t, a, i) THEN Panic
                        ELSE SpanAt(a, Best(t, a, M))
  BY DEF FindQuote
<1> HIDE DEF M
<1>5. M # {} => Least(M) \in M /\ Best(t, a, M) \in M
  BY <1>2, LeastMember, BestMember
<1>6. M # {} => SpanAt(a, Least(M)) # Orphan /\ SpanAt(a, Best(t, a, M)) # Orphan
  BY <1>2, <1>3, <1>5
<1>7. FindQuote(t, a) = Orphan => M = {}
  BY <1>4, <1>6, ValuesAssumption
<1>8. FindQuote(t, a) \notin {Orphan, Panic} => \E i \in M : FindQuote(t, a) = SpanAt(a, i)
  BY <1>4, <1>5
<1>9. QED
  BY <1>7, <1>8 DEF M

-----------------------------------------------------------------------------
(* The text alone decides what becomes of a quote: an orphan's quote is    *)
(* nowhere in the text, and any other answer reads as the quote.           *)

(* In one state: the position is tried first, and its answer is checked    *)
(* against the quote.                                                      *)
LEMMA QuoteDecidesNow == AnchorInv => QuoteDecides
<1> SUFFICES ASSUME AnchorInv, Quoted PROVE QuoteDecides
  BY DEF QuoteDecides
<1> DEFINE r == Resolve(text, anno)
           here == [start |-> anno.start, end |-> anno.end]
<1>1. text \in Seq(Byte) /\ anno \in Anno /\ anno.kind # "position"
  BY DEF AnchorInv, TypeOK, Quoted
<1>2. anno.start \in Nat /\ anno.end \in Nat
  BY <1>1 DEF Anno
<1>3. here \in Span /\ here # Orphan /\ here.start = anno.start /\ here.end = anno.end
  BY <1>2, ValuesAssumption DEF Span
<1>4. \/ r = Panic
      \/ r = here /\ Slice(text, anno.start, anno.end) = anno.exact
      \/ r = FindQuote(text, anno)
  BY <1>1 DEF Resolve
<1>5. Orphan # Panic
  BY ValuesAssumption
<1> HIDE DEF r, here
<1>6. r = Orphan => \A i \in 0 .. Len(text) : ~OccursAt(text, anno.exact, i)
  BY <1>1, <1>3, <1>4, <1>5, FoundQuote, MatchesOccur
<1>7. ASSUME r \notin {Orphan, Panic} PROVE Slice(text, r.start, r.end) = anno.exact
  <2>1. CASE r = here /\ Slice(text, anno.start, anno.end) = anno.exact
    BY <1>3, <2>1
  <2>2. CASE r = FindQuote(text, anno)
    <3>1. PICK i \in Matches(text, anno.exact) : r = SpanAt(anno, i)
      BY <1>1, <1>7, <2>2, FoundQuote
    <3>2. OccursAt(text, anno.exact, i)
      BY <1>1, MatchesOccur
    <3>3. r.start = i /\ r.end = i + Len(anno.exact)
      BY <3>1 DEF SpanAt
    <3>4. QED
      BY <3>2, <3>3 DEF OccursAt
  <2>3. QED
    BY <1>4, <1>7, <2>1, <2>2
<1>8. QED
  BY <1>6, <1>7 DEF QuoteDecides, r

(* An annotation with a quote is an orphan only if the quote is nowhere,   *)
(* and resolves to nothing but the quote, for all texts and edits.         *)
THEOREM QuoteDecided == Spec => []QuoteDecides
BY AnchorInvariance, QuoteDecidesNow, PTL

-----------------------------------------------------------------------------
(* resolve_annotation_span and classify_anchor_status give the same span,  *)
(* and neither panics on texts without characters of several bytes.        *)

(* The front of a text of such characters is one.                          *)
LEMMA NarrowPart ==
  ASSUME NEW t \in Seq(Byte), NEW x \in Seq(Byte), Narrow(t \o x)
  PROVE  Narrow(t)
<1>1. Len(t) \in Nat /\ Len(x) \in Nat /\ Len(t \o x) = Len(t) + Len(x)
  OBVIOUS
<1>2. ASSUME NEW k \in 1 .. Len(t) PROVE t[k] # Cont
  <2>1. (t \o x)[k] = t[k]
    OBVIOUS
  <2>2. k \in 1 .. Len(t \o x)
    BY <1>1
  <2>3. QED
    BY <2>1, <2>2 DEF Narrow
<1>3. QED
  BY <1>2 DEF Narrow

(* Every offset of it is between two characters.                           *)
LEMMA NarrowBoundaries ==
  ASSUME NEW t \in Seq(Byte), Narrow(t), NEW o \in 0 .. Len(t)
  PROVE  OnBoundary(t, o)
<1>1. Len(t) \in Nat
  BY LenProperties
<1>2. o # Len(t) => o \in 0 .. Len(t) - 1 /\ o + 1 \in 1 .. Len(t)
  BY <1>1
<1>3. QED
  BY <1>2 DEF Narrow, OnBoundary

(* The contexts of a match are sliced there.                               *)
LEMMA NarrowScores ==
  ASSUME NEW t \in Seq(Byte), Narrow(t), NEW a \in Anno, NEW i \in Matches(t, a.exact)
  PROVE  ~ScorePanics(t, a, i)
<1>1. /\ Len(t) \in Nat /\ Len(a.exact) \in Nat /\ Len(a.prefix) \in Nat
      /\ Len(a.suffix) \in Nat
  BY LenProperties DEF Anno
<1>2. i \in 0 .. Len(t) /\ i + Len(a.exact) <= Len(t)
  BY MatchesOccur DEF OccursAt
<1>3. ComparesPrefix(a, i) => OnBoundary(t, i - Len(a.prefix))
  <2>1. ComparesPrefix(a, i) => i - Len(a.prefix) \in 0 .. Len(t)
    BY <1>1, <1>2 DEF ComparesPrefix
  <2>2. QED
    BY <2>1, NarrowBoundaries
<1>4. OnBoundary(t, SuffixEnd(t, a, i))
  <2> DEFINE e == i + Len(a.exact) + Len(a.suffix)
  <2>1. SuffixEnd(t, a, i) = IF e <= Len(t) THEN e ELSE Len(t)
    BY DEF SuffixEnd, SuffixStart, SmallerOf
  <2>2. e \in Nat
    <3> DEFINE m == Len(a.exact)
               n == Len(a.suffix)
    <3>1. i \in Nat /\ m \in Nat /\ n \in Nat
      BY <1>1, <1>2
    <3> HIDE DEF m, n
    <3>2. i + m + n \in Nat
      BY <3>1
    <3>3. QED
      BY <3>2 DEF m, n
  <2> HIDE DEF e
  <2>3. SuffixEnd(t, a, i) \in 0 .. Len(t)
    BY <1>1, <2>1, <2>2
  <2>4. QED
    BY <2>3, NarrowBoundaries
<1>5. QED
  BY <1>3, <1>4 DEF ScorePanics

(* So no match panics.                                                     *)
LEMMA NarrowQuote ==
  ASSUME NEW t \in Seq(Byte), Narrow(t), NEW a \in Anno
  PROVE  FindQuote(t, a) # Panic
<1> DEFINE M == Matches(t, a.exact)
<1>1. M \in SUBSET Nat /\ \A i \in M : ~ScorePanics(t, a, i)
  BY MatchesOccur, LenProperties, NarrowScores
<1>2. Len(a.exact) \in Nat
  BY LenProperties DEF Anno
<1>3. \A i \in Nat : SpanAt(a, i) # Panic
  BY <1>2, ValuesAssumption DEF SpanAt, Span
<1>4. FindQuote(t, a) = IF M = {} THEN Orphan
                        ELSE IF Cardinality(M) = 1 THEN SpanAt(a, Least(M))
                        ELSE IF \E i \in M : ScorePanics(t, a, i) THEN Panic
                        ELSE SpanAt(a, Best(t, a, M))
  BY DEF FindQuote
<1> HIDE DEF M
<1>5. M # {} => Least(M) \in Nat /\ Best(t, a, M) \in Nat
  BY <1>1, LeastMember, BestMember
<1>6. QED
  BY <1>1, <1>3, <1>4, <1>5, ValuesAssumption

(* In one state: the steps of the two cascades, one by one.                *)
LEMMA CascadesAgreeNow == AnchorInv => CascadesAgree
<1> SUFFICES ASSUME AnchorInv, anno # NoAnno PROVE CascadesAgree
  BY DEF CascadesAgree
<1> DEFINE c == Classify(text, anno)
           here == [start |-> anno.start, end |-> anno.end]
<1>1. /\ text \in Seq(Byte) /\ anno \in Anno /\ anno.start \in Nat /\ anno.end \in Nat
      /\ anno.start < anno.end
  BY DEF AnchorInv, TypeOK, SpanTracked, Anno
<1>2. here # Orphan /\ here # Panic /\ Orphan # Panic
  BY <1>1, ValuesAssumption DEF Span
<1>3. \A r \in {Orphan, Panic} : r # "active" /\ r # "active_partial"
  BY ValuesAssumption
<1>4. ASSUME c.status # Panic
      PROVE  c.span = Resolve(text, anno) /\ (c.status = Orphan <=> Resolve(text, anno) = Orphan)
  BY <1>2, <1>3, <1>4 DEF Classify, Resolve
<1>5. ASSUME Narrow(text \o anno.exact \o anno.prefix \o anno.suffix)
      PROVE  c.status # Panic /\ Resolve(text, anno) # Panic
  <2>1. Narrow(text)
    <3> DEFINE t1 == text \o anno.exact
               t2 == t1 \o anno.prefix
    <3>1. /\ anno.exact \in Seq(Byte) /\ anno.prefix \in Seq(Byte) /\ anno.suffix \in Seq(Byte)
      BY <1>1 DEF Anno
    <3>2. t1 \in Seq(Byte)
      BY <1>1, <3>1
    <3> HIDE DEF t1
    <3>3. t2 \in Seq(Byte)
      BY <3>1, <3>2
    <3> HIDE DEF t2
    <3>4. Narrow(t2 \o anno.suffix)
      BY <1>5 DEF t1, t2
    <3>5. Narrow(t2)
      BY <3>1, <3>3, <3>4, NarrowPart
    <3>6. Narrow(t1)
      BY <3>1, <3>2, <3>5, NarrowPart DEF t2
    <3>7. QED
      BY <1>1, <3>1, <3>6, NarrowPart DEF t1
  <2>2. InRange(text, anno) => Sliceable(text, anno.start, anno.end)
    <3>1. ASSUME InRange(text, anno)
          PROVE  anno.start \in 0 .. Len(text) /\ anno.end \in 0 .. Len(text)
      BY <1>1, <3>1, LenProperties DEF InRange
    <3>2. QED
      BY <1>1, <2>1, <3>1, NarrowBoundaries DEF Sliceable
  <2>3. FindQuote(text, anno) # Panic
    BY <1>1, <2>1, NarrowQuote
  <2>4. c.status # Panic
    BY <1>2, <1>3, <2>2 DEF Classify
  <2>5. Resolve(text, anno) # Panic
    BY <1>2, <2>2, <2>3 DEF Resolve
  <2>6. QED
    BY <2>4, <2>5
<1>6. QED
  BY <1>4, <1>5 DEF CascadesAgree

(* resolve and classify agree on the span and on whether there is one, and *)
(* panic on nothing but a character of several bytes.                      *)
THEOREM CascadesAlwaysAgree == Spec => []CascadesAgree
BY AnchorInvariance, CascadesAgreeNow, PTL

-----------------------------------------------------------------------------
(* A quote that does not overlap itself is found wherever it occurs.       *)

(* Occurrences of such a quote do not overlap: match_indices takes all.    *)
LEMMA OccurrencesMatch ==
  ASSUME NEW t \in Seq(Byte), NEW w \in Seq(Byte), ~OverlapsItself(w),
         NEW i \in Nat, OccursAt(t, w, i)
  PROVE  i \in Matches(t, w)
<1>1. /\ Len(t) \in Nat /\ Len(w) \in Nat /\ i \in 0 .. Len(t)
      /\ \A k \in 1 .. Len(w) : t[i + k] = w[k]
  BY LenProperties, OccursBytes
<1>2. ASSUME NEW j \in 0 .. i - 1, i < j + Len(w), OccursAt(t, w, j) PROVE FALSE
  <2> DEFINE k == j + Len(w) - i
  <2>1. k \in 1 .. Len(w) - 1 /\ j \in Nat /\ k \in Nat
    BY <1>1, <1>2
  <2>2. \A n \in 1 .. Len(w) : t[j + n] = w[n]
    BY <1>2, <2>1, OccursBytes
  <2>3. ASSUME NEW n \in 1 .. k PROVE w[n] = w[Len(w) - k + n]
    <3>1. /\ n \in 1 .. Len(w) /\ Len(w) - k + n \in 1 .. Len(w)
          /\ i + n = j + (Len(w) - k + n)
      BY <1>1, <2>1
    <3>2. t[i + n] = w[n]
      BY <1>1, <3>1
    <3>3. t[j + (Len(w) - k + n)] = w[Len(w) - k + n]
      BY <2>2, <3>1
    <3>4. QED
      BY <3>1, <3>2, <3>3
  <2> HIDE DEF k
  <2> DEFINE a == SubSeq(w, 1, k)
             b == SubSeq(w, Len(w) - k + 1, Len(w))
  <2>4. a \in Seq(Byte) /\ Len(a) = k /\ \A n \in 1 .. k : a[n] = w[n]
    BY <1>1, <2>1
  <2>5. b \in Seq(Byte) /\ Len(b) = k /\ \A n \in 1 .. k : b[n] = w[Len(w) - k + n]
    BY <1>1, <2>1
  <2> HIDE DEF a, b
  <2>6. a = b
    BY <2>1, <2>3, <2>4, <2>5, SeqEqual
  <2>7. QED
    BY <2>1, <2>6 DEF OverlapsItself, a, b
<1>3. \A j \in 0 .. i - 1 : i < j + Len(w) => j \notin Matches(t, w)
  BY <1>2, MatchesOccur
<1>4. QED
  BY <1>1, <1>3, MatchesTaken

(* An annotation whose span moved with its context is found again, if no   *)
(* other occurrence of its quote has as much of the context or stands at   *)
(* the old position.                                                       *)
LEMMA FollowsContextNow == AnchorInv => FollowsContext
<1> DEFINE M == Matches(text, anno.exact)
           p == truth.start
<1> SUFFICES ASSUME AnchorInv, Quoted, truth # Gone, ~OverlapsItself(anno.exact),
                    Score(text, anno, p) = FullScore(anno),
                    \A i \in M \ {p} : /\ Score(text, anno, i) < FullScore(anno)
                                       /\ i # anno.start
             PROVE  Resolve(text, anno) \in {truth, Panic}
  BY DEF FollowsContext
<1>1. /\ text \in Seq(Byte) /\ anno \in Anno /\ anno.kind # "position"
      /\ anno.exact \in Seq(Byte) /\ anno.start \in Nat
      /\ anno.end = anno.start + Len(anno.exact) /\ anno.start < anno.end
  <2>1. text \in Seq(Byte) /\ anno \in Anno /\ anno.kind # "position" /\ anno # NoAnno
    BY DEF AnchorInv, TypeOK, Quoted
  <2>2. anno.exact \in Seq(Byte) /\ anno.start \in Nat /\ anno.end \in Nat
    BY <2>1 DEF Anno
  <2>3. anno.start < anno.end /\ Len(anno.exact) = anno.end - anno.start
    BY <2>1 DEF AnchorInv, SpanTracked
  <2>4. QED
    BY <2>1, <2>2, <2>3
<1>2. p \in Nat /\ OccursAt(text, anno.exact, p) /\ truth = SpanAt(anno, p)
  BY DEF AnchorInv, TypeOK, SpanTracked, Span, SpanAt
<1>3. p \in M /\ M \in SUBSET Nat
  BY <1>1, <1>2, OccurrencesMatch, MatchesOccur, LenProperties
<1>4. ASSUME InRange(text, anno), Slice(text, anno.start, anno.end) = anno.exact
      PROVE  [start |-> anno.start, end |-> anno.end] = truth
  <2>1. OccursAt(text, anno.exact, anno.start)
    BY <1>1, <1>4 DEF InRange, OccursAt
  <2>2. anno.start = p
    BY <1>1, <2>1, OccurrencesMatch
  <2>3. QED
    BY <1>1, <1>2, <2>2 DEF SpanAt
<1>5. FindQuote(text, anno) \in {truth, Panic}
  <2>1. CASE Cardinality(M) = 1
    <3>1. IsFiniteSet(M)
      <4>1. M \in SUBSET (0 .. Len(text)) /\ IsFiniteSet(0 .. Len(text))
        BY <1>1, MatchesOccur, LenProperties, FS_Interval
      <4>2. QED
        BY <4>1, FS_Subset
    <3>2. M = {p}
      BY <1>3, <2>1, <3>1, FS_Singleton
    <3>3. Least(M) = p
      BY <1>3, <3>2, LeastMember
    <3>4. QED
      BY <1>2, <1>3, <2>1, <3>3 DEF FindQuote
  <2>2. Best(text, anno, M) = p
    <3> DEFINE b == Best(text, anno, M)
    <3>1. b \in M /\ Score(text, anno, p) <= Score(text, anno, b)
      BY <1>3, BestMember
    <3> HIDE DEF b
    <3>2. Score(text, anno, b) \in Int /\ Score(text, anno, p) \in Int
      BY ScoreType
    <3>3. b = p
      BY <3>1, <3>2
    <3>4. QED
      BY <3>3 DEF b
  <2>3. QED
    BY <1>2, <1>3, <2>1, <2>2 DEF FindQuote
<1>6. QED
  BY <1>1, <1>4, <1>5 DEF Resolve

(* A span that moved with its context is found among all other             *)
(* occurrences.                                                            *)
THEOREM ContextFollowed == Spec => []FollowsContext
BY AnchorInvariance, FollowsContextNow, PTL
=============================================================================
