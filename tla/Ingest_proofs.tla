--------------------------- MODULE Ingest_proofs ----------------------------
(***************************************************************************)
(* Theorems about Ingest, and about Ingest with PowerLoss, for every set   *)
(* of sources, every table of edit distances and every bound.              *)
(***************************************************************************)
EXTENDS PowerLoss, Readers, FiniteSetTheorems, WellFoundedInduction, TLAPS

(* A source is a sequence of nodes the tree walks can index. *)
LEMMA SourceNodes ==
  ASSUME NEW s \in Sources
  PROVE  /\ s.nodes \in Seq(Node)
         /\ s.full \in Text
         /\ Len(s.nodes) \in Nat
         /\ Len(s.nodes) >= 2
         /\ \A i \in 1 .. Len(s.nodes) : s.nodes[i] \in Node
         /\ \A i \in 2 .. Len(s.nodes) : s.nodes[i].par \in 1 .. i - 1
<1>1. s \in [nodes: Seq(Node), full: Text]
  BY SourceAssumption
<1>2. s.nodes \in Seq(Node) /\ s.full \in Text
  BY <1>1
<1>3. Len(s.nodes) \in Nat /\ \A i \in 1 .. Len(s.nodes) : s.nodes[i] \in Node
  BY <1>2
<1>4. Len(s.nodes) >= 2
  BY SourceAssumption
<1>5. \A i \in 2 .. Len(s.nodes) : s.nodes[i].par \in 1 .. i - 1
  BY SourceAssumption
<1>6. QED
  BY <1>2, <1>3, <1>4, <1>5

(* What giving one more UUID leaves of ids. *)
LEMMA GiveOne ==
  ASSUME NEW S, NEW s \in Seq(S), NEW e \in S
  PROVE  /\ Append(s, e) \in Seq(S)
         /\ Len(Append(s, e)) = Len(s) + 1
         /\ Append(s, e)[Len(s) + 1] = e
         /\ \A i \in 1 .. Len(s) : Append(s, e)[i] = s[i]
OBVIOUS

LEMMA InitTypeInv == Init => TypeInv
BY BoundsAssumption DEF Init, TypeInv, TypeOK, StoreType, MemoryType, CounterType, Walking, Numbering, RowsLoaded, NoJob, Stage

-----------------------------------------------------------------------------
(* The type invariant, with the stages and the numbers it needs. *)

LEMMA JobSource ==
  ASSUME TypeInv, stage # "idle"
  PROVE  /\ job \in Job /\ job.src \in Sources
         /\ Len(job.src.nodes) \in Nat /\ Len(job.src.nodes) >= 2
         /\ at \in 1 .. Len(job.src.nodes)
         /\ DOMAIN job.src.nodes = 1 .. Len(job.src.nodes)
         /\ \A i \in 1 .. Len(job.src.nodes) : job.src.nodes[i] \in Node
<1>1. job \in Job /\ at \in 1 .. Len(job.src.nodes)
  BY DEF TypeInv, Walking
<1>2. job.src \in Sources
  BY <1>1 DEF Job
<1>3. QED
  BY <1>1, <1>2, SourceNodes

LEMMA WalkStep ==
  ASSUME TypeInv, stage # "idle", NEW then, Walk(then)
  PROVE  \/ at = Len(job.src.nodes) /\ at' = 1 /\ stage' = then
         \/ at < Len(job.src.nodes) /\ at' = at + 1 /\ stage' = stage
BY JobSource DEF Walk

LEMMA GiveType ==
  ASSUME TypeInv, NEW u \in Uuid, NEW v \in Nat, Give(u, v)
  PROVE  /\ ids' \in Seq(Given)
         /\ Len(ids') = Len(ids) + 1
         /\ ids'[Len(ids) + 1] = [uuid |-> u, version |-> v]
         /\ \A i \in 1 .. Len(ids) : ids'[i] = ids[i]
<1>1. ids \in Seq(Given)
  BY DEF TypeInv, TypeOK, StoreType, MemoryType, CounterType
<1>2. [uuid |-> u, version |-> v] \in Given
  BY DEF Given
<1>3. QED
  BY <1>1, <1>2, GiveOne DEF Give

(* Where the walk over ids stands when rows are written. *)
LEMMA AllGiven ==
  ASSUME TypeInv, stage \in {"retire", "orphan", "content", "document", "rows", "activity"}
  PROVE  /\ Len(ids) = Len(job.src.nodes)
         /\ DOMAIN ids = 1 .. Len(job.src.nodes)
         /\ \A i \in 1 .. Len(job.src.nodes) : ids[i].uuid \in Uuid /\ ids[i].version \in Nat
<1>1. ids \in Seq(Given) /\ Len(ids) = Len(job.src.nodes)
  BY DEF TypeInv, TypeOK, StoreType, MemoryType, CounterType, Walking
<1>2. DOMAIN ids = 1 .. Len(ids) /\ \A i \in 1 .. Len(ids) : ids[i] \in Given
  BY <1>1
<1>3. QED
  BY <1>1, <1>2 DEF Given

LEMMA RowOfType ==
  ASSUME TypeInv, stage = "rows", NEW i \in 1 .. Len(job.src.nodes)
  PROVE  RowOf(i) \in Row
<1>1. job.src \in Sources /\ job.doc \in DocId /\ job.src.nodes[i] \in Node
  BY JobSource DEF Job
<1>2. job.src.full \in Text /\ i \in Nat
  BY <1>1, SourceNodes
<1>3. i # 1 => ids[job.src.nodes[i].par].uuid \in Uuid
  BY <1>1, AllGiven, SourceNodes
<1>4. ids[i].version \in Nat
  BY AllGiven
<1>5. QED
  BY <1>1, <1>2, <1>3, <1>4 DEF RowOf, Row, Node

LEMMA TypeInvStep == TypeInv /\ [Next]_vars => TypeInv'
<1> SUFFICES ASSUME TypeInv, [Next]_vars PROVE TypeInv'
  OBVIOUS
<1> USE BoundsAssumption
<1>1. ASSUME NEW s \in Sources, NEW p \in Paths, Resume(p, s) PROVE TypeInv'
  <2>1. PICK d \in DocsByPath(p) :
             job' = [path |-> p, src |-> s, doc |-> d, merge |-> TRUE, diff |-> TRUE,
                     existing |-> NodesByDoc(d)]
    BY <1>1 DEF Resume, FirstByPath
  <2>2. d \in DocId /\ d \in Nat /\ d <= Len(docs) /\ d <= ingests
    BY <2>1 DEF DocsByPath, TypeInv, TypeOK, StoreType, MemoryType, CounterType, Numbering, DocId
  <2>3. NodesByDoc(d) \in SUBSET Uuid
    BY DEF NodesByDoc, TypeInv, TypeOK, StoreType, MemoryType, CounterType
  <2>4. job' \in Job
    BY <2>1, <2>2, <2>3 DEF Job
  <2>5. TypeOK'
    BY <1>1, <2>4 DEF TypeInv, TypeOK, StoreType, MemoryType, CounterType, Resume, Stage, database
  <2>6. Walking'
    BY <1>1, <2>1, <2>4, SourceNodes DEF TypeInv, TypeOK, StoreType, MemoryType, CounterType, Walking, Resume
  <2>7. Numbering'
    BY <1>1, <2>1, <2>2 DEF TypeInv, TypeOK, StoreType, MemoryType, CounterType, Numbering, Resume, database
  <2>8. RowsLoaded'
    BY <1>1, <2>1 DEF RowsLoaded, Resume, NodesByDoc, database
  <2>9. QED
    BY <2>5, <2>6, <2>7, <2>8 DEF TypeInv
<1>2. ASSUME NEW s \in Sources, NEW p \in Paths \cup {NoPath}, NEW m \in BOOLEAN,
             Create(p, s, m)
      PROVE  TypeInv'
  <2>1. job' \in Job
    BY <1>2 DEF Create, Job, NewDoc, TypeInv, TypeOK, StoreType, MemoryType, CounterType, Numbering, DocId
  <2>2. TypeOK'
    BY <1>2, <2>1 DEF TypeInv, TypeOK, StoreType, MemoryType, CounterType, Create, Stage, database
  <2>3. Walking'
    BY <1>2, <2>1, SourceNodes DEF TypeInv, TypeOK, StoreType, MemoryType, CounterType, Walking, Create
  <2>4. Numbering'
    BY <1>2 DEF TypeInv, TypeOK, StoreType, MemoryType, CounterType, Numbering, Create, NewDoc, database
  <2>5. RowsLoaded'
    BY <1>2 DEF RowsLoaded, Create
  <2>6. QED
    BY <2>2, <2>3, <2>4, <2>5 DEF TypeInv
<1>3. CASE AssignUuid
  <2>1. ids' \in Seq(Given) /\ Len(ids') = Len(ids) + 1 /\ next' \in {next, next + 1}
    <3>1. CASE GiveFresh
      BY <3>1, GiveType DEF GiveFresh
    <3>2. CASE \E u \in Reusable(at) : Give(u, 1) /\ next' = next
      <4>1. Reusable(at) \subseteq Uuid
        BY DEF Reusable, FirstByHash, NodesByHash, NodesByDoc, TypeInv, TypeOK, StoreType
      <4>2. QED
        BY <3>2, <4>1, GiveType
    <3>3. QED
      BY <1>3, <3>1, <3>2 DEF AssignUuid
  <2>2. /\ \/ at = Len(job.src.nodes) /\ at' = 1 /\ stage' = "content"
           \/ at < Len(job.src.nodes) /\ at' = at + 1 /\ stage' = stage
        /\ at \in 1 .. Len(job.src.nodes) /\ Len(job.src.nodes) \in Nat
    BY <1>3, WalkStep, JobSource DEF AssignUuid
  <2>3. TypeOK'
    <3>1. StoreType'
      BY <1>3 DEF TypeInv, TypeOK, StoreType, AssignUuid, database
    <3>2. MemoryType'
      BY <1>3, <2>1, <2>2 DEF TypeInv, TypeOK, MemoryType, AssignUuid, Stage
    <3>3. CounterType'
      BY <1>3, <2>1 DEF TypeInv, TypeOK, CounterType, AssignUuid
    <3>4. QED
      BY <3>1, <3>2, <3>3 DEF TypeOK
  <2>4. Walking'
    BY <1>3, <2>1, <2>2 DEF TypeInv, Walking, AssignUuid
  <2>5. Numbering'
    BY <1>3, <2>2 DEF TypeInv, Numbering, AssignUuid, database
  <2>6. RowsLoaded'
    BY <1>3 DEF TypeInv, RowsLoaded, AssignUuid, database
  <2>7. QED
    BY <2>3, <2>4, <2>5, <2>6 DEF TypeInv
<1>4. CASE RetireNode
  <2>1. PICK u \in StillToRetire : nodes' = [nodes EXCEPT ![u].status = "deleted"]
    BY <1>4 DEF RetireNode
  <2>2. u \in DOMAIN nodes => [nodes[u] EXCEPT !.status = "deleted"] \in Row
    BY DEF TypeInv, TypeOK, StoreType, MemoryType, CounterType, Row
  <2>3. nodes' \in [DOMAIN nodes -> Row]
    BY <2>1, <2>2 DEF TypeInv, TypeOK, StoreType, MemoryType, CounterType
  <2>4. TypeOK'
    BY <1>4, <2>3 DEF TypeInv, TypeOK, StoreType, MemoryType, CounterType, RetireNode, memory
  <2>5. QED
    BY <1>4, <2>3, <2>4 DEF TypeInv, Walking, Numbering, RowsLoaded, RetireNode, memory
<1>5. CASE RetireDone \/ OrphanDone
  BY <1>5 DEF TypeInv, TypeOK, StoreType, MemoryType, CounterType,
     Walking, Numbering, RowsLoaded, RetireDone, OrphanDone,
     database, Stage
<1>6. CASE OrphanAnnotations
  <2>1. annos' \subseteq Annotation
    BY <1>6 DEF OrphanAnnotations, StillToOrphan, ActiveOn, Annotation, TypeInv, TypeOK, StoreType, MemoryType, CounterType
  <2>2. TypeOK'
    BY <1>6, <2>1 DEF TypeInv, TypeOK, StoreType, MemoryType, CounterType, OrphanAnnotations, memory
  <2>3. QED
    BY <1>6, <2>2 DEF TypeInv, Walking, Numbering, RowsLoaded, OrphanAnnotations, memory
<1>7. CASE Abort
  <2>1. ids' \in Seq(Given)
    BY <1>7 DEF Abort, Forget
  <2>2. TypeOK'
    BY <1>7, <2>1 DEF TypeInv, TypeOK, StoreType, MemoryType, CounterType, Abort, Forget, database, Stage
  <2>3. Walking' /\ Numbering' /\ RowsLoaded'
    BY <1>7 DEF TypeInv, Walking, Numbering, RowsLoaded, Abort, Forget, NoJob, database
  <2>4. QED
    BY <2>2, <2>3 DEF TypeInv
<1>8. CASE LogActivity
  <2>1. ids' \in Seq(Given)
    BY <1>8 DEF LogActivity, Forget
  <2>2. Matched \in SUBSET Uuid /\ job.doc \in DocId
    BY <1>8, AllGiven, JobSource DEF LogActivity, Matched, Used, Job
  <2>3. activities' \in Seq(Activity)
    BY <1>8, <2>2 DEF LogActivity, Activity, TypeInv, TypeOK, StoreType, MemoryType, CounterType
  <2>4. TypeOK'
    BY <1>8, <2>1, <2>3 DEF TypeInv, TypeOK, StoreType, MemoryType, CounterType, LogActivity, Forget, Stage
  <2>5. Walking' /\ Numbering' /\ RowsLoaded'
    BY <1>8 DEF TypeInv, Walking, Numbering, RowsLoaded, LogActivity, Forget, NoJob
  <2>6. QED
    BY <2>4, <2>5 DEF TypeInv
<1>9. CASE MatchExact \/ MatchFuzzy \/ MatchNone
  <2>1. PICK u \in Uuid, v \in Nat : Give(u, v)
    <3>1. SameHash(at) \cup Similar(at) \subseteq job.existing
      BY DEF SameHash, Similar, Unmatched
    <3>2. job.existing \subseteq Uuid /\ \A w \in job.existing : nodes[w].version \in Nat
      BY DEF TypeInv, TypeOK, StoreType, MemoryType, CounterType, RowsLoaded, Row
    <3>3. CASE MatchExact
      BY <3>1, <3>2, <3>3 DEF MatchExact, KeptVersion
    <3>4. CASE MatchFuzzy
      BY <3>1, <3>2, <3>4 DEF MatchFuzzy, FuzzyVersion
    <3>5. CASE MatchNone
      BY <3>5 DEF MatchNone, GiveFresh
    <3>6. QED
      BY <1>9, <3>3, <3>4, <3>5
  <2>2. ids' \in Seq(Given) /\ Len(ids') = Len(ids) + 1
    BY <2>1, GiveType
  <2>3. /\ stage = "match" /\ Walk("retire")
        /\ next' = next \/ next' = next + 1
        /\ UNCHANGED <<database, content, job, ingests, aborts>>
    BY <1>9 DEF MatchExact, MatchFuzzy, MatchNone, GiveFresh
  <2>4. /\ \/ at = Len(job.src.nodes) /\ at' = 1 /\ stage' = "retire"
           \/ at < Len(job.src.nodes) /\ at' = at + 1 /\ stage' = stage
        /\ at \in 1 .. Len(job.src.nodes) /\ Len(job.src.nodes) \in Nat
    BY <2>3, WalkStep, JobSource
  <2>5. TypeOK'
    <3>1. StoreType'
      BY <2>3 DEF TypeInv, TypeOK, StoreType, database
    <3>2. MemoryType'
      BY <2>2, <2>3, <2>4 DEF TypeInv, TypeOK, MemoryType, Stage
    <3>3. CounterType'
      BY <2>3 DEF TypeInv, TypeOK, CounterType
    <3>4. QED
      BY <3>1, <3>2, <3>3 DEF TypeOK
  <2>6. Walking'
    BY <2>2, <2>3, <2>4 DEF TypeInv, Walking
  <2>7. Numbering' /\ RowsLoaded'
    BY <2>3, <2>4 DEF TypeInv, Numbering, RowsLoaded, database
  <2>8. QED
    BY <2>5, <2>6, <2>7 DEF TypeInv
<1>10. CASE WriteContent
  <2>1. /\ \/ at = Len(job.src.nodes) /\ at' = 1 /\ stage' = "document"
           \/ at < Len(job.src.nodes) /\ at' = at + 1 /\ stage' = stage
        /\ at \in 1 .. Len(job.src.nodes) /\ Len(job.src.nodes) \in Nat
        /\ job.src.nodes[at] \in Node
    BY <1>10, WalkStep, JobSource DEF WriteContent
  <2>2. HasContent(at) => job.src.nodes[at].body \in Body /\ ids[at].uuid \in Uuid
    BY <1>10, <2>1, AllGiven DEF WriteContent, HasContent, Node
  <2>3. DOMAIN content' \subseteq Uuid /\ content' \in [DOMAIN content' -> Body]
    <3>1. content \in [DOMAIN content -> Body] /\ DOMAIN content \subseteq Uuid
      BY DEF TypeInv, TypeOK, StoreType
    <3>2. CASE HasContent(at)
      <4> DEFINE u == ids[at].uuid
                 b == job.src.nodes[at].body
      <4>1. content' = Upsert(content, u, b)
        BY <1>10, <3>2 DEF WriteContent
      <4>2. /\ DOMAIN Upsert(content, u, b) = DOMAIN content \cup {u}
            /\ Upsert(content, u, b) \in [DOMAIN content \cup {u} -> Body]
        BY <2>2, <3>1, <3>2 DEF Upsert
      <4>3. QED
        BY <2>2, <3>1, <3>2, <4>1, <4>2
    <3>3. CASE ~HasContent(at)
      BY <1>10, <3>1, <3>3 DEF WriteContent
    <3>4. QED
      BY <3>2, <3>3
  <2>4. TypeOK'
    <3>1. StoreType'
      BY <1>10, <2>3 DEF TypeInv, TypeOK, StoreType, WriteContent, database
    <3>2. MemoryType'
      BY <1>10, <2>1 DEF TypeInv, TypeOK, MemoryType, WriteContent, Stage
    <3>3. CounterType'
      BY <1>10 DEF TypeInv, TypeOK, CounterType, WriteContent
    <3>4. QED
      BY <3>1, <3>2, <3>3 DEF TypeOK
  <2>5. Walking'
    BY <1>10, <2>1 DEF TypeInv, Walking, WriteContent
  <2>6. Numbering' /\ RowsLoaded'
    BY <1>10, <2>1 DEF TypeInv, Numbering, RowsLoaded, WriteContent, database
  <2>7. QED
    BY <2>4, <2>5, <2>6 DEF TypeInv
<1>11. CASE UpsertDocument
  <2>1. job \in Job /\ ids[1].uuid \in Uuid /\ Len(docs) \in Nat
    <3>1. job \in Job /\ ids[1].uuid \in Uuid
      BY <1>11, JobSource, AllGiven DEF UpsertDocument
    <3>2. QED
      BY <3>1 DEF TypeInv, TypeOK, StoreType
  <2>2. job.path \in Paths \cup {NoPath} /\ job.doc \in Nat
    BY <2>1 DEF Job, DocId
  <2>3. [path |-> job.path, root |-> ids[1].uuid] \in DocRow
    BY <2>1, <2>2 DEF DocRow
  <2>4. /\ docs' \in Seq(DocRow)
        /\ \/ docs' = docs /\ job.doc <= Len(docs)
           \/ Len(docs') = Len(docs) + 1 /\ ~(job.doc <= Len(docs))
    BY <1>11, <2>1, <2>2, <2>3, SMTT(40) DEF UpsertDocument, DocExists, TypeInv, TypeOK, StoreType, MemoryType, CounterType, Job, DocId
  <2>5. TypeOK'
    BY <1>11, <2>4 DEF TypeInv, TypeOK, StoreType, MemoryType, CounterType, UpsertDocument, Stage
  <2>6. Walking' /\ RowsLoaded'
    BY <1>11 DEF TypeInv, Walking, RowsLoaded, UpsertDocument
  <2>7. Numbering'
    BY <1>11, <2>1, <2>2, <2>4, SMTT(40) DEF TypeInv, TypeOK, StoreType, MemoryType, CounterType, Numbering, UpsertDocument
  <2>8. QED
    BY <2>5, <2>6, <2>7 DEF TypeInv
<1>12. CASE UpsertNode
  <2>1. /\ \/ at = Len(job.src.nodes) /\ at' = 1 /\ stage' = "activity"
           \/ at < Len(job.src.nodes) /\ at' = at + 1 /\ stage' = stage
        /\ at \in 1 .. Len(job.src.nodes) /\ Len(job.src.nodes) \in Nat
    BY <1>12, WalkStep, JobSource DEF UpsertNode
  <2>2. RowOf(at) \in Row /\ ids[at].uuid \in Uuid
    BY <1>12, <2>1, RowOfType, AllGiven DEF UpsertNode
  <2>3. /\ DOMAIN nodes' = DOMAIN nodes \cup {ids[at].uuid}
        /\ nodes' \in [DOMAIN nodes' -> Row]
    <3>1. nodes \in [DOMAIN nodes -> Row]
      BY DEF TypeInv, TypeOK, StoreType
    <3>2. nodes' = Upsert(nodes, ids[at].uuid, RowOf(at))
      BY <1>12 DEF UpsertNode
    <3>3. QED
      BY <2>2, <3>1, <3>2 DEF Upsert
  <2>4. TypeOK'
    <3>1. StoreType'
      BY <1>12, <2>2, <2>3 DEF TypeInv, TypeOK, StoreType, UpsertNode
    <3>2. MemoryType'
      BY <1>12, <2>1 DEF TypeInv, TypeOK, MemoryType, UpsertNode, Stage
    <3>3. CounterType'
      BY <1>12 DEF TypeInv, TypeOK, CounterType, UpsertNode
    <3>4. QED
      BY <3>1, <3>2, <3>3 DEF TypeOK
  <2>5. Walking'
    BY <1>12, <2>1 DEF TypeInv, Walking, UpsertNode
  <2>6. Numbering' /\ RowsLoaded'
    BY <1>12, <2>1, <2>3 DEF TypeInv, Numbering, RowsLoaded, UpsertNode
  <2>7. QED
    BY <2>4, <2>5, <2>6 DEF TypeInv
<1>13. ASSUME NEW u \in DOMAIN nodes, Annotate(u) PROVE TypeInv'
  <2>1. annos' \subseteq Annotation
    BY <1>13 DEF Annotate, ActiveOn, Annotation, TypeInv, TypeOK, StoreType, MemoryType, CounterType
  <2>2. TypeOK'
    BY <1>13, <2>1 DEF TypeInv, TypeOK, StoreType, MemoryType, CounterType, Annotate, memory
  <2>3. QED
    BY <1>13, <2>2 DEF TypeInv, Walking, Numbering, RowsLoaded, Annotate, memory
<1>14. ASSUME NEW u \in DOMAIN nodes, NEW v \in DOMAIN nodes, Transclude(u, v) PROVE TypeInv'
  <2>1. nodes[v].version \in Nat
    BY DEF TypeInv, TypeOK, StoreType, MemoryType, CounterType, Row
  <2>2. edges' \subseteq Edge
    BY <1>14, <2>1 DEF Transclude, Edge, TypeInv, TypeOK, StoreType, MemoryType, CounterType
  <2>3. TypeOK'
    BY <1>14, <2>2 DEF TypeInv, TypeOK, StoreType, MemoryType, CounterType, Transclude, memory
  <2>4. QED
    BY <1>14, <2>3 DEF TypeInv, Walking, Numbering, RowsLoaded, Transclude, memory
<1>15. ASSUME NEW scope, Refresh(scope) PROVE TypeInv'
  <2>1. PICK marked \in SUBSET Outdated(scope) :
           /\ edges' = (edges \ marked) \cup {[e EXCEPT !.status = "stale"] : e \in marked}
           /\ \/ marked = Outdated(scope) /\ aborts' = aborts
              \/ marked # Outdated(scope) /\ aborts < MaxAborts /\ aborts' = aborts + 1
    BY <1>15 DEF Refresh
  <2>2. marked \subseteq Edge
    BY <2>1 DEF Outdated, TypeInv, TypeOK, StoreType, MemoryType, CounterType
  <2>3. \A e \in marked : [e EXCEPT !.status = "stale"] \in Edge
    BY <2>2 DEF Edge
  <2>4. edges' \subseteq Edge
    BY <2>1, <2>3 DEF TypeInv, TypeOK, StoreType, MemoryType, CounterType
  <2>5. TypeOK'
    <3>1. StoreType' /\ MemoryType'
      BY <1>15, <2>4 DEF TypeInv, TypeOK, StoreType, MemoryType, Refresh, memory
    <3>2. CounterType'
      <4>1. aborts' = aborts \/ (aborts < MaxAborts /\ aborts' = aborts + 1)
        BY <2>1
      <4>2. QED
        BY <1>15, <4>1 DEF TypeInv, TypeOK, CounterType, Refresh
    <3>3. QED
      BY <3>1, <3>2 DEF TypeOK
  <2>6. QED
    BY <1>15, <2>5 DEF TypeInv, Walking, Numbering, RowsLoaded, Refresh, memory
<1>16. CASE UNCHANGED vars
  BY <1>16 DEF vars, database, memory, TypeInv, TypeOK, StoreType, MemoryType, CounterType, Walking, Numbering, RowsLoaded
<1>17. QED
  BY <1>1, <1>2, <1>3, <1>4, <1>5, <1>6, <1>7, <1>8, <1>9, <1>10, <1>11, <1>12, <1>13, <1>14,
     <1>15, <1>16 DEF Next, Pipeline, IngestFile, IngestText

(* Every variable keeps its type: in particular a row loaded by the diff   *)
(* is still in the table when the walk looks at it, and the walks never    *)
(* run past the source.                                                    *)
THEOREM TypeCorrect == Spec => []TypeOK
<1>1. TypeInv => TypeOK
  BY DEF TypeInv
<1>2. QED
  BY <1>1, InitTypeInv, TypeInvStep, PTL DEF Spec
-----------------------------------------------------------------------------
(* The rest of the inductive invariant, one part at a time.  First, what a *)
(* step can be, as far as these parts can tell.                            *)

Gives == AssignUuid \/ MatchExact \/ MatchFuzzy \/ MatchNone

(* The walks go on or over to the next stage; the store waits. *)
LEMMA GivesEffect ==
  ASSUME TypeInv, Gives
  PROVE  /\ stage \in {"assign", "match"}
         /\ UNCHANGED <<database, content, job>>
         /\ \/ stage' = stage /\ at' = at + 1
            \/ stage' \in {"retire", "content"} /\ at' = 1
         /\ stage = "assign" => stage' # "retire"
         /\ stage = "match" => stage' # "content"
<1>1. /\ stage \in {"assign", "match"}
      /\ UNCHANGED <<database, content, job>>
  BY DEF Gives, AssignUuid, MatchExact, MatchFuzzy, MatchNone
<1>2. QED
  BY <1>1, WalkStep DEF Gives, AssignUuid, MatchExact, MatchFuzzy, MatchNone

(* The UUID given is a fresh one or a free row of the document, even where *)
(* its rows were not loaded.                                               *)
LEMMA GivesSome ==
  ASSUME TypeInv, Gives
  PROVE  /\ DOMAIN ids = 1 .. Len(ids) /\ Len(ids) \in Nat
         /\ DOMAIN ids' = 1 .. Len(ids) + 1 /\ Len(ids') = Len(ids) + 1
         /\ \A i \in DOMAIN ids : ids'[i] = ids[i]
         /\ \E u \in Uuid :
              /\ ids'[Len(ids) + 1].uuid = u
              /\ \/ u = next /\ next' = next + 1
                 \/ /\ u \in DOMAIN nodes \ Matched /\ next' = next
                    /\ u \in job.existing \/ nodes[u].doc = job.doc
<1>1. /\ Unmatched \subseteq (Uuid \cap DOMAIN nodes) \ Matched
      /\ Unmatched \subseteq job.existing
      /\ \A u \in Unmatched : nodes[u].version \in Nat
  BY DEF TypeInv, TypeOK, StoreType, RowsLoaded, Row, Unmatched
<1>2. SameHash(at) \subseteq Unmatched /\ Similar(at) \subseteq Unmatched
  BY DEF SameHash, Similar
<1>3. /\ Reusable(at) \subseteq (Uuid \cap DOMAIN nodes) \ Matched
      /\ \A u \in Reusable(at) : nodes[u].doc = job.doc
  BY DEF Reusable, FirstByHash, NodesByHash, NodesByDoc, TypeInv, TypeOK, StoreType
<1>4. PICK u \in Uuid, v \in Nat :
         /\ Give(u, v)
         /\ \/ u = next /\ next' = next + 1
            \/ /\ u \in DOMAIN nodes \ Matched /\ next' = next
               /\ u \in job.existing \/ nodes[u].doc = job.doc
  <2>1. CASE GiveFresh
    BY <2>1 DEF GiveFresh
  <2>2. CASE \E u \in Reusable(at) : Give(u, 1) /\ next' = next
    BY <1>3, <2>2
  <2>3. CASE \E u \in SameHash(at) : Give(u, nodes[u].version) /\ next' = next
    BY <1>1, <1>2, <2>3
  <2>4. CASE \E u \in Similar(at) : Give(u, nodes[u].version + 1) /\ next' = next
    <3>1. PICK u \in Similar(at) : Give(u, nodes[u].version + 1) /\ next' = next
      BY <2>4
    <3>2. nodes[u].version + 1 \in Nat /\ u \in Unmatched
      BY <1>1, <1>2
    <3>3. QED
      BY <1>1, <3>1, <3>2
  <2>5. QED
    BY <2>1, <2>2, <2>3, <2>4
    DEF Gives, AssignUuid, MatchExact, MatchFuzzy, MatchNone, KeptVersion, FuzzyVersion
<1>5. Give(u, v)
  BY <1>4
<1>6. /\ ids' \in Seq(Given) /\ Len(ids') = Len(ids) + 1
      /\ ids'[Len(ids) + 1] = [uuid |-> u, version |-> v]
      /\ \A i \in 1 .. Len(ids) : ids'[i] = ids[i]
  BY <1>5, GiveType
<1>7. ids \in Seq(Given)
  BY DEF TypeInv, TypeOK, MemoryType
<1>8. DOMAIN ids = 1 .. Len(ids) /\ Len(ids) \in Nat /\ DOMAIN ids' = 1 .. Len(ids) + 1
  BY <1>6, <1>7
<1>9. ids'[Len(ids) + 1].uuid = u
  BY <1>6
<1>10. QED
  BY <1>4, <1>6, <1>8, <1>9

(* With the rows loaded, what is given also says why. *)
LEMMA GivesUuid ==
  ASSUME TypeInv, LoadedRows, Gives
  PROVE  \E u \in Uuid, v \in Nat :
           /\ Give(u, v)
           /\ \/ u = next /\ next' = next + 1 /\ v = 1
              \/ /\ stage = "match"
                 /\ u \in Unmatched /\ next' = next
                 /\ \/ v = nodes[u].version /\ nodes[u].text = job.src.nodes[at].text
                    \/ v = nodes[u].version + 1
<1>1. Unmatched \subseteq Uuid /\ \A u \in Unmatched : nodes[u].version \in Nat
  BY DEF TypeInv, TypeOK, StoreType, RowsLoaded, Row, Unmatched
<1>2. SameHash(at) \subseteq Unmatched /\ Similar(at) \subseteq Unmatched
  BY DEF SameHash, Similar
<1>3. CASE GiveFresh
  BY <1>3 DEF GiveFresh
<1>4. CASE AssignUuid
  <2>1. Reusable(at) = {}
    BY <1>4 DEF AssignUuid, LoadedRows, Reusable, FirstByHash, NodesByHash
  <2>2. QED
    BY <1>3, <1>4, <2>1 DEF AssignUuid
<1>5. CASE MatchNone
  BY <1>3, <1>5 DEF MatchNone
<1>6. CASE MatchExact
  <2>1. PICK u \in SameHash(at) : Give(u, nodes[u].version)
    BY <1>6 DEF MatchExact, KeptVersion
  <2>2. /\ u \in Uuid /\ u \in Unmatched /\ nodes[u].version \in Nat
        /\ nodes[u].text = job.src.nodes[at].text
    BY <1>1, <1>2, <2>1 DEF SameHash
  <2>3. stage = "match" /\ next' = next
    BY <1>6 DEF MatchExact, KeptVersion
  <2>4. QED
    BY <2>1, <2>2, <2>3
<1>7. CASE MatchFuzzy
  <2>1. PICK u \in Similar(at) : Give(u, nodes[u].version + 1)
    BY <1>7 DEF MatchFuzzy, FuzzyVersion
  <2>2. u \in Uuid /\ u \in Unmatched /\ nodes[u].version + 1 \in Nat
    BY <1>1, <1>2, <2>1
  <2>3. stage = "match" /\ next' = next
    BY <1>7 DEF MatchFuzzy
  <2>4. QED
    BY <2>1, <2>2, <2>3
<1>8. QED
  BY <1>4, <1>5, <1>6, <1>7 DEF Gives

Begins == \E s \in Sources, p \in Paths \cup {NoPath} :
             Resume(p, s) \/ \E m \in BOOLEAN : Create(p, s, m)
Ends == LogActivity \/ Abort

(* Steps that leave rows, files and the walk where they are. *)
Quiet ==
  /\ UNCHANGED <<docs, nodes, content, job, ids, at, next>>
  /\ \/ stage' = stage
     \/ stage = "retire" /\ stage' = "orphan" /\ StillToRetire = {}
     \/ stage = "orphan" /\ stage' = "content"

LEMMA StepKinds ==
  ASSUME [Next]_vars
  PROVE  \/ Begins \/ Gives \/ RetireNode \/ WriteContent
         \/ UpsertDocument \/ UpsertNode \/ Ends \/ Quiet
<1>1. CASE \/ RetireDone \/ OrphanAnnotations \/ OrphanDone \/ UNCHANGED vars
           \/ \E u \in DOMAIN nodes : Annotate(u)
           \/ \E u, v \in DOMAIN nodes : Transclude(u, v)
  BY <1>1 DEF RetireDone, OrphanAnnotations, OrphanDone, Annotate, Transclude, Quiet,
     vars, database, memory
<1>2. CASE \E scope \in {DocId} \cup {{d} : d \in DocId} : Refresh(scope)
  BY <1>2 DEF Refresh, Quiet, memory
<1>3. CASE \/ \E s \in Sources : \E p \in Paths : IngestFile(p, s)
           \/ \E s \in Sources : \E p \in Paths \cup {NoPath} : IngestText(p, s)
  BY <1>3 DEF Begins, IngestFile, IngestText
<1>4. CASE Pipeline \/ Abort
  BY <1>1, <1>4 DEF Pipeline, Gives, Ends
<1>5. QED
  BY <1>1, <1>2, <1>3, <1>4 DEF Next

(* Fresh UUIDs are above every UUID in use; a row is free only while no    *)
(* node of the walk has it.                                                *)
LEMMA FreshUuidsStep ==
  ASSUME TypeInv, FreshUuids, [Next]_vars
  PROVE  FreshUuids'
<1>1. CASE Gives
  <2>1. PICK u \in Uuid :
           /\ ids'[Len(ids) + 1].uuid = u
           /\ \/ u = next /\ next' = next + 1
              \/ u \in DOMAIN nodes \ Matched /\ next' = next
    BY <1>1, GivesSome
  <2>2. /\ Len(ids') = Len(ids) + 1 /\ DOMAIN ids' = 1 .. Len(ids) + 1
        /\ ids'[Len(ids) + 1].uuid = u
        /\ \A i \in 1 .. Len(ids) : ids'[i] = ids[i]
    BY <1>1, <2>1, GivesSome
  <2>3. ids \in Seq(Given) /\ next \in Nat /\ u \in Nat
    BY DEF TypeInv, TypeOK, MemoryType, CounterType, Uuid
  <2>4. next' \in Nat /\ u < next' /\ next <= next' /\ \A i \in 1 .. Len(ids) : ids[i].uuid # u
    <3>1. CASE u = next /\ next' = next + 1
      BY <2>3, <3>1 DEF FreshUuids
    <3>2. CASE u \in DOMAIN nodes \ Matched /\ next' = next
      BY <2>3, <3>2 DEF FreshUuids, Matched, Used
    <3>3. QED
      BY <2>1, <3>1, <3>2
  <2>5. \A w \in DOMAIN nodes' : w < next'
    BY <1>1, <2>3, <2>4, GivesEffect DEF FreshUuids, database, TypeInv, TypeOK, StoreType, Uuid
  <2>6. DOMAIN ids = 1 .. Len(ids) /\ DOMAIN ids' = 1 .. Len(ids) + 1
    BY <2>2, <2>3
  <2>7. \A i \in 1 .. Len(ids) : ids[i].uuid \in Nat
    <3>1. \A i \in 1 .. Len(ids) : ids[i] \in Given
      BY <2>3
    <3>2. QED
      BY <3>1, BoundsAssumption DEF Given, Uuid
  <2>8. \A i \in DOMAIN ids' : ids'[i].uuid < next'
    <3> SUFFICES ASSUME NEW i \in DOMAIN ids' PROVE ids'[i].uuid < next'
      OBVIOUS
    <3>1. CASE i \in 1 .. Len(ids)
      BY <2>2, <2>3, <2>4, <2>6, <2>7, <3>1 DEF FreshUuids
    <3>2. CASE i = Len(ids) + 1
      BY <2>2, <2>4, <3>2
    <3>3. QED
      BY <2>3, <2>6, <3>1, <3>2
  <2>9. \A i, j \in DOMAIN ids' : ids'[i].uuid = ids'[j].uuid => i = j
    <3> SUFFICES ASSUME NEW i \in DOMAIN ids', NEW j \in DOMAIN ids',
                        ids'[i].uuid = ids'[j].uuid
                 PROVE  i = j
      OBVIOUS
    <3>1. CASE i \in 1 .. Len(ids) /\ j \in 1 .. Len(ids)
      BY <2>2, <2>6, <3>1 DEF FreshUuids
    <3>2. CASE i = Len(ids) + 1 \/ j = Len(ids) + 1
      BY <2>2, <2>3, <2>4, <2>6, <3>2
    <3>3. QED
      BY <2>3, <2>6, <3>1, <3>2
  <2>10. QED
    BY <2>5, <2>8, <2>9 DEF FreshUuids
<1>2. CASE UpsertNode
  <2>1. at \in DOMAIN ids
    BY <1>2, JobSource, AllGiven DEF UpsertNode
  <2>2. DOMAIN nodes' = DOMAIN nodes \cup {ids[at].uuid} /\ ids' = ids /\ next' = next
    BY <1>2 DEF UpsertNode, Upsert
  <2>3. QED
    BY <2>1, <2>2 DEF FreshUuids
<1>3. CASE Ends
  BY <1>3 DEF Ends, LogActivity, Abort, Forget, database, FreshUuids
<1>4. CASE Begins \/ RetireNode \/ WriteContent \/ UpsertDocument \/ Quiet
  <2>1. ids' = ids /\ next' = next /\ DOMAIN nodes' = DOMAIN nodes
    BY <1>4 DEF Begins, Resume, Create, RetireNode, WriteContent, UpsertDocument, Quiet, database, memory
  <2>2. QED
    BY <2>1 DEF FreshUuids
<1>5. QED
  BY <1>1, <1>2, <1>3, <1>4, StepKinds

(* What RetireNode does to the table. *)
LEMMA RetireEffect ==
  ASSUME TypeInv, RetireNode
  PROVE  /\ stage = "retire"
         /\ UNCHANGED <<docs, edges, content, memory, next>>
         /\ DOMAIN nodes' = DOMAIN nodes
         /\ \E u \in StillToRetire :
              /\ nodes'[u] = [nodes[u] EXCEPT !.status = "deleted"]
              /\ \A v \in DOMAIN nodes : v # u => nodes'[v] = nodes[v]
         /\ \A v \in DOMAIN nodes : /\ nodes'[v].doc = nodes[v].doc
                                    /\ nodes'[v].parent = nodes[v].parent
                                    /\ nodes'[v].version = nodes[v].version
                                    /\ nodes'[v].content = nodes[v].content
                                    /\ nodes'[v].status = "active" => nodes'[v] = nodes[v]
<1>1. PICK u \in StillToRetire : nodes' = [nodes EXCEPT ![u].status = "deleted"]
  BY DEF RetireNode
<1>2. \A v \in DOMAIN nodes : nodes[v] \in Row
  BY DEF TypeInv, TypeOK, StoreType
<1>3. u \in DOMAIN nodes
  BY DEF StillToRetire, Unmatched, TypeInv, RowsLoaded
<1>4. /\ DOMAIN nodes' = DOMAIN nodes
      /\ nodes'[u] = [nodes[u] EXCEPT !.status = "deleted"]
      /\ \A v \in DOMAIN nodes : v # u => nodes'[v] = nodes[v]
  BY <1>1, <1>3
<1>5. /\ nodes'[u].doc = nodes[u].doc
      /\ nodes'[u].parent = nodes[u].parent
      /\ nodes'[u].version = nodes[u].version
      /\ nodes'[u].content = nodes[u].content
      /\ nodes'[u].status = "deleted"
  BY <1>2, <1>3, <1>4 DEF Row
<1>6. QED
  BY <1>4, <1>5 DEF RetireNode

(* What UpsertNode does to the table. *)
LEMMA UpsertEffect ==
  ASSUME TypeInv, UpsertNode
  PROVE  /\ stage = "rows" /\ at \in DOMAIN ids
         /\ UNCHANGED <<docs, edges, content, job, ids, next>>
         /\ DOMAIN nodes' = DOMAIN nodes \cup {ids[at].uuid}
         /\ nodes'[ids[at].uuid] = RowOf(at)
         /\ \A v \in DOMAIN nodes : v # ids[at].uuid => nodes'[v] = nodes[v]
         /\ \/ at = Len(ids) /\ at' = 1 /\ stage' = "activity"
            \/ at < Len(ids) /\ at' = at + 1 /\ stage' = "rows"
<1>1. stage = "rows"
  BY DEF UpsertNode
<1>2. at \in DOMAIN ids /\ Len(ids) = Len(job.src.nodes)
  BY <1>1, JobSource, AllGiven
<1>3. \/ at = Len(ids) /\ at' = 1 /\ stage' = "activity"
      \/ at < Len(ids) /\ at' = at + 1 /\ stage' = "rows"
  BY <1>1, <1>2, WalkStep DEF UpsertNode
<1>4. QED
  BY <1>1, <1>2, <1>3 DEF UpsertNode, Upsert

(* Only the pipeline's own document gets rows, once its row is there. *)
LEMMA RowsHaveDocumentStep ==
  ASSUME TypeInv, RowsHaveDocument, [Next]_vars
  PROVE  RowsHaveDocument'
<1>1. DOMAIN docs \subseteq DOMAIN docs'
  <2>1. docs' = docs \/ \E d \in DocRow : docs' = Append(docs, d)
    <3>1. CASE UpsertDocument
      <4>1. job \in Job /\ ids[1].uuid \in Uuid
        BY <3>1, JobSource, AllGiven DEF UpsertDocument
      <4>2. [path |-> job.path, root |-> ids[1].uuid] \in DocRow
        BY <4>1 DEF Job, DocRow
      <4>3. QED
        BY <3>1, <4>2 DEF UpsertDocument
    <3>2. CASE Begins \/ Gives \/ RetireNode \/ WriteContent \/ UpsertNode \/ Ends \/ Quiet
      BY <3>2, GivesEffect DEF Begins, Resume, Create, RetireNode, WriteContent, UpsertNode, Ends,
         LogActivity, Abort, Quiet, database
    <3>3. QED
      BY <3>1, <3>2, StepKinds
  <2>2. QED
    BY <2>1 DEF TypeInv, TypeOK, StoreType
<1>2. CASE UpsertNode
  <2>1. job.doc \in DOMAIN docs
    BY <1>2, JobSource DEF UpsertNode, TypeInv, TypeOK, StoreType, Numbering, Job, DocId
  <2>2. RowOf(at).doc = job.doc
    BY DEF RowOf
  <2>3. QED
    BY <1>1, <1>2, <2>1, <2>2, UpsertEffect DEF RowsHaveDocument
<1>3. CASE RetireNode
  BY <1>1, <1>3, RetireEffect DEF RowsHaveDocument
<1>4. CASE Begins \/ Gives \/ WriteContent \/ UpsertDocument \/ Ends \/ Quiet
  <2>1. nodes' = nodes
    BY <1>4, GivesEffect DEF Begins, Resume, Create, WriteContent, UpsertDocument, Ends,
       LogActivity, Abort, Quiet, database
  <2>2. QED
    BY <1>1, <2>1 DEF RowsHaveDocument
<1>5. QED
  BY <1>2, <1>3, <1>4, StepKinds

LEMMA LoadedRowsStep ==
  ASSUME TypeInv, RowsHaveDocument, LoadedRows, [Next]_vars
  PROVE  LoadedRows'
<1>1. CASE Begins
  <2>1. CASE \E s \in Sources, p \in Paths \cup {NoPath} : Resume(p, s)
    <3>1. PICK s \in Sources, p \in Paths \cup {NoPath} : Resume(p, s)
      BY <2>1
    <3>2. PICK d \in DocsByPath(p) : job'.doc = d /\ job'.existing = NodesByDoc(d)
      BY <3>1 DEF Resume, FirstByPath
    <3>3. nodes' = nodes /\ stage' = "match"
      BY <3>1 DEF Resume, database
    <3>4. QED
      BY <3>2, <3>3 DEF LoadedRows, NodesByDoc
  <2>2. CASE \E s \in Sources, p \in Paths \cup {NoPath}, m \in BOOLEAN : Create(p, s, m)
    <3>1. job'.existing = {} /\ job'.doc = Len(docs) + 1 /\ nodes' = nodes /\ stage' = "assign"
      BY <2>2 DEF Create, NewDoc, database
    <3>2. \A u \in DOMAIN nodes : nodes[u].doc # Len(docs) + 1
      BY DEF RowsHaveDocument, TypeInv, TypeOK, StoreType
    <3>3. QED
      BY <3>1, <3>2 DEF LoadedRows, NodesByDoc
  <2>3. QED
    BY <1>1, <2>1, <2>2 DEF Begins
<1>2. CASE Gives
  <2>1. /\ UNCHANGED <<nodes, job>>
        /\ stage' \in {"assign", "match"} => stage' = stage
    BY <1>2, GivesEffect DEF database
  <2>2. NodesByDoc(job.doc)' = NodesByDoc(job.doc)
    BY <2>1 DEF NodesByDoc
  <2>3. QED
    BY <2>1, <2>2 DEF LoadedRows
<1>3. CASE RetireNode
  BY <1>3, RetireEffect DEF LoadedRows, memory, TypeInv, RowsLoaded
<1>4. CASE UpsertNode
  <2>1. RowOf(at).doc = job.doc
    BY DEF RowOf
  <2>2. QED
    BY <1>4, <2>1, UpsertEffect DEF LoadedRows, TypeInv, RowsLoaded
<1>5. CASE Ends
  BY <1>5 DEF Ends, LogActivity, Abort, Forget, NoJob, LoadedRows
<1>6. CASE WriteContent \/ UpsertDocument \/ Quiet
  <2>1. nodes' = nodes /\ job' = job /\ (stage' \in {"assign", "match"} => stage' = stage)
    BY <1>6 DEF WriteContent, UpsertDocument, Quiet, Walk, database
  <2>2. QED
    BY <2>1 DEF LoadedRows, NodesByDoc
<1>7. QED
  BY <1>1, <1>2, <1>3, <1>4, <1>5, <1>6, StepKinds

(* What the first step of an ingestion finds and leaves. *)
LEMMA BeginsEffect ==
  ASSUME TypeInv, Begins
  PROVE  /\ stage = "idle" /\ ids = <<>> /\ ids' = <<>> /\ at' = 1
         /\ UNCHANGED <<docs, nodes, edges, content, next>>
         /\ \/ /\ stage' = "match" /\ job'.doc \in DOMAIN docs
               /\ job'.existing = NodesByDoc(job'.doc)
            \/ /\ stage' = "assign" /\ job'.doc = Len(docs) + 1
               /\ job'.existing = {}
<1>1. CASE \E s \in Sources, p \in Paths \cup {NoPath} : Resume(p, s)
  <2>1. PICK s \in Sources, p \in Paths \cup {NoPath} : Resume(p, s)
    BY <1>1
  <2>2. PICK d \in DocsByPath(p) : job'.doc = d /\ job'.existing = NodesByDoc(d)
    BY <2>1 DEF Resume, FirstByPath
  <2>3. QED
    BY <2>1, <2>2 DEF Resume, DocsByPath, database, TypeInv, Walking
<1>2. CASE \E s \in Sources, p \in Paths \cup {NoPath}, m \in BOOLEAN : Create(p, s, m)
  BY <1>2 DEF Create, NewDoc, database, TypeInv, Walking
<1>3. QED
  BY <1>1, <1>2 DEF Begins

(* An ingestion that ends, well or badly, leaves the tables to the next. *)
LEMMA EndsEffect ==
  ASSUME Ends
  PROVE  /\ stage' = "idle" /\ ids' = <<>> /\ at' = 1
         /\ UNCHANGED <<docs, nodes, edges, content, next>>
BY DEF Ends, LogActivity, Abort, Forget, database

(* What the given UUIDs are after one more of them. *)
LEMMA GaveOne ==
  ASSUME TypeInv, LoadedRows, Gives
  PROVE  /\ DOMAIN ids = 1 .. Len(ids) /\ Len(ids) \in Nat
         /\ DOMAIN ids' = 1 .. Len(ids')
         /\ Len(ids') = Len(ids) + 1
         /\ \A i \in DOMAIN ids : ids'[i] = ids[i]
         /\ \/ ids'[Len(ids) + 1] = [uuid |-> next, version |-> 1]
            \/ \E u \in Unmatched, k \in {0, 1} :
                 /\ stage = "match"
                 /\ ids'[Len(ids) + 1] = [uuid |-> u, version |-> nodes[u].version + k]
                 /\ k = 0 => nodes[u].text = job.src.nodes[Len(ids) + 1].text
<1>1. PICK u \in Uuid, v \in Nat :
         /\ Give(u, v)
         /\ \/ u = next /\ next' = next + 1 /\ v = 1
            \/ /\ stage = "match"
               /\ u \in Unmatched /\ next' = next
               /\ \/ v = nodes[u].version /\ nodes[u].text = job.src.nodes[at].text
                  \/ v = nodes[u].version + 1
  BY GivesUuid
<1>2. Give(u, v)
  BY <1>1
<1>3. /\ ids' \in Seq(Given) /\ Len(ids') = Len(ids) + 1
      /\ ids'[Len(ids) + 1] = [uuid |-> u, version |-> v]
      /\ \A i \in 1 .. Len(ids) : ids'[i] = ids[i]
  BY <1>2, GiveType
<1>4. ids \in Seq(Given)
  BY DEF TypeInv, TypeOK, MemoryType
<1>5. DOMAIN ids = 1 .. Len(ids) /\ Len(ids) \in Nat /\ DOMAIN ids' = 1 .. Len(ids) + 1
  BY <1>3, <1>4
<1>6. CASE u = next /\ v = 1
  BY <1>3, <1>5, <1>6
<1>7. CASE /\ stage = "match" /\ u \in Unmatched
           /\ \/ v = nodes[u].version /\ nodes[u].text = job.src.nodes[at].text
              \/ v = nodes[u].version + 1
  <2>1. nodes[u].version \in Nat
    BY <1>7 DEF TypeInv, TypeOK, StoreType, RowsLoaded, Row, Unmatched
  <2>2. at = Len(ids) + 1
    BY <1>4, <1>7 DEF TypeInv, TypeOK, MemoryType, Walking
  <2>3. PICK k \in {0, 1} : /\ v = nodes[u].version + k
                            /\ k = 0 => nodes[u].text = job.src.nodes[Len(ids) + 1].text
    <3>1. CASE v = nodes[u].version /\ nodes[u].text = job.src.nodes[at].text
      <4>1. v = nodes[u].version + 0
        BY <2>1, <3>1
      <4>2. QED
        BY <2>2, <3>1, <4>1
    <3>2. CASE v = nodes[u].version + 1
      BY <3>2
    <3>3. QED
      BY <1>7, <3>1, <3>2
  <2>4. QED
    BY <1>3, <1>5, <1>7, <2>3
<1>8. QED
  BY <1>1, <1>6, <1>7

(* The remaining steps change neither a row nor the walk over ids, except  *)
(* for where they stand.                                                   *)
Carries == WriteContent \/ UpsertDocument \/ Quiet

LEMMA CarriesEffect ==
  ASSUME TypeInv, Carries
  PROVE  /\ UNCHANGED <<nodes, job, ids, next>>
         /\ \/ stage' = stage /\ at' = at
            \/ stage' = stage /\ stage = "content"
            \/ stage = "content" /\ stage' = "document" /\ at' = 1
            \/ stage = "document" /\ stage' = "rows" /\ at' = 1
            \/ stage = "retire" /\ stage' = "orphan" /\ StillToRetire = {}
            \/ stage = "orphan" /\ stage' = "content" /\ at' = 1
<1>1. CASE WriteContent
  BY <1>1 DEF WriteContent, Walk, database
<1>2. CASE UpsertDocument
  BY <1>2 DEF UpsertDocument, TypeInv, Walking
<1>3. CASE Quiet
  BY <1>3 DEF Quiet, TypeInv, Walking
<1>4. QED
  BY <1>1, <1>2, <1>3 DEF Carries

(* A decision is carried out as it was taken: nothing between the diff and *)
(* the row's own upsert touches a row the diff has given away.             *)
LEMMA DecisionsStep ==
  ASSUME TypeInv, FreshUuids, LoadedRows, Decisions, [Next]_vars
  PROVE  Decisions'
<1>1. CASE Gives
  <2>1. stage \in {"assign", "match"} /\ stage' \in {"assign", "match", "retire", "content"}
        /\ (stage' = "content" => at' = 1) /\ nodes' = nodes /\ job' = job
    BY <1>1, GivesEffect DEF database
  <2>2. \A i \in DOMAIN ids : Decided(i)
    BY <2>1 DEF Decisions, RowWritten
  <2>3. SUFFICES ASSUME NEW i \in DOMAIN ids' PROVE Decided(i)'
    BY <2>1 DEF Decisions, RowWritten
  <2>4. CASE i \in DOMAIN ids
    BY <1>1, <2>1, <2>2, <2>4, GaveOne DEF Decided, IsActive
  <2>5. CASE i = Len(ids) + 1
    <3>1. CASE ids'[i] = [uuid |-> next, version |-> 1]
      <4>1. next \notin DOMAIN nodes
        BY DEF FreshUuids, TypeInv, TypeOK, CounterType
      <4>2. QED
        BY <2>1, <3>1, <4>1 DEF Decided
    <3>2. CASE \E u \in Unmatched, k \in {0, 1} :
                  /\ stage = "match"
                  /\ ids'[i] = [uuid |-> u, version |-> nodes[u].version + k]
                  /\ k = 0 => nodes[u].text = job.src.nodes[i].text
      <4>1. PICK u \in Unmatched, k \in {0, 1} :
                  /\ stage = "match"
                  /\ ids'[i] = [uuid |-> u, version |-> nodes[u].version + k]
                  /\ k = 0 => nodes[u].text = job.src.nodes[i].text
        BY <3>2
      <4>2. u \in job.existing /\ IsActive(u) /\ nodes[u].version \in Nat
        BY <4>1 DEF Unmatched, LoadedRows, IsActive, TypeInv, RowsLoaded, TypeOK, StoreType, Row
      <4>3. \/ nodes[u].version + k = nodes[u].version /\ nodes[u].text = job.src.nodes[i].text
            \/ nodes[u].version + k = nodes[u].version + 1
        BY <4>1, <4>2
      <4>4. QED
        BY <2>1, <4>1, <4>2, <4>3 DEF Decided, IsActive
    <3>3. QED
      BY <1>1, <2>5, <3>1, <3>2, GaveOne
  <2>6. QED
    BY <1>1, <2>4, <2>5, GaveOne
<1>2. CASE RetireNode
  <2>1. \A i \in DOMAIN ids : Decided(i)
    BY <1>2, RetireEffect DEF Decisions, RowWritten
  <2>2. PICK u \in StillToRetire : \A v \in DOMAIN nodes : v # u => nodes'[v] = nodes[v]
    BY <1>2, RetireEffect
  <2>3. \A i \in DOMAIN ids : ids[i].uuid # u
    BY DEF StillToRetire, Unmatched, Matched, Used, TypeInv, TypeOK, MemoryType
  <2>4. \A i \in DOMAIN ids' : Decided(i)' /\ ~RowWritten(i)'
    BY <1>2, <2>1, <2>2, <2>3, RetireEffect DEF Decided, IsActive, RowWritten, memory
  <2>5. QED
    BY <2>4 DEF Decisions
<1>3. CASE UpsertNode
  <2>1. \A i \in DOMAIN ids : i # at => ids[i].uuid # ids[at].uuid
    BY <1>3, UpsertEffect DEF FreshUuids
  <2>2. DOMAIN ids = 1 .. Len(ids) /\ Len(ids) \in Nat /\ at \in Nat
    BY DEF TypeInv, TypeOK, MemoryType
  <2>3. \A i \in DOMAIN ids : /\ RowOf(i)' = RowOf(i)
                              /\ RowWritten(i)' <=> i <= at
                              /\ RowWritten(i) <=> i < at
    BY <1>3, <2>2, UpsertEffect DEF RowOf, RowWritten
  <2>4. SUFFICES ASSUME NEW i \in DOMAIN ids
                 PROVE  IF i <= at
                          THEN ids[i].uuid \in DOMAIN nodes' /\ nodes'[ids[i].uuid] = RowOf(i)
                          ELSE Decided(i)'
    BY <1>3, <2>3, UpsertEffect DEF Decisions
  <2>5. CASE i = at
    BY <1>3, <2>2, <2>5, UpsertEffect
  <2>6. CASE i < at
    <3>1. ids[i].uuid \in DOMAIN nodes /\ nodes[ids[i].uuid] = RowOf(i)
      BY <2>3, <2>6 DEF Decisions
    <3>2. ids[i].uuid # ids[at].uuid
      BY <2>1, <2>2, <2>6
    <3>3. ids[i].uuid \in DOMAIN nodes' /\ nodes'[ids[i].uuid] = nodes[ids[i].uuid]
      BY <1>3, <3>1, <3>2, UpsertEffect
    <3>4. i <= at
      BY <2>2, <2>6
    <3>5. QED
      BY <3>1, <3>3, <3>4
  <2>7. CASE i > at
    <3>1. Decided(i)
      BY <2>2, <2>3, <2>7 DEF Decisions
    <3>2. ids[i].uuid # ids[at].uuid
      BY <2>1, <2>2, <2>7
    <3>3. Decided(i)'
      BY <1>3, <3>1, <3>2, UpsertEffect DEF Decided, IsActive
    <3>4. QED
      BY <2>2, <2>7, <3>3
  <2>8. QED
    BY <2>2, <2>5, <2>6, <2>7
<1>4. CASE Begins \/ Ends
  BY <1>4, BeginsEffect, EndsEffect DEF Decisions
<1>5. CASE Carries
  <2>1. UNCHANGED <<nodes, job, ids>>
    BY <1>5, CarriesEffect
  <2>2. \A i \in DOMAIN ids : RowWritten(i)' <=> RowWritten(i)
    BY <1>5, CarriesEffect DEF RowWritten, TypeInv, TypeOK, MemoryType
  <2>3. \A i \in DOMAIN ids : (RowOf(i)' = RowOf(i)) /\ (Decided(i)' <=> Decided(i))
    BY <2>1 DEF RowOf, Decided, IsActive
  <2>4. QED
    BY <2>1, <2>2, <2>3 DEF Decisions
<1>6. QED
  BY <1>1, <1>2, <1>3, <1>4, <1>5, StepKinds DEF Carries

LEMMA MatchedIds == ASSUME TypeInv PROVE Matched = {ids[i].uuid : i \in DOMAIN ids}
BY DEF Matched, Used, TypeInv, TypeOK, MemoryType

(* A document's active rows are those the diff loaded or the pipeline      *)
(* wrote; a document number not in the table has no rows.                  *)
LEMMA DiffCoversStep ==
  ASSUME TypeInv, RowsHaveDocument, LoadedRows, DiffCovers, [Next]_vars
  PROVE  DiffCovers'
<1>1. CASE Begins
  <2>1. /\ stage' \in {"match", "assign"} /\ nodes' = nodes
        /\ \/ job'.existing = NodesByDoc(job'.doc)
           \/ job'.doc = Len(docs) + 1
    BY <1>1, BeginsEffect
  <2>2. \A u \in DOMAIN nodes : nodes[u].doc # Len(docs) + 1
    BY DEF RowsHaveDocument, TypeInv, TypeOK, StoreType
  <2>3. NodesByDoc(Len(docs) + 1) = {}
    BY <2>2 DEF NodesByDoc
  <2>4. NodesByDoc(job.doc)' = NodesByDoc(job'.doc)
    BY <2>1 DEF NodesByDoc
  <2>5. NodesByDoc(job.doc)' \subseteq job'.existing
    BY <2>1, <2>3, <2>4
  <2>6. QED
    BY <2>1, <2>5 DEF DiffCovers
<1>2. CASE Gives
  <2>1. /\ stage \in {"assign", "match"} /\ UNCHANGED <<nodes, job>>
        /\ stage' \in {"assign", "match", "retire", "content"}
        /\ stage' = "content" => stage = "assign"
    BY <1>2, GivesEffect DEF database
  <2>2. \A i \in DOMAIN ids : i \in DOMAIN ids' /\ ids'[i] = ids[i]
    BY <1>2, GaveOne
  <2>3. Matched \subseteq Matched'
    <3>1. Matched' = {ids'[i].uuid : i \in DOMAIN ids'}
      BY <1>2, GaveOne DEF Matched, Used
    <3>2. QED
      BY <2>2, <3>1, MatchedIds
  <2>4. NodesByDoc(job.doc)' = NodesByDoc(job.doc)
    BY <2>1 DEF NodesByDoc
  <2>5. NodesByDoc(job.doc)' \subseteq job'.existing \cup Matched'
    BY <2>1, <2>3, <2>4 DEF DiffCovers
  <2>6. stage' = "content" => Unmatched' = {}
    BY <2>1 DEF Unmatched, LoadedRows
  <2>7. QED
    BY <2>1, <2>5, <2>6 DEF DiffCovers
<1>3. CASE RetireNode
  <2>1. /\ stage = "retire" /\ UNCHANGED <<stage, job, ids>>
        /\ DOMAIN nodes' = DOMAIN nodes
        /\ \A v \in DOMAIN nodes : nodes'[v].status = "active" => nodes'[v] = nodes[v]
    BY <1>3, RetireEffect DEF memory
  <2>2. NodesByDoc(job.doc)' \subseteq NodesByDoc(job.doc)
    BY <2>1 DEF NodesByDoc
  <2>3. Matched' = Matched
    BY <2>1 DEF Matched, Used
  <2>4. QED
    BY <2>1, <2>2, <2>3 DEF DiffCovers
<1>4. CASE UpsertNode
  <2>1. /\ stage = "rows" /\ stage' \in {"rows", "activity"} /\ UNCHANGED <<job, ids>>
        /\ at \in DOMAIN ids
        /\ DOMAIN nodes' = DOMAIN nodes \cup {ids[at].uuid}
        /\ \A v \in DOMAIN nodes : v # ids[at].uuid => nodes'[v] = nodes[v]
    BY <1>4, UpsertEffect
  <2>2. Matched' = Matched /\ Unmatched' = Unmatched
    BY <2>1 DEF Matched, Used, Unmatched
  <2>3. ids[at].uuid \in Matched /\ ids[at].uuid \notin Unmatched
    BY <2>1, MatchedIds DEF Unmatched
  <2>4. NodesByDoc(job.doc)' \subseteq NodesByDoc(job.doc) \cup {ids[at].uuid}
    BY <2>1 DEF NodesByDoc
  <2>5. \A u \in Unmatched : ~IsActive(u)'
    BY <2>1, <2>3 DEF DiffCovers, IsActive
  <2>6. QED
    BY <2>1, <2>2, <2>3, <2>4, <2>5 DEF DiffCovers
<1>5. CASE Ends
  BY <1>5, EndsEffect DEF DiffCovers
<1>6. CASE Carries
  <2>1. UNCHANGED <<nodes, job, ids>>
    BY <1>6, CarriesEffect
  <2>2. /\ Matched' = Matched /\ Unmatched' = Unmatched
        /\ NodesByDoc(job.doc)' = NodesByDoc(job.doc)
        /\ \A u : IsActive(u)' = IsActive(u)
    BY <2>1 DEF Matched, Used, Unmatched, NodesByDoc, IsActive
  <2>3. CASE stage = "retire" /\ stage' = "orphan" /\ StillToRetire = {}
    <3>1. \A u \in Unmatched : ~IsActive(u)
      BY <2>3 DEF StillToRetire, IsActive
    <3>2. QED
      BY <2>1, <2>2, <2>3, <3>1 DEF DiffCovers
  <2>4. CASE ~(stage = "retire" /\ stage' = "orphan")
    <3>1. /\ stage' # "idle" => stage # "idle"
          /\ stage' \in {"orphan", "content", "document", "rows", "activity"} =>
               stage \in {"orphan", "content", "document", "rows", "activity"}
      BY <1>6, <2>4, CarriesEffect
    <3>2. QED
      BY <2>1, <2>2, <3>1 DEF DiffCovers
  <2>5. QED
    BY <1>6, <2>3, <2>4, CarriesEffect
<1>7. QED
  BY <1>1, <1>2, <1>3, <1>4, <1>5, <1>6, StepKinds DEF Carries

(* What WriteContent does to the content directory. *)
LEMMA WriteEffect ==
  ASSUME TypeInv, WriteContent
  PROVE  /\ stage = "content" /\ at \in DOMAIN ids
         /\ UNCHANGED <<docs, nodes, job, ids>>
         /\ \/ at = Len(ids) /\ stage' = "document"
            \/ at < Len(ids) /\ at' = at + 1 /\ stage' = "content"
         /\ \A u \in DOMAIN content :
              /\ u \in DOMAIN content'
              /\ u # ids[at].uuid => content'[u] = content[u]
         /\ HasContent(at) => /\ ids[at].uuid \in DOMAIN content'
                              /\ content'[ids[at].uuid] = job.src.nodes[at].body
<1>1. stage = "content"
  BY DEF WriteContent
<1>2. at \in DOMAIN ids /\ Len(ids) = Len(job.src.nodes)
  BY <1>1, JobSource, AllGiven
<1>3. \/ at = Len(ids) /\ stage' = "document"
      \/ at < Len(ids) /\ at' = at + 1 /\ stage' = "content"
  BY <1>1, <1>2, WalkStep DEF WriteContent
<1>4. CASE HasContent(at)
  BY <1>1, <1>2, <1>3, <1>4 DEF WriteContent, Upsert, database
<1>5. CASE ~HasContent(at)
  BY <1>1, <1>2, <1>3, <1>5 DEF WriteContent, database
<1>6. QED
  BY <1>4, <1>5

(* A file written for a node is not overwritten for another one. *)
LEMMA FilesFirstStep ==
  ASSUME TypeInv, FreshUuids, FilesFirst, [Next]_vars
  PROVE  FilesFirst'
<1>1. CASE WriteContent
  <2>0. at \in DOMAIN ids
    BY <1>1, WriteEffect
  <2>1. DOMAIN ids = 1 .. Len(ids) /\ Len(ids) \in Nat /\ at \in Nat
    BY DEF TypeInv, TypeOK, MemoryType
  <2>2. \A i \in DOMAIN ids : /\ FileWritten(i)' => i <= at
                              /\ FileWritten(i) <=> i < at
    <3>1. \/ at = Len(ids) /\ stage' = "document"
          \/ at < Len(ids) /\ at' = at + 1 /\ stage' = "content"
      BY <1>1, WriteEffect
    <3>2. stage = "content"
      BY <1>1, WriteEffect
    <3>3. \A i \in DOMAIN ids : FileWritten(i) <=> i < at
      BY <3>2 DEF FileWritten
    <3>4. \A i \in DOMAIN ids : FileWritten(i)' => i <= at
      <4>1. \A i \in DOMAIN ids : i <= Len(ids) /\ (i < at + 1 => i <= at)
        BY <2>1
      <4>2. QED
        BY <3>1, <4>1 DEF FileWritten
    <3>5. QED
      BY <3>3, <3>4
  <2>3. SUFFICES ASSUME NEW i \in DOMAIN ids, i <= at, HasContent(i)
                 PROVE  /\ ids[i].uuid \in DOMAIN content'
                        /\ content'[ids[i].uuid] = job.src.nodes[i].body
    BY <1>1, <2>2, WriteEffect DEF FilesFirst, HasContent
  <2>4. CASE i = at
    BY <1>1, <2>3, <2>4, WriteEffect
  <2>5. CASE i < at
    <3>1. ids[i].uuid \in DOMAIN content /\ content[ids[i].uuid] = job.src.nodes[i].body
      BY <2>2, <2>3, <2>5 DEF FilesFirst
    <3>2. ids[i].uuid # ids[at].uuid
      <4>1. at \in DOMAIN ids /\ i # at
        BY <2>0, <2>1, <2>5
      <4>2. QED
        BY <4>1 DEF FreshUuids
    <3>3. QED
      BY <1>1, <3>1, <3>2, WriteEffect
  <2>6. QED
    BY <2>1, <2>3, <2>4, <2>5
<1>2. CASE Begins \/ Ends
  BY <1>2, BeginsEffect, EndsEffect DEF FilesFirst
<1>3. CASE Gives
  <2>1. stage' # "content" \/ at' = 1
    BY <1>3, GivesEffect
  <2>2. stage' \notin {"document", "rows", "activity"}
    BY <1>3, GivesEffect
  <2>3. \A i \in DOMAIN ids' : ~FileWritten(i)'
    BY <1>3, <2>1, <2>2, GivesSome DEF FileWritten
  <2>4. QED
    BY <2>3 DEF FilesFirst
<1>4. CASE RetireNode \/ UpsertNode
  <2>1. /\ UNCHANGED <<content, job, ids>>
        /\ \/ stage' = stage /\ stage = "retire"
           \/ stage = "rows" /\ stage' \in {"rows", "activity"}
    BY <1>4, RetireEffect, UpsertEffect DEF memory
  <2>2. \A i : FileWritten(i)' = FileWritten(i) /\ HasContent(i)' = HasContent(i)
    BY <2>1 DEF FileWritten, HasContent
  <2>3. QED
    BY <2>1, <2>2 DEF FilesFirst
<1>5. CASE UpsertDocument \/ Quiet
  <2>1. /\ UNCHANGED <<content, job, ids>>
        /\ \/ stage' = stage /\ at' = at
           \/ stage = "document" /\ stage' = "rows"
           \/ stage = "retire" /\ stage' = "orphan"
           \/ stage = "orphan" /\ stage' = "content" /\ at' = 1
    BY <1>5 DEF UpsertDocument, Quiet, TypeInv, Walking
  <2>2. DOMAIN ids \subseteq Nat \ {0}
    BY DEF TypeInv, TypeOK, MemoryType
  <2>3. \A i \in DOMAIN ids : FileWritten(i)' => FileWritten(i)
    BY <2>1, <2>2 DEF FileWritten
  <2>4. \A i : HasContent(i)' = HasContent(i)
    BY <2>1 DEF HasContent
  <2>5. QED
    BY <2>1, <2>3, <2>4 DEF FilesFirst
<1>6. QED
  BY <1>1, <1>2, <1>3, <1>4, <1>5, StepKinds

(* Between two stores only WriteContent touches the files, and it adds.    *)
LEMMA ContentGrows ==
  ASSUME TypeInv, [Next]_vars
  PROVE  DOMAIN content \subseteq DOMAIN content'
<1>1. CASE WriteContent
  BY <1>1, WriteEffect
<1>2. CASE Begins \/ Gives \/ RetireNode \/ UpsertDocument \/ UpsertNode \/ Ends \/ Quiet
  BY <1>2, BeginsEffect, GivesEffect, RetireEffect, UpsertEffect, EndsEffect
     DEF UpsertDocument, Quiet
<1>3. QED
  BY <1>1, <1>2, StepKinds

(* Rows are revised or added, never removed. *)
LEMMA NodesGrow ==
  ASSUME TypeInv, [Next]_vars
  PROVE  /\ DOMAIN nodes \subseteq DOMAIN nodes'
         /\ ~UpsertNode /\ ~RetireNode => nodes' = nodes
<1>1. CASE RetireNode \/ UpsertNode
  BY <1>1, RetireEffect, UpsertEffect
<1>2. CASE Begins \/ Gives \/ Ends \/ Carries
  BY <1>2, BeginsEffect, GivesEffect, EndsEffect, CarriesEffect DEF database
<1>3. QED
  BY <1>1, <1>2, StepKinds DEF Carries

LEMMA ReadableStep ==
  ASSUME TypeInv, FilesFirst, ActiveBlocksReadable, [Next]_vars
  PROVE  ActiveBlocksReadable'
<1>1. CASE UpsertNode
  <2>1. at \in DOMAIN ids /\ stage = "rows"
    BY <1>1, UpsertEffect
  <2>2. RowOf(at).content => HasContent(at)
    BY DEF RowOf, HasContent
  <2>3. RowOf(at).content => ids[at].uuid \in DOMAIN content
    BY <2>1, <2>2 DEF FilesFirst, FileWritten
  <2>4. QED
    BY <1>1, <2>3, UpsertEffect DEF ActiveBlocksReadable
<1>2. CASE RetireNode
  BY <1>2, RetireEffect DEF ActiveBlocksReadable
<1>3. CASE ~UpsertNode /\ ~RetireNode
  BY <1>3, ContentGrows, NodesGrow DEF ActiveBlocksReadable
<1>4. QED
  BY <1>1, <1>2, <1>3

(* A parent comes before its children in preorder, so its row is there.    *)
LEMMA ForeignKeysStep ==
  ASSUME TypeInv, RowsHaveDocument, WrittenRows, ForeignKeysHold, [Next]_vars
  PROVE  ForeignKeysHold'
<1>1. RowsHaveDocument'
  BY RowsHaveDocumentStep
<1>2. CASE UpsertNode
  <2>1. /\ stage = "rows" /\ at \in DOMAIN ids /\ at \in 1 .. Len(job.src.nodes)
        /\ DOMAIN ids = 1 .. Len(job.src.nodes) /\ job.src \in Sources
        /\ Len(job.src.nodes) \in Nat
    BY <1>2, UpsertEffect, JobSource, AllGiven
  <2>2. RowOf(at).parent \in DOMAIN nodes \cup {NoUuid}
    <3>1. CASE at = 1 \/ job.diff
      BY <3>1 DEF RowOf
    <3>2. CASE at # 1 /\ ~job.diff
      <4>1. job.src.nodes[at].par \in 1 .. at - 1
        BY <2>1, <3>2, SourceNodes
      <4>2. job.src.nodes[at].par \in DOMAIN ids /\ job.src.nodes[at].par < at
        BY <2>1, <4>1
      <4>3. ids[job.src.nodes[at].par].uuid \in DOMAIN nodes
        BY <2>1, <4>2 DEF WrittenRows, RowWritten
      <4>4. RowOf(at).parent = ids[job.src.nodes[at].par].uuid
        BY <3>2 DEF RowOf
      <4>5. QED
        BY <4>3, <4>4
    <3>3. QED
      BY <3>1, <3>2
  <2>3. \A u \in DOMAIN nodes' : nodes'[u].parent \in DOMAIN nodes' \cup {NoUuid}
    BY <1>2, <2>2, UpsertEffect DEF ForeignKeysHold
  <2>4. QED
    BY <1>1, <2>3 DEF ForeignKeysHold, RowsHaveDocument
<1>3. CASE RetireNode
  BY <1>1, <1>3, RetireEffect DEF ForeignKeysHold, RowsHaveDocument
<1>4. CASE ~UpsertNode /\ ~RetireNode
  BY <1>1, <1>4, NodesGrow DEF ForeignKeysHold, RowsHaveDocument
<1>5. QED
  BY <1>2, <1>3, <1>4

(* What an upsert finds under the UUID: nothing, or the active row of the  *)
(* same document the diff chose, one version behind at most.               *)
LEMMA UpsertOver ==
  ASSUME TypeInv, LoadedRows, Decisions, UpsertNode
  PROVE  /\ RowOf(at).doc = job.doc /\ RowOf(at).status = "active"
         /\ \/ ids[at].uuid \notin DOMAIN nodes /\ RowOf(at).version = 1
            \/ /\ ids[at].uuid \in DOMAIN nodes /\ IsActive(ids[at].uuid)
               /\ nodes[ids[at].uuid].doc = job.doc
               /\ \E k \in {0, 1} : RowOf(at).version = nodes[ids[at].uuid].version + k
               /\ \/ RowOf(at).version > nodes[ids[at].uuid].version
                  \/ nodes[ids[at].uuid].text = job.src.nodes[at].text
<1>1. at \in DOMAIN ids /\ stage = "rows"
  BY UpsertEffect
<1>2. ~RowWritten(at)
  BY <1>1 DEF RowWritten, TypeInv, TypeOK, MemoryType
<1>3. Decided(at)
  BY <1>1, <1>2 DEF Decisions
<1>4. /\ RowOf(at).doc = job.doc /\ RowOf(at).status = "active"
      /\ RowOf(at).version = ids[at].version
  BY DEF RowOf
<1>5. CASE ids[at].uuid \notin DOMAIN nodes
  BY <1>3, <1>4, <1>5 DEF Decided, TypeInv, RowsLoaded
<1>6. CASE ids[at].uuid \in DOMAIN nodes
  <2>1. /\ ids[at].uuid \in job.existing /\ IsActive(ids[at].uuid)
        /\ \/ /\ ids[at].version = nodes[ids[at].uuid].version
              /\ nodes[ids[at].uuid].text = job.src.nodes[at].text
           \/ ids[at].version = nodes[ids[at].uuid].version + 1
    BY <1>3, <1>6 DEF Decided
  <2>2. nodes[ids[at].uuid].version \in Nat
    BY <1>6 DEF TypeInv, TypeOK, StoreType, Row
  <2>3. \E k \in {0, 1} : ids[at].version = nodes[ids[at].uuid].version + k
    BY <2>1, <2>2
  <2>4. \/ ids[at].version > nodes[ids[at].uuid].version
        \/ nodes[ids[at].uuid].text = job.src.nodes[at].text
    BY <2>1, <2>2
  <2>5. QED
    BY <1>4, <1>6, <2>1, <2>3, <2>4 DEF LoadedRows
<1>7. QED
  BY <1>5, <1>6

(* Edges connect rows that are there, and rows stay. *)
LEMMA EdgesHaveNodesStep ==
  ASSUME TypeInv, EdgesHaveNodes, [Next]_vars
  PROVE  EdgesHaveNodes'
<1>1. SUFFICES \A e \in edges' : e.source \in DOMAIN nodes /\ e.target \in DOMAIN nodes
  BY NodesGrow DEF EdgesHaveNodes
<1>2. CASE \E u, v \in DOMAIN nodes : Transclude(u, v)
  BY <1>2 DEF Transclude, EdgesHaveNodes
<1>3. CASE \E scope \in {DocId} \cup {{d} : d \in DocId} : Refresh(scope)
  <2>1. PICK marked \in SUBSET edges :
           edges' = (edges \ marked) \cup {[e EXCEPT !.status = "stale"] : e \in marked}
    BY <1>3 DEF Refresh, Outdated
  <2>2. \A e \in edges : /\ [e EXCEPT !.status = "stale"].source = e.source
                         /\ [e EXCEPT !.status = "stale"].target = e.target
    BY DEF TypeInv, TypeOK, StoreType, Edge
  <2>3. QED
    BY <2>1, <2>2 DEF EdgesHaveNodes
<1>4. CASE edges' = edges
  BY <1>4 DEF EdgesHaveNodes
<1>5. CASE Pipeline \/ Abort \/ UNCHANGED vars
  BY <1>4, <1>5 DEF Pipeline, AssignUuid, MatchExact, MatchFuzzy, MatchNone, RetireNode, RetireDone,
     OrphanAnnotations, OrphanDone, WriteContent, UpsertDocument, UpsertNode, LogActivity,
     Abort, vars, database
<1>6. CASE Begins
  BY <1>4, <1>6, BeginsEffect
<1>7. CASE \E u \in DOMAIN nodes : Annotate(u)
  BY <1>4, <1>7 DEF Annotate
<1>8. QED
  BY <1>2, <1>3, <1>5, <1>6, <1>7 DEF Next, Begins, IngestFile, IngestText

-----------------------------------------------------------------------------
(* The parts together. *)

LEMMA InitIInv == Init => IInv
<1> SUFFICES ASSUME Init PROVE IInv
  OBVIOUS
<1>1. TypeInv
  BY InitTypeInv
<1>2. stage = "idle" /\ ids = <<>> /\ DOMAIN nodes = {} /\ edges = {} /\ job.existing = {}
  BY DEF Init, NoJob
<1>3. QED
  BY <1>1, <1>2 DEF IInv, FreshUuids, RowsHaveDocument, LoadedRows, Decisions, DiffCovers,
     FilesFirst, EdgesHaveNodes, ActiveBlocksReadable, ForeignKeysHold

LEMMA IInvStep == IInv /\ [Next]_vars => IInv'
<1> SUFFICES ASSUME IInv, [Next]_vars PROVE IInv'
  OBVIOUS
<1> USE DEF IInv
<1>1. TypeInv' /\ FreshUuids' /\ RowsHaveDocument' /\ LoadedRows'
  BY TypeInvStep, FreshUuidsStep, RowsHaveDocumentStep, LoadedRowsStep
<1>2. Decisions' /\ DiffCovers' /\ FilesFirst' /\ EdgesHaveNodes'
  BY DecisionsStep, DiffCoversStep, FilesFirstStep, EdgesHaveNodesStep
<1>3. ActiveBlocksReadable' /\ ForeignKeysHold'
  <2>1. WrittenRows
    BY DEF Decisions, WrittenRows
  <2>2. QED
    BY <2>1, ReadableStep, ForeignKeysStep
<1>4. QED
  BY <1>1, <1>2, <1>3

(* The inductive invariant holds throughout.                               *)
THEOREM Invariance == Spec => []IInv
BY InitIInv, IInvStep, PTL DEF Spec

(* Whatever is cut short, the projection finds the file of every active    *)
(* block.                                                                  *)
THEOREM BlocksReadable == Spec => []ActiveBlocksReadable
<1>1. IInv => ActiveBlocksReadable
  BY DEF IInv
<1>2. QED
  BY <1>1, Invariance, PTL

(* No statement of the SQLite writer can fail on a foreign key.            *)
THEOREM ForeignKeys == Spec => []ForeignKeysHold
<1>1. IInv => ForeignKeysHold
  BY DEF IInv
<1>2. QED
  BY <1>1, Invariance, PTL

LEMMA ExactAtTheEnd == IInv => CompletedIngestExact
<1> SUFFICES ASSUME IInv, stage = "activity" PROVE
       /\ NodesByDoc(job.doc) = Matched
       /\ \A i \in DOMAIN job.src.nodes :
            LET n == job.src.nodes[i]
                r == nodes[ids[i].uuid]
            IN /\ r.type = n.type /\ r.pos = i
               /\ r.text = IF i = 1 THEN job.src.full ELSE n.text
               /\ r.content <=> n.body # NoBody
               /\ r.content => content[ids[i].uuid] = n.body
       /\ \A i, j \in DOMAIN ids : ids[i].uuid = ids[j].uuid => i = j
  BY DEF CompletedIngestExact
<1>1. TypeInv
  BY DEF IInv
<1>2. \A i \in DOMAIN ids : ids[i].uuid \in DOMAIN nodes /\ nodes[ids[i].uuid] = RowOf(i)
  BY DEF IInv, Decisions, RowWritten
<1>3. NodesByDoc(job.doc) = Matched
  <2>1. Matched = {ids[i].uuid : i \in DOMAIN ids}
    BY <1>1, MatchedIds
  <2>2. \A i \in DOMAIN ids : RowOf(i).doc = job.doc /\ RowOf(i).status = "active"
    BY DEF RowOf
  <2>3. Matched \subseteq NodesByDoc(job.doc)
    BY <1>2, <2>1, <2>2 DEF NodesByDoc
  <2>4. \A u \in NodesByDoc(job.doc) : IsActive(u)
    BY DEF NodesByDoc, IsActive
  <2>5. NodesByDoc(job.doc) \subseteq Matched
    BY <2>4 DEF IInv, DiffCovers, Unmatched
  <2>6. QED
    BY <2>3, <2>5
<1>4. ASSUME NEW i \in DOMAIN job.src.nodes
      PROVE  LET n == job.src.nodes[i]
                 r == nodes[ids[i].uuid]
             IN /\ r.type = n.type /\ r.pos = i
                /\ r.text = IF i = 1 THEN job.src.full ELSE n.text
                /\ r.content <=> n.body # NoBody
                /\ r.content => content[ids[i].uuid] = n.body
  <2>1. i \in DOMAIN ids
    BY <1>1, <1>4, JobSource, AllGiven
  <2>2. nodes[ids[i].uuid] = RowOf(i)
    BY <1>2, <2>1
  <2>3. HasContent(i) => content[ids[i].uuid] = job.src.nodes[i].body
    BY <2>1 DEF IInv, FilesFirst, FileWritten
  <2>4. /\ RowOf(i).type = job.src.nodes[i].type /\ RowOf(i).pos = i
        /\ RowOf(i).text = IF i = 1 THEN job.src.full ELSE job.src.nodes[i].text
        /\ RowOf(i).content <=> HasContent(i)
    BY DEF RowOf, HasContent
  <2>5. QED
    BY <2>2, <2>3, <2>4 DEF HasContent
<1>5. QED
  BY <1>3, <1>4 DEF IInv, FreshUuids

(* A finished ingestion left exactly the source in the store.              *)
THEOREM ExactIngest == Spec => []CompletedIngestExact
BY ExactAtTheEnd, Invariance, PTL

-----------------------------------------------------------------------------
(* Step properties. *)

(* A step on the nodes table is a step of the ledger. *)
LEMMA LedgerStep ==
  ASSUME IInv, [Next]_vars
  PROVE  [Ledger!Next]_LedgerView
<1> USE DEF IInv
<1>0. DOMAIN LedgerView = DOMAIN nodes /\ \A u \in DOMAIN nodes : LedgerView[u] = EntryOf(nodes[u])
  BY DEF LedgerView
<1>1. CASE UpsertNode
  <2> DEFINE w == ids[at].uuid
             r == RowOf(at)
  <2>1. /\ w \in Uuid /\ job.doc \in DocId
        /\ DOMAIN nodes' = DOMAIN nodes \cup {w} /\ nodes'[w] = r
        /\ \A v \in DOMAIN nodes : v # w => nodes'[v] = nodes[v]
    BY <1>1, UpsertEffect, AllGiven, JobSource DEF Job
  <2>2. LedgerView' = [v \in DOMAIN nodes \cup {w} |->
                         IF v = w THEN EntryOf(r) ELSE EntryOf(nodes[v])]
    BY <2>1 DEF LedgerView
  <2>3. CASE w \notin DOMAIN nodes /\ r.version = 1
    <3>1. EntryOf(r) = [doc |-> job.doc, version |-> 1, status |-> "active"]
      BY <1>1, <2>3, UpsertOver DEF EntryOf
    <3>2. Ledger!Publish(w, job.doc)
      BY <1>0, <2>2, <2>3, <3>1 DEF Ledger!Publish
    <3>3. QED
      BY <2>1, <3>2 DEF Ledger!Next
  <2>4. CASE /\ w \in DOMAIN nodes /\ IsActive(w) /\ nodes[w].doc = job.doc
             /\ \E k \in {0, 1} : r.version = nodes[w].version + k
    <3>1. PICK k \in {0, 1} : r.version = nodes[w].version + k
      BY <2>4
    <3>2. EntryOf(r) = [doc |-> nodes[w].doc, version |-> nodes[w].version + k, status |-> nodes[w].status]
      BY <1>1, <2>4, <3>1, UpsertOver DEF EntryOf, IsActive
    <3>3. LedgerView' = [LedgerView EXCEPT ![w].version = @ + k]
      <4>1. LedgerView[w] = [doc |-> nodes[w].doc, version |-> nodes[w].version, status |-> nodes[w].status]
        BY <1>0, <2>4 DEF EntryOf
      <4>2. [LedgerView[w] EXCEPT !.version = @ + k] = EntryOf(r)
        BY <3>2, <4>1
      <4>3. QED
        BY <1>0, <2>2, <2>4, <4>2
    <3>4. LedgerView[w].status = "active"
      BY <1>0, <2>4 DEF EntryOf, IsActive
    <3>5. Ledger!Revise(w, k)
      BY <1>0, <2>4, <3>3, <3>4 DEF Ledger!Revise, Ledger!IsActive
    <3>6. QED
      BY <2>1, <3>5 DEF Ledger!Next
  <2>5. QED
    BY <1>1, <2>3, <2>4, UpsertOver
<1>2. CASE RetireNode
  <2>1. PICK u \in StillToRetire : /\ nodes'[u] = [nodes[u] EXCEPT !.status = "deleted"]
                                   /\ \A v \in DOMAIN nodes : v # u => nodes'[v] = nodes[v]
    BY <1>2, RetireEffect
  <2>2. DOMAIN nodes' = DOMAIN nodes
    BY <1>2, RetireEffect
  <2>3. u \in DOMAIN nodes /\ u \in Uuid /\ nodes[u].status = "active" /\ nodes[u] \in Row
    BY DEF StillToRetire, Unmatched, TypeInv, RowsLoaded, TypeOK, StoreType
  <2>4. EntryOf(nodes'[u]) = [EntryOf(nodes[u]) EXCEPT !.status = "deleted"]
    BY <2>1, <2>3 DEF EntryOf, Row
  <2>5. LedgerView' = [v \in DOMAIN nodes |-> EntryOf(nodes'[v])]
    BY <2>2 DEF LedgerView
  <2>6. LedgerView' = [LedgerView EXCEPT ![u].status = "deleted"]
    BY <1>0, <2>1, <2>3, <2>4, <2>5 DEF LedgerView
  <2>7. LedgerView[u].status = "active"
    BY <1>0, <2>3 DEF EntryOf
  <2>8. Ledger!Retire(u)
    BY <1>0, <2>3, <2>6, <2>7 DEF Ledger!Retire, Ledger!IsActive
  <2>9. QED
    BY <2>3, <2>8 DEF Ledger!Next
<1>3. CASE ~UpsertNode /\ ~RetireNode
  BY <1>3, NodesGrow DEF LedgerView
<1>4. QED
  BY <1>1, <1>2, <1>3

(* The store keeps every UUID to the ledger. *)
THEOREM KeepsTheLedger == Spec => ImplementsLedger
<1>1. Init => Ledger!Init
  BY DEF Init, Ledger!Init, LedgerView
<1>2. IInv /\ [Next]_vars => [Ledger!Next]_LedgerView
  BY LedgerStep
<1>3. QED
  BY <1>1, <1>2, Invariance, PTL DEF Spec, ImplementsLedger, Ledger!Spec

(* What follows from the ledger alone. *)
LEMMA LedgerTypeStep == Ledger!TypeOK /\ [Ledger!Next]_LedgerView => Ledger!TypeOK'
<1> SUFFICES ASSUME Ledger!TypeOK, [Ledger!Next]_LedgerView PROVE Ledger!TypeOK'
  OBVIOUS
<1>1. ASSUME NEW u \in Uuid, NEW d \in DocId, Ledger!Publish(u, d) PROVE Ledger!TypeOK'
  BY <1>1 DEF Ledger!Publish, Ledger!TypeOK, Ledger!Entry
<1>2. ASSUME NEW u \in Uuid, NEW k \in {0, 1}, Ledger!Revise(u, k) PROVE Ledger!TypeOK'
  <2>1. [LedgerView[u] EXCEPT !.version = @ + k] \in Ledger!Entry
    BY <1>2 DEF Ledger!Revise, Ledger!IsActive, Ledger!TypeOK, Ledger!Entry
  <2>2. QED
    BY <1>2, <2>1 DEF Ledger!Revise, Ledger!IsActive, Ledger!TypeOK
<1>3. ASSUME NEW u \in Uuid, Ledger!Retire(u) PROVE Ledger!TypeOK'
  <2>1. [LedgerView[u] EXCEPT !.status = "deleted"] \in Ledger!Entry
    BY <1>3 DEF Ledger!Retire, Ledger!IsActive, Ledger!TypeOK, Ledger!Entry
  <2>2. QED
    BY <1>3, <2>1 DEF Ledger!Retire, Ledger!IsActive, Ledger!TypeOK
<1>4. QED
  BY <1>1, <1>2, <1>3 DEF Ledger!Next, Ledger!TypeOK

LEMMA NeverReversedStep ==
  ASSUME Ledger!TypeOK, [Ledger!Next]_LedgerView
  PROVE  Ledger!NeverReversed
<1> DEFINE ledger == LedgerView
<1>1. \A v \in DOMAIN ledger : ledger[v] \in Ledger!Entry /\ ledger[v].version \in Nat
  BY DEF Ledger!TypeOK, Ledger!Entry
<1>2. ASSUME NEW u \in Uuid, NEW d \in DocId, Ledger!Publish(u, d) PROVE Ledger!NeverReversed
  BY <1>1, <1>2 DEF Ledger!Publish, Ledger!NeverReversed
<1>3. ASSUME NEW u \in Uuid, NEW k \in {0, 1}, Ledger!Revise(u, k) PROVE Ledger!NeverReversed
  <2>1. /\ ledger'[u].doc = ledger[u].doc
        /\ ledger'[u].version = ledger[u].version + k
        /\ ledger[u].status = "active"
    BY <1>1, <1>3 DEF Ledger!Revise, Ledger!IsActive, Ledger!Entry
  <2>2. \A v \in DOMAIN ledger : v \in DOMAIN ledger' /\ (v # u => ledger'[v] = ledger[v])
    BY <1>3 DEF Ledger!Revise
  <2>3. QED
    BY <1>1, <2>1, <2>2 DEF Ledger!NeverReversed
<1>4. ASSUME NEW u \in Uuid, Ledger!Retire(u) PROVE Ledger!NeverReversed
  <2>1. /\ ledger'[u].doc = ledger[u].doc
        /\ ledger'[u].version = ledger[u].version
        /\ ledger[u].status = "active"
    BY <1>1, <1>4 DEF Ledger!Retire, Ledger!IsActive, Ledger!Entry
  <2>2. \A v \in DOMAIN ledger : v \in DOMAIN ledger' /\ (v # u => ledger'[v] = ledger[v])
    BY <1>4 DEF Ledger!Retire
  <2>3. QED
    BY <1>1, <2>1, <2>2 DEF Ledger!NeverReversed
<1>5. CASE UNCHANGED ledger
  BY <1>1, <1>5 DEF Ledger!NeverReversed
<1>6. QED
  BY <1>2, <1>3, <1>4, <1>5 DEF Ledger!Next

(* An identity is forever: once published, a UUID keeps its document, its  *)
(* version never goes back, and its deletion is final.                     *)
THEOREM Forever == Ledger!Spec => Ledger!IdentityIsForever
<1>1. Ledger!Init => Ledger!TypeOK
  BY DEF Ledger!Init, Ledger!TypeOK
<1>2. Ledger!TypeOK /\ [Ledger!Next]_LedgerView => [Ledger!NeverReversed]_LedgerView
  BY NeverReversedStep
<1>3. QED
  BY <1>1, <1>2, LedgerTypeStep, PTL DEF Ledger!Spec, Ledger!IdentityIsForever

(* Hence identities are forever in the store, too. *)
THEOREM IdentityForever == Spec => Ledger!IdentityIsForever
BY KeepsTheLedger, Forever, PTL DEF ImplementsLedger

(* What other operations rely on: rows stay, their versions only grow.     *)
LEMMA VersionsGrow ==
  ASSUME IInv, [Next]_vars
  PROVE  \A u \in DOMAIN nodes : u \in DOMAIN nodes' /\ nodes'[u].version >= nodes[u].version
<1> USE DEF IInv
<1>1. \A u \in DOMAIN nodes : nodes[u].version \in Nat
  BY DEF TypeInv, TypeOK, StoreType, Row
<1>2. CASE UpsertNode
  <2>1. ids[at].uuid \in DOMAIN nodes => RowOf(at).version >= nodes[ids[at].uuid].version
    BY <1>1, <1>2, UpsertOver
  <2>2. QED
    BY <1>1, <1>2, <2>1, UpsertEffect
<1>3. CASE RetireNode
  BY <1>1, <1>3, RetireEffect
<1>4. CASE ~UpsertNode /\ ~RetireNode
  BY <1>1, <1>4, NodesGrow
<1>5. QED
  BY <1>2, <1>3, <1>4

LEMMA EdgesStep ==
  ASSUME IInv, EdgesNeverAhead, [Next]_vars
  PROVE  EdgesNeverAhead'
<1>1. \A u \in DOMAIN nodes : u \in DOMAIN nodes' /\ nodes'[u].version >= nodes[u].version
                              /\ nodes[u].version \in Nat /\ nodes'[u].version \in Nat
  <2>1. TypeInv /\ TypeInv'
    BY TypeInvStep DEF IInv
  <2>2. QED
    BY <2>1, VersionsGrow DEF TypeInv, TypeOK, StoreType, Row
<1>2. edges \subseteq Edge /\ \A e \in edges : e.target \in DOMAIN nodes /\ e.seen \in Nat
  BY DEF IInv, EdgesHaveNodes, TypeInv, TypeOK, StoreType, Edge
<1>3. \A e \in edges : e.seen <= nodes'[e.target].version
  BY <1>1, <1>2 DEF EdgesNeverAhead
<1>4. SUFFICES \A e \in edges' : e.seen <= nodes'[e.target].version
  BY DEF EdgesNeverAhead
<1>5. CASE \E u, v \in DOMAIN nodes : Transclude(u, v)
  <2>1. PICK u \in DOMAIN nodes, v \in DOMAIN nodes : Transclude(u, v)
    BY <1>5
  <2>2. edges' = edges \cup {[source |-> u, target |-> v, seen |-> nodes[v].version, status |-> "live"]}
    BY <2>1 DEF Transclude
  <2>3. nodes[v].version <= nodes'[v].version
    BY <1>1
  <2>4. QED
    BY <1>3, <2>2, <2>3
<1>6. CASE \E scope \in {DocId} \cup {{d} : d \in DocId} : Refresh(scope)
  <2>1. PICK marked \in SUBSET edges :
           edges' = (edges \ marked) \cup {[e EXCEPT !.status = "stale"] : e \in marked}
    BY <1>6 DEF Refresh, Outdated
  <2>2. \A e \in edges : /\ [e EXCEPT !.status = "stale"].seen = e.seen
                         /\ [e EXCEPT !.status = "stale"].target = e.target
    BY <1>2 DEF Edge
  <2>3. ASSUME NEW e \in edges' PROVE e.seen <= nodes'[e.target].version
    <3>1. PICK f \in edges : e.seen = f.seen /\ e.target = f.target
      BY <2>1, <2>2
    <3>2. QED
      BY <1>3, <3>1
  <2>4. QED
    BY <2>3
<1>7. CASE edges' = edges
  BY <1>3, <1>7
<1>8. CASE Pipeline \/ Abort \/ UNCHANGED vars
  BY <1>7, <1>8 DEF Pipeline, AssignUuid, MatchExact, MatchFuzzy, MatchNone, RetireNode, RetireDone,
     OrphanAnnotations, OrphanDone, WriteContent, UpsertDocument, UpsertNode, LogActivity,
     Abort, vars, database
<1>9. CASE Begins
  BY <1>7, <1>9, BeginsEffect DEF IInv
<1>10. CASE \E u \in DOMAIN nodes : Annotate(u)
  BY <1>7, <1>10 DEF Annotate
<1>11. QED
  BY <1>5, <1>6, <1>8, <1>9, <1>10 DEF Next, Begins, IngestFile, IngestText

(* No edge outruns its target: a growing version is always noticed.        *)
THEOREM EdgesBehind == Spec => []EdgesNeverAhead
<1>1. Init => EdgesNeverAhead
  BY DEF Init, EdgesNeverAhead
<1>2. IInv /\ EdgesNeverAhead /\ [Next]_vars => EdgesNeverAhead'
  BY EdgesStep
<1>3. QED
  BY <1>1, <1>2, Invariance, PTL DEF Spec

(* Only the document being ingested is touched. *)
LEMMA OthersStep ==
  ASSUME TypeInv, OwnRows, [Next]_vars,
         stage # "idle", NEW u \in DOMAIN nodes, nodes[u].doc # job.doc
  PROVE  /\ nodes'[u] = nodes[u]
         /\ ActiveOn(u) \in annos => ActiveOn(u) \in annos'
<1>1. u \notin job.existing
  BY DEF OwnRows
<1>2. nodes'[u] = nodes[u]
  <2>1. CASE UpsertNode
    <3>1. ids[at].uuid # u
      BY <2>1, UpsertEffect DEF OwnRows
    <3>2. QED
      BY <2>1, <3>1, UpsertEffect
  <2>2. CASE RetireNode
    <3>1. PICK w \in StillToRetire : \A v \in DOMAIN nodes : v # w => nodes'[v] = nodes[v]
      BY <2>2, RetireEffect
    <3>2. QED
      BY <1>1, <3>1 DEF StillToRetire, Unmatched
  <2>3. QED
    BY <2>1, <2>2, NodesGrow
<1>3. ASSUME ActiveOn(u) \in annos PROVE ActiveOn(u) \in annos'
  <2>1. CASE OrphanAnnotations
    <3>1. PICK w \in StillToOrphan :
             annos' = (annos \ {ActiveOn(w)}) \cup {[target |-> w, status |-> "orphan"]}
      BY <2>1 DEF OrphanAnnotations
    <3>2. w # u
      BY <1>1, <3>1 DEF StillToOrphan, Unmatched
    <3>3. QED
      BY <1>3, <3>1, <3>2 DEF ActiveOn
  <2>2. CASE \/ AssignUuid \/ MatchExact \/ MatchFuzzy \/ MatchNone
             \/ RetireNode \/ RetireDone \/ OrphanDone
             \/ WriteContent \/ UpsertDocument \/ UpsertNode \/ LogActivity
             \/ Abort \/ UNCHANGED vars
    BY <1>3, <2>2 DEF AssignUuid, MatchExact, MatchFuzzy, MatchNone, RetireNode, RetireDone,
       OrphanDone, WriteContent, UpsertDocument, UpsertNode, LogActivity, Abort, vars, database, ActiveOn
  <2>3. stage # "idle"
    OBVIOUS
  <2>4. QED
    BY <2>1, <2>2, <2>3 DEF Next, Pipeline, IngestFile, IngestText, Resume, Create, Annotate,
       Transclude, Refresh
<1>4. QED
  BY <1>2, <1>3

LEMMA DecidedRowsOwned == IInv => OwnRows
<1> SUFFICES ASSUME IInv PROVE OwnRows
  OBVIOUS
<1>1. \A i \in DOMAIN ids : RowOf(i).doc = job.doc
  BY DEF RowOf
<1>2. QED
  BY <1>1 DEF IInv, LoadedRows, Decisions, Decided, OwnRows

(* An ingestion never reaches into another document. *)
THEOREM OthersUntouched == Spec => OtherDocumentsUntouched
<1>1. IInv /\ [Next]_vars =>
        [stage # "idle" =>
           \A u \in DOMAIN nodes :
              nodes[u].doc # job.doc =>
                 /\ nodes'[u] = nodes[u]
                 /\ ActiveOn(u) \in annos => ActiveOn(u) \in annos']_vars
  BY OthersStep, DecidedRowsOwned DEF IInv
<1>2. QED
  BY <1>1, Invariance, PTL DEF Spec, OtherDocumentsUntouched

LEMMA FollowStep ==
  ASSUME IInv, AnnotationsFollow, [Next]_vars
  PROVE  AnnotationsFollow'
<1> USE DEF IInv
<1>1. CASE OrphanDone
  BY <1>1 DEF OrphanDone, StillToOrphan, AnnotationsFollow, Unmatched, Matched, Used, ActiveOn, database
<1>2. CASE Gives
  <2>1. stage' = "content" => job'.existing = {}
    BY <1>2, GivesEffect DEF LoadedRows
  <2>2. stage' \in {"assign", "match", "retire", "content"}
    BY <1>2, GivesEffect
  <2>3. QED
    BY <2>1, <2>2 DEF AnnotationsFollow, Unmatched
<1>3. CASE WriteContent \/ UpsertDocument \/ UpsertNode
  <2>1. /\ stage \in {"content", "document", "rows"} /\ UNCHANGED <<annos, job, ids>>
    BY <1>3 DEF WriteContent, UpsertDocument, UpsertNode, database
  <2>2. QED
    BY <2>1 DEF AnnotationsFollow, Unmatched, Matched, Used, ActiveOn
<1>4. CASE RetireNode \/ RetireDone \/ OrphanAnnotations
  <2>1. stage' \in {"retire", "orphan"}
    BY <1>4 DEF RetireNode, RetireDone, OrphanAnnotations, memory
  <2>2. QED
    BY <2>1 DEF AnnotationsFollow
<1>5. CASE Begins \/ Ends
  BY <1>5, BeginsEffect, EndsEffect DEF AnnotationsFollow
<1>6. CASE \/ \E u \in DOMAIN nodes : Annotate(u)
           \/ \E u, v \in DOMAIN nodes : Transclude(u, v)
           \/ \E scope \in {DocId} \cup {{d} : d \in DocId} : Refresh(scope)
  <2>1. stage' = "idle"
    BY <1>6 DEF Annotate, Transclude, Refresh, memory
  <2>2. QED
    BY <2>1 DEF AnnotationsFollow
<1>7. CASE UNCHANGED vars
  BY <1>7 DEF vars, database, memory, AnnotationsFollow, Unmatched, Matched, Used, ActiveOn
<1>8. QED
  BY <1>1, <1>2, <1>3, <1>4, <1>5, <1>6, <1>7
  DEF Next, Pipeline, Gives, Begins, Ends, IngestFile, IngestText

(* Once the pipeline writes, no annotation claims a node it deleted.       *)
THEOREM AnnotationsOrphaned == Spec => []AnnotationsFollow
<1>1. Init => AnnotationsFollow
  BY DEF Init, AnnotationsFollow
<1>2. QED
  BY <1>1, FollowStep, Invariance, PTL DEF Spec

(* Orphans are made of rows the diff has deleted; a row that is written is *)
(* new or has been active since the diff took it.                          *)
LEMMA OrphansStep ==
  ASSUME IInv, OrphansStayDeleted, [Next]_vars
  PROVE  OrphansStayDeleted'
<1> USE DEF IInv
<1>1. CASE OrphanAnnotations
  <2>1. PICK u \in StillToOrphan :
          annos' = (annos \ {ActiveOn(u)}) \cup {[target |-> u, status |-> "orphan"]}
    BY <1>1 DEF OrphanAnnotations
  <2>2. u \in DOMAIN nodes /\ nodes[u].status \in {"active", "deleted"}
    BY DEF StillToOrphan, Unmatched, TypeInv, RowsLoaded, TypeOK, StoreType, Row
  <2>3. nodes[u].status = "deleted"
    BY <1>1, <2>2 DEF OrphanAnnotations, DiffCovers, StillToOrphan, IsActive
  <2>4. nodes' = nodes
    BY <1>1 DEF OrphanAnnotations
  <2>5. QED
    BY <2>1, <2>2, <2>3, <2>4 DEF OrphansStayDeleted
<1>2. CASE annos' = annos /\ RetireNode
  <2>1. PICK u \in StillToRetire :
          /\ DOMAIN nodes' = DOMAIN nodes /\ nodes[u] \in Row
          /\ nodes'[u] = [nodes[u] EXCEPT !.status = "deleted"]
          /\ \A v \in DOMAIN nodes : v # u => nodes'[v] = nodes[v]
    BY <1>2, RetireEffect DEF StillToRetire, Unmatched, TypeInv, RowsLoaded, TypeOK, StoreType
  <2>2. nodes'[u].status = "deleted"
    BY <2>1 DEF Row
  <2>3. QED
    BY <1>2, <2>1, <2>2 DEF OrphansStayDeleted
<1>3. CASE annos' = annos /\ UpsertNode
  <2>1. /\ DOMAIN nodes' = DOMAIN nodes \cup {ids[at].uuid}
        /\ \A v \in DOMAIN nodes : v # ids[at].uuid => nodes'[v] = nodes[v]
    BY <1>3, UpsertEffect
  <2>2. ids[at].uuid \notin DOMAIN nodes \/ IsActive(ids[at].uuid)
    BY <1>3, UpsertOver
  <2>3. QED
    BY <1>3, <2>1, <2>2 DEF OrphansStayDeleted, IsActive
<1>4. CASE \E u \in DOMAIN nodes : Annotate(u)
  BY <1>4 DEF Annotate, ActiveOn, OrphansStayDeleted
<1>5. CASE annos' = annos /\ nodes' = nodes
  BY <1>5 DEF OrphansStayDeleted
<1>6. CASE Pipeline \/ Abort \/ UNCHANGED vars
  BY <1>1, <1>2, <1>3, <1>5, <1>6 DEF Pipeline, AssignUuid, MatchExact, MatchFuzzy, MatchNone, RetireNode,
     RetireDone, OrphanDone, WriteContent, UpsertDocument, UpsertNode, LogActivity, Abort, vars, database
<1>7. CASE \/ \E u, v \in DOMAIN nodes : Transclude(u, v)
           \/ \E scope \in {DocId} \cup {{d} : d \in DocId} : Refresh(scope)
  BY <1>5, <1>7 DEF Transclude, Refresh
<1>8. CASE \/ \E s \in Sources : \E p \in Paths : IngestFile(p, s)
           \/ \E s \in Sources : \E p \in Paths \cup {NoPath} : IngestText(p, s)
  BY <1>5, <1>8 DEF IngestFile, IngestText, Resume, Create, database
<1>9. QED
  BY <1>4, <1>6, <1>7, <1>8 DEF Next

(* An orphan's node is deleted and stays so, whatever is ingested, cut     *)
(* short or annotated later.                                               *)
THEOREM OrphansForGood == Spec => []OrphansStayDeleted
<1>1. Init => OrphansStayDeleted
  BY DEF Init, OrphansStayDeleted
<1>2. QED
  BY <1>1, OrphansStep, Invariance, PTL DEF Spec

(* An upsert that keeps the version keeps the text, the root's excepted.   *)
LEMMA VersionTracksStep ==
  ASSUME IInv, [Next]_vars
  PROVE  VersionTracks
<1> USE DEF IInv
<1> SUFFICES ASSUME NEW u \in DOMAIN nodes, nodes'[u].text # nodes[u].text,
                    nodes'[u].type # "document"
             PROVE  nodes'[u].version > nodes[u].version
  BY DEF VersionTracks
<1>1. CASE UpsertNode
  <2>1. u = ids[at].uuid /\ nodes'[u] = RowOf(at)
    BY <1>1, UpsertEffect
  <2>2. at # 1
    <3>1. job.src \in Sources
      BY <1>1, UpsertEffect, JobSource
    <3>2. RowOf(1).type = "document"
      BY <3>1, SourceAssumption DEF RowOf
    <3>3. QED
      BY <2>1, <3>2
  <2>3. RowOf(at).text = job.src.nodes[at].text
    BY <2>2 DEF RowOf
  <2>4. QED
    BY <1>1, <2>1, <2>3, UpsertOver
<1>2. CASE RetireNode
  <2>1. \A v \in DOMAIN nodes : nodes'[v].text = nodes[v].text
    <3>1. PICK w \in StillToRetire : /\ nodes'[w] = [nodes[w] EXCEPT !.status = "deleted"]
                                     /\ \A v \in DOMAIN nodes : v # w => nodes'[v] = nodes[v]
      BY <1>2, RetireEffect
    <3>2. w \in DOMAIN nodes /\ nodes[w] \in Row
      BY DEF StillToRetire, Unmatched, TypeInv, RowsLoaded, TypeOK, StoreType
    <3>3. nodes'[w].text = nodes[w].text
      BY <3>1, <3>2 DEF Row
    <3>4. QED
      BY <3>1, <3>3
  <2>2. QED
    BY <2>1
<1>3. CASE ~UpsertNode /\ ~RetireNode
  BY <1>3, NodesGrow
<1>4. QED
  BY <1>1, <1>2, <1>3

(* Stale edges are found by version alone, and it is enough, except for    *)
(* an edge to a document's root.                                           *)
THEOREM TextNeedsVersion == Spec => VersionTracksText
<1>1. IInv /\ [Next]_vars => [VersionTracks]_nodes
  BY VersionTracksStep
<1>2. QED
  BY <1>1, Invariance, PTL DEF Spec, VersionTracksText

-----------------------------------------------------------------------------
(* The diff keeps identities: what is true of the nodes walked so far.     *)

Competes(j, u) == \/ job.src.nodes[j].text = nodes[u].text
                  \/ ~(RatioTo(j, u) > Threshold)
KeptSoFar ==
  stage \in {"match", "retire"} =>
     \A u \in job.existing :
        /\ (\A j \in DOMAIN ids : ~Competes(j, u)) => u \notin Matched
        /\ \A i \in DOMAIN ids :
             Unambiguous(i, u) => ids[i] = [uuid |-> u, version |-> nodes[u].version]

LEMMA RatioNumbers ==
  ASSUME TypeInv, stage # "idle", NEW j \in 1 .. Len(job.src.nodes), NEW u \in job.existing
  PROVE  RatioTo(j, u) \in Nat
<1>1. job.src.nodes[j].text \in Text
  BY JobSource DEF Node
<1>2. nodes[u].text \in Text
  BY DEF TypeInv, RowsLoaded, TypeOK, StoreType, Row
<1>3. QED
  BY <1>1, <1>2, ValuesAssumption DEF RatioTo

(* What the walk does with one node. *)
LEMMA MatchEffect ==
  ASSUME IInv, MatchExact \/ MatchFuzzy \/ MatchNone
  PROVE  /\ stage = "match" /\ at = Len(ids) + 1 /\ UNCHANGED <<nodes, job>>
         /\ DOMAIN ids = 1 .. Len(ids) /\ DOMAIN ids' = 1 .. at
         /\ \A i \in DOMAIN ids : ids'[i] = ids[i]
         /\ \/ \E u \in SameHash(at) : ids'[at] = [uuid |-> u, version |-> nodes[u].version]
            \/ SameHash(at) = {} /\ \E u \in Similar(at) : ids'[at].uuid = u
            \/ SameHash(at) = {} /\ ids'[at].uuid = next
<1>1. TypeInv /\ LoadedRows /\ Gives
  BY DEF IInv, Gives
<1>2. stage = "match" /\ UNCHANGED <<nodes, job>>
  BY DEF MatchExact, MatchFuzzy, MatchNone, database
<1>3. /\ DOMAIN ids = 1 .. Len(ids) /\ DOMAIN ids' = 1 .. Len(ids) + 1
      /\ \A i \in DOMAIN ids : ids'[i] = ids[i]
  BY <1>1, GaveOne
<1>4. at = Len(ids) + 1 /\ Len(ids) \in Nat /\ ids \in Seq(Given)
  BY <1>1, <1>2 DEF TypeInv, TypeOK, MemoryType, Walking
<1>5. ASSUME NEW u \in Uuid, NEW v \in Nat, Give(u, v) PROVE ids'[at] = [uuid |-> u, version |-> v]
  BY <1>1, <1>4, <1>5, GiveType
<1>6. \A u \in SameHash(at) \cup Similar(at) : u \in Uuid /\ nodes[u].version \in Nat
  BY <1>1 DEF SameHash, Similar, Unmatched, TypeInv, RowsLoaded, TypeOK, StoreType, Row
<1>7. CASE MatchExact
  <2>1. PICK u \in SameHash(at) : Give(u, nodes[u].version)
    BY <1>7 DEF MatchExact, KeptVersion
  <2>2. ids'[at] = [uuid |-> u, version |-> nodes[u].version]
    BY <1>5, <1>6, <2>1
  <2>3. QED
    BY <1>2, <1>3, <1>4, <2>2
<1>8. CASE MatchFuzzy
  <2>1. PICK u \in Similar(at) : Give(u, nodes[u].version + 1)
    BY <1>8 DEF MatchFuzzy, FuzzyVersion
  <2>2. nodes[u].version + 1 \in Nat
    BY <1>6
  <2>3. ids'[at] = [uuid |-> u, version |-> nodes[u].version + 1]
    BY <1>5, <1>6, <2>1, <2>2
  <2>4. SameHash(at) = {}
    BY <1>8 DEF MatchFuzzy
  <2>5. QED
    BY <1>2, <1>3, <1>4, <2>3, <2>4
<1>9. CASE MatchNone
  <2>1. next \in Uuid /\ Give(next, 1) /\ SameHash(at) = {}
    BY <1>9 DEF MatchNone, GiveFresh
  <2>2. ids'[at] = [uuid |-> next, version |-> 1]
    BY <1>5, <2>1
  <2>3. QED
    BY <1>2, <1>3, <1>4, <2>1, <2>2
<1>10. QED
  BY <1>7, <1>8, <1>9

LEMMA KeptSoFarStep ==
  ASSUME IInv, KeptSoFar, [Next]_vars
  PROVE  KeptSoFar'
<1> USE DEF IInv
<1>1. CASE MatchExact \/ MatchFuzzy \/ MatchNone
  <2>1. /\ stage = "match" /\ at = Len(ids) + 1 /\ UNCHANGED <<nodes, job>> /\ Len(ids) \in Nat
        /\ DOMAIN ids = 1 .. Len(ids) /\ DOMAIN ids' = 1 .. at
        /\ \A i \in DOMAIN ids : ids'[i] = ids[i]
    BY <1>1, MatchEffect DEF TypeInv, TypeOK, MemoryType
  <2>2. Matched = {ids[i].uuid : i \in DOMAIN ids}
    BY MatchedIds
  <2>3. Matched' = Matched \cup {ids'[at].uuid}
    <3>1. Len(ids') = at
      BY <1>1, <2>1, GaveOne DEF Gives
    <3>2. Matched' = {ids'[i].uuid : i \in 1 .. at}
      BY <3>1 DEF Matched, Used
    <3>3. 1 .. at = DOMAIN ids \cup {at}
      BY <2>1
    <3>4. QED
      BY <2>1, <2>2, <3>2, <3>3
  <2>4. \A j, u : Competes(j, u)' <=> Competes(j, u)
    BY <2>1 DEF Competes, RatioTo
  <2>5. \A i, u : Unambiguous(i, u)' <=> Unambiguous(i, u)
    BY <2>1 DEF Unambiguous
  <2>6. ASSUME NEW u \in job.existing
        PROVE  (\A j \in DOMAIN ids' : ~Competes(j, u)) => u \notin Matched'
    <3> SUFFICES ASSUME \A j \in 1 .. at : ~Competes(j, u) PROVE u \notin Matched'
      BY <2>1
    <3>1. u \notin Matched
      BY <2>1 DEF KeptSoFar
    <3>2. ~Competes(at, u)
      BY <2>1
    <3>3. u # ids'[at].uuid
      <4>1. CASE \E w \in SameHash(at) : ids'[at] = [uuid |-> w, version |-> nodes[w].version]
        BY <3>2, <4>1 DEF SameHash, Competes
      <4>2. CASE \E w \in Similar(at) : ids'[at].uuid = w
        <5>1. u \notin Similar(at)
          <6>1. RatioTo(at, u) \in Nat
            BY <2>1, JobSource, RatioNumbers
          <6>2. QED
            BY <3>2, <6>1, ValuesAssumption DEF Similar, Competes
        <5>2. QED
          BY <4>2, <5>1
      <4>3. CASE ids'[at].uuid = next
        BY <4>3 DEF FreshUuids, TypeInv, RowsLoaded, TypeOK, CounterType
      <4>4. QED
        BY <1>1, <4>1, <4>2, <4>3, MatchEffect
    <3>4. QED
      BY <2>3, <3>1, <3>3
  <2>7. ASSUME NEW u \in job.existing, NEW i \in DOMAIN ids', Unambiguous(i, u)
        PROVE  ids'[i] = [uuid |-> u, version |-> nodes[u].version]
    <3>1. CASE i \in DOMAIN ids
      BY <2>1, <2>7, <3>1 DEF KeptSoFar
    <3>2. CASE i = at
      <4>1. \A j \in DOMAIN ids : ~Competes(j, u)
        BY <2>1, <2>7, <3>2 DEF Unambiguous, Competes, RatioTo
      <4>2. u \in SameHash(at)
        BY <2>1, <2>7, <3>2, <4>1 DEF KeptSoFar, SameHash, Unmatched, Unambiguous
      <4>3. \A w \in SameHash(at) : w = u
        BY <2>7, <3>2 DEF SameHash, Unmatched, Unambiguous
      <4>4. QED
        BY <1>1, <3>2, <4>2, <4>3, MatchEffect
    <3>3. QED
      BY <2>1, <2>7, <3>1, <3>2
  <2>8. QED
    BY <2>1, <2>4, <2>5, <2>6, <2>7 DEF KeptSoFar
<1>2. CASE RetireNode
  <2>1. /\ stage = "retire" /\ stage' = "retire" /\ UNCHANGED <<job, ids>>
    BY <1>2, RetireEffect DEF memory
  <2>2. \A v \in job.existing : nodes'[v].text = nodes[v].text /\ nodes'[v].version = nodes[v].version
    <3>1. PICK w \in StillToRetire : /\ nodes'[w] = [nodes[w] EXCEPT !.status = "deleted"]
                                     /\ \A v \in DOMAIN nodes : v # w => nodes'[v] = nodes[v]
      BY <1>2, RetireEffect
    <3>2. w \in DOMAIN nodes /\ nodes[w] \in Row
      BY DEF StillToRetire, Unmatched, TypeInv, RowsLoaded, TypeOK, StoreType
    <3>3. nodes'[w].text = nodes[w].text /\ nodes'[w].version = nodes[w].version
      BY <3>1, <3>2 DEF Row
    <3>4. QED
      BY <3>1, <3>3 DEF TypeInv, RowsLoaded
  <2>3. Matched' = Matched
    BY <2>1 DEF Matched, Used
  <2>4. \A u \in job.existing : \A j : Competes(j, u)' <=> Competes(j, u)
    BY <2>1, <2>2 DEF Competes, RatioTo
  <2>5. \A u \in job.existing : \A i : Unambiguous(i, u)' <=> Unambiguous(i, u)
    BY <2>1, <2>2 DEF Unambiguous
  <2>6. QED
    BY <2>1, <2>2, <2>3, <2>4, <2>5 DEF KeptSoFar
<1>3. CASE Begins
  BY <1>3, BeginsEffect DEF KeptSoFar, Matched, Used
<1>4. CASE Ends \/ AssignUuid \/ UpsertNode
  <2>1. stage' \notin {"match", "retire"}
    BY <1>4, EndsEffect, GivesEffect, UpsertEffect DEF Gives, AssignUuid
  <2>2. QED
    BY <2>1 DEF KeptSoFar
<1>5. CASE Carries
  <2>1. UNCHANGED <<nodes, job, ids>> /\ (stage' \in {"match", "retire"} => stage' = stage)
    BY <1>5, CarriesEffect
  <2>2. Matched' = Matched /\ (\A j, u : Competes(j, u)' <=> Competes(j, u))
                           /\ (\A i, u : Unambiguous(i, u)' <=> Unambiguous(i, u))
    BY <2>1 DEF Matched, Used, Competes, RatioTo, Unambiguous
  <2>3. QED
    BY <2>1, <2>2 DEF KeptSoFar
<1>6. QED
  BY <1>1, <1>2, <1>3, <1>4, <1>5, StepKinds DEF Gives, Carries

(* A node found again unambiguously keeps its UUID, wherever it moved.     *)
THEOREM IdentitySurvives == Spec => []IdentityKept
<1>1. Init => KeptSoFar
  BY DEF Init, KeptSoFar
<1>2. IInv /\ KeptSoFar /\ [Next]_vars => KeptSoFar'
  BY KeptSoFarStep
<1>3. IInv /\ KeptSoFar => IdentityKept
  BY AllGiven, JobSource DEF IInv, KeptSoFar, IdentityKept
<1>4. QED
  BY <1>1, <1>2, <1>3, Invariance, PTL DEF Spec
-----------------------------------------------------------------------------
(* Ingestions whose second lookup may fail, on a machine that may lose its *)
(* power.  First the pipeline alone: LiveInv is PowerInv without the       *)
(* surviving commit.                                                       *)

LiveInv == /\ TypeInv /\ FreshUuids /\ RowsHaveDocument
           /\ OwnRows /\ WrittenRows /\ DiffComplete /\ FilesFirst
           /\ ActiveBlocksReadable /\ ForeignKeysHold /\ AncestorsEnd

Blind == \E s \in Sources : \E p \in Paths : ResumeBlind(p, s)

LEMMA BlindEffect ==
  ASSUME TypeInv, Blind
  PROVE  /\ stage = "idle" /\ stage' = "assign" /\ ids = <<>> /\ ids' = <<>> /\ at' = 1
         /\ UNCHANGED <<database, content, next>>
         /\ job'.existing = {} /\ ~job'.diff
BY DEF Blind, ResumeBlind, TypeInv, Walking

LEMMA TypeInvBlind == TypeInv /\ Blind => TypeInv'
<1> SUFFICES ASSUME TypeInv, Blind PROVE TypeInv'
  OBVIOUS
<1>1. PICK s \in Sources, p \in Paths : ResumeBlind(p, s)
  BY DEF Blind
<1>2. PICK d \in DocsByPath(p) :
         job' = [path |-> p, src |-> s, doc |-> d, merge |-> TRUE, diff |-> FALSE,
                 existing |-> {}]
  BY <1>1 DEF ResumeBlind, FirstByPath
<1>3. d \in DocId /\ d \in Nat /\ d <= Len(docs) /\ d <= ingests
  BY <1>2, BoundsAssumption DEF DocsByPath, TypeInv, TypeOK, StoreType, CounterType, Numbering, DocId
<1>4. job' \in Job
  BY <1>2, <1>3 DEF Job
<1>5. TypeOK'
  <2>1. StoreType' /\ MemoryType'
    BY <1>1, <1>4 DEF TypeInv, TypeOK, StoreType, MemoryType, ResumeBlind, Stage, database
  <2>2. CounterType'
    BY <1>1, BoundsAssumption DEF TypeInv, TypeOK, CounterType, ResumeBlind
  <2>3. QED
    BY <2>1, <2>2 DEF TypeOK
<1>6. Walking'
  BY <1>1, <1>2, <1>4, SourceNodes DEF TypeInv, Walking, ResumeBlind
<1>7. Numbering'
  BY <1>1, <1>2, <1>3, BoundsAssumption
  DEF TypeInv, TypeOK, StoreType, CounterType, Numbering, ResumeBlind, database
<1>8. RowsLoaded'
  BY <1>2 DEF RowsLoaded
<1>9. QED
  BY <1>5, <1>6, <1>7, <1>8 DEF TypeInv

(* Every part of LiveInv that speaks of the walk speaks of the UUIDs given *)
(* or of the rows loaded; a blind start has neither.                       *)
LEMMA LiveBlind ==
  ASSUME LiveInv, Blind
  PROVE  LiveInv'
<1> USE DEF LiveInv
<1>1. TypeInv'
  BY TypeInvBlind
<1>2. /\ stage' = "assign" /\ ids' = <<>>
      /\ UNCHANGED <<database, content, next>>
      /\ job'.existing = {} /\ ~job'.diff
  BY BlindEffect
<1>3. /\ FreshUuids' /\ RowsHaveDocument' /\ ActiveBlocksReadable'
      /\ ForeignKeysHold' /\ AncestorsEnd'
  BY <1>2 DEF FreshUuids, RowsHaveDocument, ActiveBlocksReadable, ForeignKeysHold,
     AncestorsEnd, database
<1>4. OwnRows' /\ WrittenRows' /\ DiffComplete' /\ FilesFirst'
  BY <1>2 DEF OwnRows, WrittenRows, DiffComplete, FilesFirst
<1>5. QED
  BY <1>1, <1>3, <1>4

LEMMA OwnRowsStep ==
  ASSUME TypeInv, FreshUuids, OwnRows, [Next]_vars
  PROVE  OwnRows'
<1>1. CASE Gives
  <2>1. UNCHANGED <<nodes, job>>
    BY <1>1, GivesEffect DEF database
  <2>2. SUFFICES ASSUME NEW i \in DOMAIN ids', ids'[i].uuid \in DOMAIN nodes
                 PROVE  nodes[ids'[i].uuid].doc = job.doc
    BY <2>1 DEF OwnRows
  <2>3. CASE i \in DOMAIN ids
    BY <1>1, <2>2, <2>3, GivesSome DEF OwnRows
  <2>4. CASE i = Len(ids) + 1
    <3>1. next \notin DOMAIN nodes
      BY DEF FreshUuids, TypeInv, TypeOK, CounterType
    <3>2. QED
      BY <1>1, <2>2, <2>4, <3>1, GivesSome DEF OwnRows
  <2>5. QED
    BY <1>1, <2>3, <2>4, GivesSome
<1>2. CASE UpsertNode
  <2>1. RowOf(at).doc = job.doc
    BY DEF RowOf
  <2>2. QED
    BY <1>2, <2>1, UpsertEffect DEF OwnRows, TypeInv, RowsLoaded
<1>3. CASE RetireNode
  BY <1>3, RetireEffect DEF OwnRows, memory, TypeInv, RowsLoaded
<1>4. CASE Begins
  <2>1. nodes' = nodes /\ ids' = <<>> /\ (job'.existing = NodesByDoc(job'.doc) \/ job'.existing = {})
    BY <1>4, BeginsEffect
  <2>2. QED
    BY <2>1 DEF OwnRows, NodesByDoc
<1>5. CASE Ends
  BY <1>5 DEF Ends, LogActivity, Abort, Forget, NoJob, OwnRows
<1>6. CASE Carries
  BY <1>6, CarriesEffect DEF OwnRows
<1>7. QED
  BY <1>1, <1>2, <1>3, <1>4, <1>5, <1>6, StepKinds DEF Carries

(* What the table says of the rows written so far. *)
LEMMA UpsertWritten ==
  ASSUME TypeInv, FreshUuids, WrittenRows, UpsertNode
  PROVE  \A i \in DOMAIN ids : i <= at =>
           /\ ids[i].uuid \in DOMAIN nodes'
           /\ nodes'[ids[i].uuid] = RowOf(i)
<1>1. \A i \in DOMAIN ids : i # at => ids[i].uuid # ids[at].uuid
  BY UpsertEffect DEF FreshUuids
<1>2. DOMAIN ids = 1 .. Len(ids) /\ Len(ids) \in Nat /\ at \in Nat
  BY DEF TypeInv, TypeOK, MemoryType
<1> SUFFICES ASSUME NEW i \in DOMAIN ids, i <= at
             PROVE  ids[i].uuid \in DOMAIN nodes' /\ nodes'[ids[i].uuid] = RowOf(i)
  OBVIOUS
<1>3. CASE i = at
  BY <1>3, UpsertEffect
<1>4. CASE i < at
  <2>1. RowWritten(i)
    BY <1>4, UpsertEffect DEF RowWritten
  <2>2. ids[i].uuid \in DOMAIN nodes /\ nodes[ids[i].uuid] = RowOf(i)
    BY <2>1 DEF WrittenRows
  <2>3. ids[i].uuid # ids[at].uuid
    BY <1>1, <1>2, <1>4
  <2>4. QED
    BY <2>2, <2>3, UpsertEffect
<1>5. QED
  BY <1>2, <1>3, <1>4

LEMMA WrittenRowsStep ==
  ASSUME TypeInv, FreshUuids, WrittenRows, [Next]_vars
  PROVE  WrittenRows'
<1>1. CASE Gives \/ RetireNode
  <2>1. stage' \notin {"rows", "activity"}
    BY <1>1, GivesEffect, RetireEffect DEF memory
  <2>2. QED
    BY <2>1 DEF WrittenRows, RowWritten
<1>2. CASE UpsertNode
  <2>1. DOMAIN ids = 1 .. Len(ids) /\ Len(ids) \in Nat /\ at \in Nat
    BY DEF TypeInv, TypeOK, MemoryType
  <2>2. /\ job' = job /\ ids' = ids
        /\ \/ at = Len(ids) /\ at' = 1 /\ stage' = "activity"
           \/ at < Len(ids) /\ at' = at + 1 /\ stage' = "rows"
    BY <1>2, UpsertEffect
  <2>3. \A i \in DOMAIN ids : RowOf(i)' = RowOf(i)
    BY <2>2 DEF RowOf
  <2>4. \A i \in DOMAIN ids : RowWritten(i)' => i <= at
    <3>1. \A i \in DOMAIN ids : i <= Len(ids) /\ (i < at + 1 => i <= at)
      BY <2>1
    <3>2. QED
      BY <2>2, <3>1 DEF RowWritten
  <2>5. \A i \in DOMAIN ids' : RowWritten(i)' =>
           ids'[i].uuid \in DOMAIN nodes' /\ nodes'[ids'[i].uuid] = RowOf(i)'
    BY <1>2, <2>2, <2>3, <2>4, UpsertWritten
  <2>6. QED
    BY <2>5 DEF WrittenRows
<1>3. CASE Begins \/ Ends
  BY <1>3, BeginsEffect, EndsEffect DEF WrittenRows
<1>4. CASE Carries
  <2>1. UNCHANGED <<nodes, job, ids>>
    BY <1>4, CarriesEffect
  <2>2. \A i \in DOMAIN ids : RowWritten(i)' <=> RowWritten(i)
    BY <1>4, CarriesEffect DEF RowWritten, TypeInv, TypeOK, MemoryType
  <2>3. \A i \in DOMAIN ids : RowOf(i)' = RowOf(i)
    BY <2>1 DEF RowOf
  <2>4. QED
    BY <2>1, <2>2, <2>3 DEF WrittenRows
<1>5. QED
  BY <1>1, <1>2, <1>3, <1>4, StepKinds DEF Carries

(* Only a document whose rows were loaded is compared with them. *)
LEMMA DiffCompleteStep ==
  ASSUME TypeInv, DiffComplete, [Next]_vars
  PROVE  DiffComplete'
<1>1. CASE Begins
  <2>1. /\ nodes' = nodes /\ stage' \in {"match", "assign"}
        /\ \/ stage' = "match" /\ job'.existing = NodesByDoc(job'.doc)
           \/ stage' = "assign"
    BY <1>1, BeginsEffect
  <2>2. stage' = "assign" => ~job'.diff
    BY <1>1 DEF Begins, Resume, Create
  <2>3. NodesByDoc(job.doc)' = NodesByDoc(job'.doc)
    BY <2>1 DEF NodesByDoc
  <2>4. QED
    BY <2>1, <2>2, <2>3 DEF DiffComplete
<1>2. CASE Gives
  <2>1. /\ stage \in {"assign", "match"} /\ UNCHANGED <<nodes, job>>
        /\ stage' \in {"assign", "match", "retire", "content"}
        /\ stage' \in {"assign", "content"} => stage = "assign"
    BY <1>2, GivesEffect DEF database
  <2>2. \A i \in DOMAIN ids : i \in DOMAIN ids' /\ ids'[i] = ids[i]
    BY <1>2, GivesSome
  <2>3. Matched \subseteq Matched'
    <3>1. Matched' = {ids'[i].uuid : i \in DOMAIN ids'}
      BY <1>2, GivesSome DEF Matched, Used
    <3>2. QED
      BY <2>2, <3>1, MatchedIds
  <2>4. NodesByDoc(job.doc)' = NodesByDoc(job.doc)
    BY <2>1 DEF NodesByDoc
  <2>5. QED
    BY <2>1, <2>3, <2>4 DEF DiffComplete
<1>3. CASE RetireNode
  <2>1. /\ stage = "retire" /\ UNCHANGED <<stage, job, ids>>
        /\ DOMAIN nodes' = DOMAIN nodes
        /\ \A v \in DOMAIN nodes : nodes'[v].status = "active" => nodes'[v] = nodes[v]
    BY <1>3, RetireEffect DEF memory
  <2>2. NodesByDoc(job.doc)' \subseteq NodesByDoc(job.doc)
    BY <2>1 DEF NodesByDoc
  <2>3. Matched' = Matched
    BY <2>1 DEF Matched, Used
  <2>4. QED
    BY <2>1, <2>2, <2>3 DEF DiffComplete
<1>4. CASE UpsertNode
  <2>1. /\ stage = "rows" /\ stage' \in {"rows", "activity"} /\ UNCHANGED <<job, ids>>
        /\ at \in DOMAIN ids
        /\ DOMAIN nodes' = DOMAIN nodes \cup {ids[at].uuid}
        /\ \A v \in DOMAIN nodes : v # ids[at].uuid => nodes'[v] = nodes[v]
    BY <1>4, UpsertEffect
  <2>2. Matched' = Matched /\ Unmatched' = Unmatched
    BY <2>1 DEF Matched, Used, Unmatched
  <2>3. ids[at].uuid \in Matched /\ ids[at].uuid \notin Unmatched
    BY <2>1, MatchedIds DEF Unmatched
  <2>4. NodesByDoc(job.doc)' \subseteq NodesByDoc(job.doc) \cup {ids[at].uuid}
    BY <2>1 DEF NodesByDoc
  <2>5. job.diff => \A u \in Unmatched : ~IsActive(u)'
    BY <2>1, <2>3 DEF DiffComplete, IsActive
  <2>6. QED
    BY <2>1, <2>2, <2>3, <2>4, <2>5 DEF DiffComplete
<1>5. CASE Ends
  BY <1>5, EndsEffect DEF DiffComplete
<1>6. CASE Carries
  <2>1. UNCHANGED <<nodes, job, ids>>
    BY <1>6, CarriesEffect
  <2>2. /\ Matched' = Matched /\ Unmatched' = Unmatched
        /\ NodesByDoc(job.doc)' = NodesByDoc(job.doc)
        /\ \A u : IsActive(u)' = IsActive(u)
    BY <2>1 DEF Matched, Used, Unmatched, NodesByDoc, IsActive
  <2>3. CASE stage = "retire" /\ stage' = "orphan" /\ StillToRetire = {}
    <3>1. \A u \in Unmatched : ~IsActive(u)
      BY <2>3 DEF StillToRetire, IsActive
    <3>2. QED
      BY <2>1, <2>2, <2>3, <3>1 DEF DiffComplete
  <2>4. CASE ~(stage = "retire" /\ stage' = "orphan")
    <3>1. /\ stage' # "idle" => stage # "idle"
          /\ stage' = "assign" => stage = "assign"
          /\ stage' \in {"orphan", "content", "document", "rows", "activity"} =>
               stage \in {"orphan", "content", "document", "rows", "activity"}
      BY <1>6, <2>4, CarriesEffect
    <3>2. QED
      BY <2>1, <2>2, <3>1 DEF DiffComplete
  <2>5. QED
    BY <1>6, <2>3, <2>4, CarriesEffect
<1>7. QED
  BY <1>1, <1>2, <1>3, <1>4, <1>5, <1>6, StepKinds DEF Carries

(* A nonempty set of numbers has a least one. *)
LEMMA LeastNumber ==
  ASSUME NEW A \in SUBSET Nat, A # {}
  PROVE  \E m \in A : \A k \in A : ~(k < m)
<1> DEFINE less == {ss \in Nat \X Nat : ss[1] < ss[2]}
<1>1. IsWellFoundedOn(less, Nat)
  BY NatLessThanWellFounded DEF OpToRel
<1> HIDE DEF less
<1>2. PICK m \in A : \A k \in A : ~ (<<k, m>> \in less)
  BY <1>1, WFMin
<1>3. ASSUME NEW k \in A PROVE ~(k < m)
  <2>1. /\ <<k, m>> \in Nat \X Nat /\ <<k, m>>[1] = k /\ <<k, m>>[2] = m
        /\ ~ (<<k, m>> \in less)
    BY <1>2
  <2>2. QED
    BY <2>1 DEF less
<1>4. QED
  BY <1>3

(* No set of rows at all is closed under parents. *)
LEMMA NoCycleOfRows ==
  ASSUME NEW rows, NoUuid \notin DOMAIN rows
  PROVE  NoCycle(rows) <=>
           \A S \in SUBSET DOMAIN rows : S # {} => \E u \in S : rows[u].parent \notin S
<1>1. ASSUME NEW S \in SUBSET DOMAIN rows, \A u \in S : rows[u].parent \in S
      PROVE  S \subseteq Grandchildren(rows)
  BY <1>1 DEF Grandchildren, HasParent
<1>2. Grandchildren(rows) \subseteq DOMAIN rows
  BY DEF Grandchildren
<1>3. QED
  BY <1>1, <1>2 DEF NoCycle

(* Of the written nodes in a set of rows, the first in preorder has its    *)
(* parent outside: the parent comes earlier, and has been written as well. *)
LEMMA AncestorsEndStep ==
  ASSUME TypeInv, FreshUuids, WrittenRows, AncestorsEnd, [Next]_vars
  PROVE  AncestorsEnd'
<1>1. CASE UpsertNode
  <2>1. /\ stage = "rows" /\ at \in DOMAIN ids /\ job.src \in Sources
        /\ DOMAIN ids = 1 .. Len(job.src.nodes) /\ Len(job.src.nodes) \in Nat
        /\ DOMAIN nodes \subseteq Uuid
        /\ \A i \in DOMAIN ids : ids[i].uuid \in Uuid
    BY <1>1, UpsertEffect, JobSource, AllGiven DEF TypeInv, TypeOK, StoreType
  <2>0. NoUuid \notin DOMAIN nodes /\ NoUuid \notin DOMAIN nodes'
    <3>1. DOMAIN nodes' \subseteq Uuid
      BY <1>1, <2>1, UpsertEffect
    <3>2. QED
      BY <2>1, <3>1, BoundsAssumption DEF Uuid, NoUuid
  <2>2. SUFFICES ASSUME NEW S \in SUBSET DOMAIN nodes', S # {},
                        \A u \in S : nodes'[u].parent \in S
                 PROVE  FALSE
    <3>1. \A S \in SUBSET DOMAIN nodes' : S # {} => \E u \in S : nodes'[u].parent \notin S
      BY <2>2
    <3>2. NoCycle(nodes')
      BY <2>0, <3>1, NoCycleOfRows
    <3>3. QED
      BY <3>2 DEF AncestorsEnd, NoCycle, Grandchildren, HasParent
  <2>3. NoUuid \notin S
    BY <2>0, <2>2
  <2>4. CASE ids[at].uuid \notin S
    <3>1. S \subseteq DOMAIN nodes /\ \A u \in S : nodes'[u] = nodes[u]
      BY <1>1, <2>2, <2>4, UpsertEffect
    <3>2. NoCycle(nodes)
      BY DEF AncestorsEnd
    <3>3. QED
      BY <2>0, <2>2, <3>1, <3>2, NoCycleOfRows
  <2>5. CASE ids[at].uuid \in S
    <3> DEFINE K == {i \in DOMAIN ids : i <= at /\ ids[i].uuid \in S}
    <3>1. K \in SUBSET Nat /\ at \in K
      BY <2>1, <2>5
    <3>2. PICK k \in K : \A i \in K : ~(i < k)
      BY <3>1, LeastNumber
    <3>3. nodes'[ids[k].uuid] = RowOf(k)
      BY <1>1, <3>2, UpsertWritten
    <3>4. RowOf(k).parent \in S
      BY <2>2, <3>2, <3>3
    <3>5. k # 1 /\ ~job.diff /\ RowOf(k).parent = ids[job.src.nodes[k].par].uuid
      BY <2>3, <3>4 DEF RowOf
    <3>6. job.src.nodes[k].par \in 1 .. k - 1
      BY <2>1, <3>2, <3>5, SourceNodes
    <3>7. job.src.nodes[k].par \in K /\ job.src.nodes[k].par < k
      BY <2>1, <3>2, <3>4, <3>5, <3>6
    <3>8. QED
      BY <3>2, <3>7
  <2>6. QED
    BY <2>4, <2>5
<1>2. CASE RetireNode
  BY <1>2, RetireEffect DEF AncestorsEnd, NoCycle, Grandchildren, HasParent
<1>3. CASE ~UpsertNode /\ ~RetireNode
  BY <1>3, NodesGrow DEF AncestorsEnd
<1>4. QED
  BY <1>1, <1>2, <1>3

LEMMA LiveStep ==
  ASSUME LiveInv, [LossyNext]_vars
  PROVE  LiveInv'
<1>1. CASE [Next]_vars
  <2> USE DEF LiveInv
  <2>1. TypeInv' /\ FreshUuids' /\ RowsHaveDocument' /\ OwnRows' /\ WrittenRows'
    BY <1>1, TypeInvStep, FreshUuidsStep, RowsHaveDocumentStep, OwnRowsStep, WrittenRowsStep
  <2>2. DiffComplete' /\ FilesFirst' /\ ActiveBlocksReadable'
    BY <1>1, DiffCompleteStep, FilesFirstStep, ReadableStep
  <2>3. ForeignKeysHold' /\ AncestorsEnd'
    BY <1>1, ForeignKeysStep, AncestorsEndStep
  <2>4. QED
    BY <2>1, <2>2, <2>3
<1>2. CASE Blind
  BY <1>2, LiveBlind
<1>3. QED
  BY <1>1, <1>2 DEF LossyNext, Blind

-----------------------------------------------------------------------------
(* Then the power. *)

(* What a store is opened from is what LiveInv says of the tables. *)
LEMMA SurvivableNow ==
  ASSUME TypeInv, FreshUuids
  PROVE  Survivable(Snapshot) <=> /\ RowsHaveDocument /\ ActiveBlocksReadable
                                  /\ ForeignKeysHold /\ AncestorsEnd
<1>1. /\ docs \in Seq(DocRow) /\ Len(docs) <= ingests
      /\ DOMAIN nodes \subseteq Uuid /\ nodes \in [DOMAIN nodes -> Row]
      /\ annos \subseteq Annotation /\ edges \subseteq Edge
      /\ activities \in Seq(Activity)
      /\ DOMAIN content \subseteq Uuid /\ content \in [DOMAIN content -> Body]
      /\ \A u \in DOMAIN nodes : u < next
  BY DEF TypeInv, TypeOK, StoreType, Numbering, FreshUuids
<1>2. /\ Snapshot.docs = docs /\ Snapshot.nodes = nodes /\ Snapshot.annos = annos
      /\ Snapshot.edges = edges /\ Snapshot.activities = activities
      /\ Snapshot.content = content
  BY DEF Snapshot
<1>3. QED
  BY <1>1, <1>2 DEF Survivable, RowsHaveDocument, ActiveBlocksReadable, ForeignKeysHold, AncestorsEnd

LEMMA PowerIsLive == PowerInv => LiveInv
BY SurvivableNow DEF PowerInv, LiveInv

(* What could be opened once still can be: UUIDs and documents only grow   *)
(* in number.                                                              *)
LEMMA SurvivableLater ==
  ASSUME TypeInv, Survivable(durable), durable' = durable, ingests' \in Nat, next' \in Nat,
         ingests <= ingests', next <= next'
  PROVE  Survivable(durable)'
<1>1. next \in Nat /\ ingests \in Nat
  BY BoundsAssumption DEF TypeInv, TypeOK, CounterType
<1>2. Len(durable.docs) \in Nat /\ Len(durable.docs) <= ingests
  BY DEF Survivable
<1>3. Len(durable.docs) <= ingests'
  BY <1>1, <1>2
<1>4. ASSUME NEW u \in DOMAIN durable.nodes PROVE u < next'
  <2>1. u \in Nat /\ u < next
    BY BoundsAssumption DEF Survivable, Uuid
  <2>2. QED
    BY <1>1, <2>1
<1>5. QED
  BY <1>3, <1>4 DEF Survivable

LEMMA CountersGrow ==
  ASSUME TypeInv, [LossyNext]_vars
  PROVE  ingests <= ingests' /\ next <= next'
<1>1. ingests \in Nat /\ next \in Nat
  BY BoundsAssumption DEF TypeInv, TypeOK, CounterType
<1>2. CASE Blind
  BY <1>1, <1>2 DEF Blind, ResumeBlind
<1>3. CASE Begins
  BY <1>1, <1>3 DEF Begins, Resume, Create
<1>4. CASE Gives
  BY <1>1, <1>4 DEF Gives, AssignUuid, MatchExact, MatchFuzzy, MatchNone, GiveFresh
<1>5. CASE \/ Pipeline \/ Abort \/ UNCHANGED vars
           \/ \E u \in DOMAIN nodes : Annotate(u)
           \/ \E u, v \in DOMAIN nodes : Transclude(u, v)
           \/ \E scope \in {DocId} \cup {{d} : d \in DocId} : Refresh(scope)
  BY <1>1, <1>4, <1>5 DEF Pipeline, Gives, RetireNode, RetireDone, OrphanAnnotations, OrphanDone,
     WriteContent, UpsertDocument, UpsertNode, LogActivity, Abort, Annotate, Transclude,
     Refresh, vars
<1>6. QED
  BY <1>2, <1>3, <1>5 DEF LossyNext, Next, Blind, Begins, IngestFile, IngestText

LEMMA RunningStep ==
  ASSUME PowerInv, Running(LossyNext)
  PROVE  PowerInv'
<1>1. LiveInv /\ LiveInv'
  BY PowerIsLive, LiveStep DEF Running
<1>2. /\ TypeInv' /\ FreshUuids' /\ OwnRows' /\ WrittenRows' /\ DiffComplete' /\ FilesFirst'
      /\ Survivable(Snapshot)'
  <2>1. TypeInv' /\ FreshUuids' => (Survivable(Snapshot)' <=>
           /\ RowsHaveDocument' /\ ActiveBlocksReadable' /\ ForeignKeysHold' /\ AncestorsEnd')
    BY SurvivableNow, PTL
  <2>2. QED
    BY <1>1, <2>1 DEF LiveInv
<1>3. /\ powered /\ powered' = powered /\ losses' = losses
      /\ durable' = NotSynced \/ durable' = durable
  BY DEF Running
<1>4. durable' # NotSynced => Survivable(durable)'
  <2>1. ingests' \in Nat /\ next' \in Nat
    BY <1>1, BoundsAssumption DEF LiveInv, TypeInv, TypeOK, CounterType
  <2>2. ingests <= ingests' /\ next <= next'
    BY <1>1, CountersGrow DEF LiveInv, Running
  <2>3. durable # NotSynced => Survivable(durable) 
    BY DEF PowerInv
  <2>4. ASSUME durable' # NotSynced PROVE Survivable(durable)'
    <3>1. durable' = durable /\ Survivable(durable)
      BY <1>3, <2>3, <2>4
    <3>2. QED
      BY <1>1, <2>1, <2>2, <3>1, SurvivableLater DEF LiveInv
  <2>5. QED
    BY <2>4
<1>5. QED
  BY <1>2, <1>3, <1>4 DEF PowerInv

LEMMA SyncStep ==
  ASSUME PowerInv, Sync
  PROVE  PowerInv'
<1>1. UNCHANGED <<vars, powered, losses>> /\ durable' = Snapshot /\ losses < MaxLosses
  BY DEF Sync
<1>2. /\ TypeInv' /\ FreshUuids' /\ OwnRows' /\ WrittenRows' /\ DiffComplete' /\ FilesFirst'
      /\ Survivable(Snapshot)'
  BY <1>1
  DEF PowerInv, vars, database, memory, TypeInv, TypeOK, StoreType, MemoryType, CounterType,
      Walking, Numbering, RowsLoaded, FreshUuids, OwnRows, WrittenRows, RowWritten, RowOf,
      DiffComplete, NodesByDoc, Matched, Used, Unmatched, IsActive, FilesFirst, FileWritten,
      HasContent, Survivable, Snapshot
<1>3. durable' = Snapshot'
  BY <1>1 DEF Snapshot, vars, database
<1>4. QED
  BY <1>1, <1>2, <1>3 DEF PowerInv, Sync, Survivable

LEMMA LoseStep ==
  ASSUME PowerInv, Lose
  PROVE  PowerInv'
<1>1. /\ stage' = "idle" /\ job' = NoJob /\ ids' = <<>> /\ at' = 1
      /\ UNCHANGED <<database, content, next, ingests, aborts, durable>>
      /\ powered /\ durable # NotSynced /\ powered' = FALSE /\ losses' = losses + 1
  BY DEF Lose, Forget
<1>2. TypeInv'
  <2>1. ids' \in Seq(Given)
    BY <1>1
  <2>2. TypeOK'
    BY <1>1, <2>1 DEF PowerInv, TypeInv, TypeOK, StoreType, MemoryType, CounterType, Stage, database
  <2>3. Walking' /\ Numbering' /\ RowsLoaded'
    BY <1>1 DEF PowerInv, TypeInv, Walking, Numbering, RowsLoaded, NoJob, database
  <2>4. QED
    BY <2>2, <2>3 DEF TypeInv
<1>3. /\ FreshUuids' /\ OwnRows' /\ WrittenRows' /\ DiffComplete' /\ FilesFirst'
  BY <1>1 DEF PowerInv, FreshUuids, OwnRows, WrittenRows, DiffComplete, FilesFirst, NoJob, database
<1>4. Survivable(Snapshot)' /\ Survivable(durable)'
  <2>1. Snapshot' = Snapshot
    BY <1>1 DEF Snapshot, database
  <2>2. QED
    BY <1>1, <2>1 DEF PowerInv, Survivable
<1>5. losses' \in 0 .. MaxLosses
  BY <1>1, LossesAssumption DEF PowerInv
<1>6. QED
  BY <1>1, <1>2, <1>3, <1>4, <1>5 DEF PowerInv

(* The store is opened on the rows of a commit and on files at least as    *)
(* many: it has what a pipeline may start from.                            *)
LEMMA ReopenStep ==
  ASSUME PowerInv, Reopen
  PROVE  PowerInv'
<1>1. /\ stage = "idle" /\ job = NoJob /\ ids = <<>> /\ at = 1 /\ Survivable(durable)
      /\ UNCHANGED <<stage, job, ids, at, next, ingests, aborts, losses>>
      /\ durable' = NotSynced /\ powered' = TRUE
  BY DEF PowerInv, Reopen, memory, TypeInv, Walking
<1>2. /\ docs' = durable.docs /\ nodes' = durable.nodes /\ annos' = durable.annos
      /\ edges' = durable.edges /\ activities' = durable.activities
  BY DEF Reopen
<1>3. PICK kept \in SUBSET DOMAIN content :
         content' = [u \in kept \cup DOMAIN durable.content |->
                       IF u \in kept THEN content[u] ELSE durable.content[u]]
  BY DEF Reopen
<1>4. /\ DOMAIN durable.content \subseteq DOMAIN content'
      /\ DOMAIN content' \subseteq Uuid /\ content' \in [DOMAIN content' -> Body]
  <2>1. DOMAIN content \subseteq Uuid /\ content \in [DOMAIN content -> Body]
    BY DEF PowerInv, TypeInv, TypeOK, StoreType
  <2>2. DOMAIN durable.content \subseteq Uuid /\ durable.content \in [DOMAIN durable.content -> Body]
    BY <1>1 DEF Survivable
  <2>3. QED
    BY <1>3, <2>1, <2>2
<1>5. TypeInv'
  <2>1. StoreType'
    BY <1>1, <1>2, <1>4 DEF StoreType, Survivable
  <2>2. MemoryType' /\ CounterType'
    BY <1>1 DEF PowerInv, TypeInv, TypeOK, MemoryType, CounterType
  <2>3. Walking' /\ Numbering' /\ RowsLoaded'
    BY <1>1, <1>2 DEF Walking, Numbering, RowsLoaded, NoJob, Survivable
  <2>4. QED
    BY <2>1, <2>2, <2>3 DEF TypeInv, TypeOK
<1>6. FreshUuids' /\ RowsHaveDocument' /\ ForeignKeysHold' /\ AncestorsEnd'
  BY <1>1, <1>2 DEF Survivable, FreshUuids, RowsHaveDocument, ForeignKeysHold, AncestorsEnd
<1>7. ActiveBlocksReadable'
  BY <1>1, <1>2, <1>4 DEF Survivable, ActiveBlocksReadable
<1>8. Survivable(Snapshot)'
  BY <1>5, <1>6, <1>7, SurvivableNow, PTL
<1>9. OwnRows' /\ WrittenRows' /\ DiffComplete' /\ FilesFirst'
  BY <1>1 DEF OwnRows, WrittenRows, DiffComplete, FilesFirst, NoJob
<1>10. QED
  BY <1>1, <1>5, <1>6, <1>8, <1>9 DEF PowerInv

LEMMA PowerStep == PowerInv /\ [PowerNext]_powerVars => PowerInv'
<1> SUFFICES ASSUME PowerInv, [PowerNext]_powerVars PROVE PowerInv'
  OBVIOUS
<1>1. CASE UNCHANGED powerVars
  BY <1>1
  DEF powerVars, power,
      PowerInv, vars, database, memory, TypeInv, TypeOK, StoreType, MemoryType, CounterType,
      Walking, Numbering, RowsLoaded, FreshUuids, OwnRows, WrittenRows, RowWritten, RowOf,
      DiffComplete, NodesByDoc, Matched, Used, Unmatched, IsActive, FilesFirst, FileWritten,
      HasContent, Survivable, Snapshot
<1>2. QED
  BY <1>1, RunningStep, SyncStep, LoseStep, ReopenStep DEF PowerNext

LEMMA PowerInitInv == PowerInit => PowerInv
<1> SUFFICES ASSUME PowerInit PROVE PowerInv
  OBVIOUS
<1>1. TypeInv
  BY InitTypeInv DEF PowerInit
<1>2. stage = "idle" /\ ids = <<>> /\ DOMAIN nodes = {} /\ job.existing = {}
  BY DEF PowerInit, Init, NoJob
<1>3. /\ FreshUuids /\ OwnRows /\ WrittenRows /\ DiffComplete /\ FilesFirst
      /\ RowsHaveDocument /\ ActiveBlocksReadable /\ ForeignKeysHold /\ AncestorsEnd
  BY <1>2 DEF FreshUuids, OwnRows, WrittenRows, DiffComplete, FilesFirst, RowsHaveDocument,
     ActiveBlocksReadable, ForeignKeysHold, AncestorsEnd, NoCycle, Grandchildren
<1>4. QED
  BY <1>1, <1>3, SurvivableNow, LossesAssumption DEF PowerInit, PowerInv

(* Whatever the power takes, what is left is a store to go on with.        *)
THEOREM PowerInvariance == PowerSpec => []PowerInv
BY PowerInitInv, PowerStep, PTL DEF PowerSpec

(* No statement misses a document or a parent, whatever lookups and        *)
(* commits are lost.                                                       *)
THEOREM PowerForeignKeys == PowerSpec => []ForeignKeysHold
<1>1. PowerInv => ForeignKeysHold
  BY PowerIsLive DEF LiveInv
<1>2. QED
  BY <1>1, PowerInvariance, PTL

(* An active block has its file, though renames may be lost one by one.    *)
THEOREM PowerBlocksReadable == PowerSpec => []ActiveBlocksReadable
<1>1. PowerInv => ActiveBlocksReadable
  BY PowerIsLive DEF LiveInv
<1>2. QED
  BY <1>1, PowerInvariance, PTL

(* Going up from a row, one comes to a root, in a mix of trees as well.    *)
THEOREM AncestorsAlwaysEnd == PowerSpec => []AncestorsEnd
<1>1. PowerInv => AncestorsEnd
  BY PowerIsLive DEF LiveInv
<1>2. QED
  BY <1>1, PowerInvariance, PTL

LEMMA RepairedAtTheEnd == PowerInv => RepairedExact
<1> SUFFICES ASSUME PowerInv, stage = "activity" PROVE
       /\ job.diff => NodesByDoc(job.doc) = Matched
       /\ \A i \in DOMAIN job.src.nodes :
            LET n == job.src.nodes[i]
                u == ids[i].uuid
            IN /\ u \in NodesByDoc(job.doc)
               /\ nodes[u].type = n.type /\ nodes[u].pos = i
               /\ nodes[u].text = IF i = 1 THEN job.src.full ELSE n.text
               /\ n.body # NoBody => u \in DOMAIN content /\ content[u] = n.body
  BY DEF RepairedExact
<1>1. TypeInv
  BY DEF PowerInv
<1>2. \A i \in DOMAIN ids : ids[i].uuid \in DOMAIN nodes /\ nodes[ids[i].uuid] = RowOf(i)
  BY DEF PowerInv, WrittenRows, RowWritten
<1>3. \A i \in DOMAIN ids : ids[i].uuid \in NodesByDoc(job.doc)
  <2>1. \A i \in DOMAIN ids : RowOf(i).doc = job.doc /\ RowOf(i).status = "active"
    BY DEF RowOf
  <2>2. QED
    BY <1>2, <2>1 DEF NodesByDoc
<1>4. job.diff => NodesByDoc(job.doc) = Matched
  <2>1. Matched \subseteq NodesByDoc(job.doc)
    BY <1>1, <1>3, MatchedIds
  <2>2. \A u \in NodesByDoc(job.doc) : IsActive(u)
    BY DEF NodesByDoc, IsActive
  <2>3. job.diff => NodesByDoc(job.doc) \subseteq Matched
    BY <2>2 DEF PowerInv, DiffComplete, Unmatched
  <2>4. QED
    BY <2>1, <2>3
<1>5. ASSUME NEW i \in DOMAIN job.src.nodes
      PROVE  LET n == job.src.nodes[i]
                 u == ids[i].uuid
             IN /\ u \in NodesByDoc(job.doc)
                /\ nodes[u].type = n.type /\ nodes[u].pos = i
                /\ nodes[u].text = IF i = 1 THEN job.src.full ELSE n.text
                /\ n.body # NoBody => u \in DOMAIN content /\ content[u] = n.body
  <2>1. i \in DOMAIN ids
    BY <1>1, <1>5, JobSource, AllGiven
  <2>2. nodes[ids[i].uuid] = RowOf(i) /\ ids[i].uuid \in NodesByDoc(job.doc)
    BY <1>2, <1>3, <2>1
  <2>3. HasContent(i) => /\ ids[i].uuid \in DOMAIN content
                         /\ content[ids[i].uuid] = job.src.nodes[i].body
    BY <2>1 DEF PowerInv, FilesFirst, FileWritten
  <2>4. /\ RowOf(i).type = job.src.nodes[i].type /\ RowOf(i).pos = i
        /\ RowOf(i).text = IF i = 1 THEN job.src.full ELSE job.src.nodes[i].text
    BY DEF RowOf
  <2>5. QED
    BY <2>2, <2>3, <2>4 DEF HasContent
<1>6. QED
  BY <1>4, <1>5

(* A completed ingestion has repaired what lost lookups, errors and power  *)
(* losses left of the document.                                            *)
THEOREM RepairsExactly == PowerSpec => []RepairedExact
BY RepairedAtTheEnd, PowerInvariance, PTL

(* Not even a blind ingestion reaches into another document: the rows it   *)
(* takes over were found by the document's number.                         *)
THEOREM PowerOthersUntouched == PowerSpec => OtherDocumentsUntouched
<1>1. PowerInv /\ [PowerNext]_powerVars =>
        [stage # "idle" =>
           \A u \in DOMAIN nodes :
              nodes[u].doc # job.doc =>
                 /\ nodes'[u] = nodes[u]
                 /\ ActiveOn(u) \in annos => ActiveOn(u) \in annos']_vars
  <2> SUFFICES ASSUME PowerInv, [PowerNext]_powerVars, stage # "idle",
                      NEW u \in DOMAIN nodes, nodes[u].doc # job.doc
               PROVE  /\ nodes'[u] = nodes[u]
                      /\ ActiveOn(u) \in annos => ActiveOn(u) \in annos'
    OBVIOUS
  <2>1. TypeInv /\ OwnRows
    BY DEF PowerInv
  <2>2. CASE Running(LossyNext)
    <3>1. Next
      BY <2>1, <2>2, BlindEffect DEF Running, LossyNext, Blind
    <3>2. QED
      BY <2>1, <3>1, OthersStep
  <2>3. CASE Sync \/ Lose \/ UNCHANGED powerVars
    BY <2>3 DEF Sync, Lose, powerVars, vars, database
  <2>4. CASE Reopen
    BY <2>4 DEF Reopen, PowerInv
  <2>5. QED
    BY <2>2, <2>3, <2>4 DEF PowerNext
<1>2. QED
  BY <1>1, PowerInvariance, PTL DEF PowerSpec, OtherDocumentsUntouched

-----------------------------------------------------------------------------
(* What readers get of the store.                                          *)

(* Rows no two of which share a position.                                  *)
Ordered(rows, S) == /\ S \in SUBSET Nat /\ IsFiniteSet(S)
                    /\ \A u \in S : rows[u].pos \in Nat
                    /\ \A u, v \in S : rows[u].pos = rows[v].pos => u = v
Earlier(rows, S, u) == {v \in S : Before(rows, v, u)}
Rank(rows, S, u) == Cardinality(Earlier(rows, S, u))

(* They have as many ranks as there are rows, in the order of positions.   *)
LEMMA Ranks ==
  ASSUME NEW rows, NEW S, Ordered(rows, S)
  PROVE  /\ Cardinality(S) \in Nat
         /\ \A u \in S : Rank(rows, S, u) \in 0 .. Cardinality(S) - 1
         /\ \A u, v \in S : rows[u].pos < rows[v].pos <=> Rank(rows, S, u) < Rank(rows, S, v)
         /\ \A k \in 0 .. Cardinality(S) - 1 : \E u \in S : Rank(rows, S, u) = k
<1> DEFINE n == Cardinality(S)
<1>1. n \in Nat /\ S \in SUBSET Nat /\ IsFiniteSet(S)
  BY FS_CardinalityType DEF Ordered
<1>2. ASSUME NEW u \in S
      PROVE  /\ IsFiniteSet(Earlier(rows, S, u)) /\ u \notin Earlier(rows, S, u)
             /\ Rank(rows, S, u) \in 0 .. n - 1
  <2>1. u \notin Earlier(rows, S, u)
    BY <1>1 DEF Ordered, Earlier, Before
  <2>2. Earlier(rows, S, u) \in SUBSET (S \ {u})
    BY <2>1 DEF Earlier
  <2>3. IsFiniteSet(S \ {u}) /\ Cardinality(S \ {u}) = n - 1
    BY <1>1, FS_RemoveElement
  <2>4. IsFiniteSet(Earlier(rows, S, u)) /\ Rank(rows, S, u) <= n - 1
    BY <2>2, <2>3, FS_Subset DEF Rank
  <2>5. Rank(rows, S, u) \in Nat
    BY <2>4, FS_CardinalityType DEF Rank
  <2>6. QED
    BY <1>1, <2>1, <2>4, <2>5
<1>3. ASSUME NEW u \in S, NEW v \in S, rows[u].pos < rows[v].pos
      PROVE  Rank(rows, S, u) < Rank(rows, S, v)
  <2>1. Earlier(rows, S, u) \cup {u} \in SUBSET Earlier(rows, S, v)
    <3>1. ASSUME NEW w \in S, Before(rows, w, u) PROVE Before(rows, w, v)
      <4>1. rows[u].pos \in Nat /\ rows[v].pos \in Nat /\ rows[w].pos \in Nat
        BY DEF Ordered
      <4>2. QED
        BY <1>3, <3>1, <4>1 DEF Before
    <3>2. Before(rows, u, v)
      BY <1>3 DEF Before
    <3>3. QED
      BY <3>1, <3>2 DEF Earlier
  <2>2. Cardinality(Earlier(rows, S, u) \cup {u}) = Rank(rows, S, u) + 1
    BY <1>2, FS_AddElement DEF Rank
  <2>3. Cardinality(Earlier(rows, S, u) \cup {u}) <= Rank(rows, S, v)
    BY <1>2, <2>1, FS_Subset DEF Rank
  <2>4. QED
    BY <1>1, <1>2, <2>2, <2>3
<1>4. ASSUME NEW u \in S, NEW v \in S, Rank(rows, S, u) < Rank(rows, S, v)
      PROVE  rows[u].pos < rows[v].pos
  <2>1. rows[u].pos \in Nat /\ rows[v].pos \in Nat
    BY DEF Ordered
  <2>2. CASE rows[u].pos = rows[v].pos
    BY <1>1, <1>2, <1>4, <2>2 DEF Ordered
  <2>3. CASE rows[v].pos < rows[u].pos
    BY <1>1, <1>2, <1>3, <1>4, <2>3
  <2>4. QED
    BY <2>1, <2>2, <2>3
<1>5. \A k \in 0 .. n - 1 : \E u \in S : Rank(rows, S, u) = k
  <2> DEFINE f == [u \in S |-> Rank(rows, S, u)]
  <2>1. f \in [S -> 0 .. n - 1]
    BY <1>2
  <2>2. ASSUME NEW u \in S, NEW v \in S, f[u] = f[v] PROVE u = v
    <3>1. Rank(rows, S, u) = Rank(rows, S, v)
      BY <2>2
    <3>2. ~ (rows[u].pos < rows[v].pos) /\ ~ (rows[v].pos < rows[u].pos)
      BY <1>1, <1>2, <1>3, <3>1
    <3>3. QED
      BY <3>2 DEF Ordered
  <2>3. f \in Injection(S, 0 .. n - 1)
    BY <2>1, <2>2 DEF Injection, IsInjective
  <2>4. IsFiniteSet(0 .. n - 1) /\ Cardinality(0 .. n - 1) = n
    <3>1. 0 \in Int /\ n - 1 \in Int /\ (0 > n - 1 <=> n = 0) /\ n - 1 - 0 + 1 = n
      BY <1>1
    <3> HIDE DEF n
    <3>2. QED
      BY <1>1, <3>1, FS_Interval
  <2> HIDE DEF f
  <2>5. f \in Surjection(S, 0 .. n - 1)
    BY <2>3, <2>4, FS_Injection
  <2>6. \A k \in 0 .. n - 1 : \E u \in S : f[u] = k
    BY <2>5 DEF Surjection
  <2>7. QED
    BY <2>6 DEF f
<1>6. QED
  BY <1>1, <1>2, <1>3, <1>4, <1>5

(* Each is listed once, behind those of less rank.                         *)
LEMMA Listed ==
  ASSUME NEW rows, NEW S, Ordered(rows, S)
  PROVE  /\ Len(ByPosition(rows, S)) = Cardinality(S) /\ Cardinality(S) \in Nat
         /\ \A u \in S : /\ Rank(rows, S, u) + 1 \in 1 .. Cardinality(S)
                         /\ ByPosition(rows, S)[Rank(rows, S, u) + 1] = u
         /\ \A k \in 1 .. Cardinality(S) : /\ ByPosition(rows, S)[k] \in S
                                           /\ Rank(rows, S, ByPosition(rows, S)[k]) = k - 1
<1> DEFINE n == Cardinality(S)
           s == ByPosition(rows, S)
<1>1. n \in Nat
  BY Ranks
<1>2. s = [k \in 1 .. n |-> CHOOSE u \in S : Rank(rows, S, u) = k - 1]
  BY Zenon DEF ByPosition, Rank, Earlier
<1> HIDE DEF s
<1>3. ASSUME NEW k \in 1 .. n PROVE s[k] \in S /\ Rank(rows, S, s[k]) = k - 1
  <2>1. k - 1 \in 0 .. n - 1
    BY <1>1
  <2>2. \E u \in S : Rank(rows, S, u) = k - 1
    BY <2>1, Ranks
  <2>3. s[k] = CHOOSE u \in S : Rank(rows, S, u) = k - 1
    BY <1>2
  <2>4. QED
    BY <2>2, <2>3
<1>4. ASSUME NEW u \in S PROVE Rank(rows, S, u) + 1 \in 1 .. n /\ s[Rank(rows, S, u) + 1] = u
  <2> DEFINE k == Rank(rows, S, u) + 1
  <2>1. k \in 1 .. n /\ k - 1 = Rank(rows, S, u) /\ Rank(rows, S, u) \in Nat
    BY <1>1, Ranks
  <2>2. s[k] \in S /\ Rank(rows, S, s[k]) = Rank(rows, S, u)
    BY <1>3, <2>1
  <2>3. ~ (rows[u].pos < rows[s[k]].pos) /\ ~ (rows[s[k]].pos < rows[u].pos)
    BY <2>1, <2>2, Ranks
  <2>4. rows[u].pos = rows[s[k]].pos
    <3>1. rows[u].pos \in Nat /\ rows[s[k]].pos \in Nat
      BY <2>2 DEF Ordered
    <3>2. QED
      BY <2>3, <3>1
  <2> HIDE DEF k
  <2>5. s[k] = u
    BY <2>2, <2>4 DEF Ordered
  <2>6. QED
    BY <2>1, <2>5 DEF k
<1>5. Len(s) = n
  BY <1>1, <1>2
<1>6. QED
  BY <1>1, <1>3, <1>4, <1>5 DEF s

(* Rows that are stored under other names are listed under those.          *)
StoredAs(own, I, g, rows, S) ==
  /\ Ordered(own, I)
  /\ S = {g[i] : i \in I}
  /\ \A i \in I : g[i] \in Nat /\ rows[g[i]].pos = own[i].pos

LEMMA Renamed ==
  ASSUME NEW own, NEW I, NEW g, NEW rows, NEW S, StoredAs(own, I, g, rows, S)
  PROVE  /\ Ordered(rows, S)
         /\ Cardinality(S) = Cardinality(I)
         /\ \A i \in I : Rank(rows, S, g[i]) = Rank(own, I, i)
         /\ \A k \in 1 .. Cardinality(I) :
              ByPosition(rows, S)[k] = g[ByPosition(own, I)[k]]
<1>0. /\ Ordered(own, I) /\ S = {g[i] : i \in I}
      /\ \A i \in I : g[i] \in Nat /\ rows[g[i]].pos = own[i].pos
  BY DEF StoredAs
<1>1. I \in SUBSET Nat /\ IsFiniteSet(I) /\ \A i \in I : own[i].pos \in Nat
  BY <1>0 DEF Ordered
<1>2. \A i, j \in I : g[i] = g[j] => i = j
  BY <1>0 DEF Ordered
<1>3. ASSUME NEW J \in SUBSET I
      PROVE  IsFiniteSet({g[j] : j \in J}) /\ Cardinality({g[j] : j \in J}) = Cardinality(J)
  <2> DEFINE f == [j \in J |-> g[j]]
             T == {g[j] : j \in J}
  <2>1. IsFiniteSet(J)
    BY <1>1, FS_Subset
  <2>2. f \in [J -> T] /\ \A j, k \in J : f[j] = f[k] => j = k
    BY <1>2
  <2>3. \A t \in T : \E j \in J : f[j] = t
    OBVIOUS
  <2>4. f \in Bijection(J, T)
    BY <2>2, <2>3 DEF Bijection, Injection, Surjection, IsInjective
  <2>5. QED
    BY <2>1, <2>4, FS_Bijection DEF ExistsBijection
<1>4. Ordered(rows, S)
  <2>1. IsFiniteSet(S)
    BY <1>0, <1>3
  <2>2. \A u \in S : u \in Nat /\ rows[u].pos \in Nat
    BY <1>0, <1>1
  <2>3. \A u, v \in S : rows[u].pos = rows[v].pos => u = v
    BY <1>0 DEF Ordered
  <2>4. QED
    BY <2>1, <2>2, <2>3 DEF Ordered
<1>5. ASSUME NEW i \in I PROVE Rank(rows, S, g[i]) = Rank(own, I, i)
  <2>1. \A j \in I : Before(rows, g[j], g[i]) <=> Before(own, j, i)
    <3> TAKE j \in I
    <3>1. rows[g[j]].pos = own[j].pos /\ rows[g[i]].pos = own[i].pos
      BY <1>0
    <3>2. own[j].pos = own[i].pos => ~ (j < i) /\ ~ (g[j] < g[i])
      <4>1. own[j].pos = own[i].pos => j = i
        BY <1>0 DEF Ordered
      <4>2. i \in Nat /\ g[i] \in Nat
        BY <1>0, <1>1
      <4>3. QED
        BY <4>1, <4>2
    <3>3. QED
      BY <3>1, <3>2 DEF Before
  <2>2. Earlier(rows, S, g[i]) = {g[j] : j \in Earlier(own, I, i)}
    BY <1>0, <2>1 DEF Earlier
  <2>3. Earlier(own, I, i) \in SUBSET I
    BY DEF Earlier
  <2>4. QED
    BY <1>3, <2>2, <2>3 DEF Rank
<1>6. Cardinality(S) = Cardinality(I)
  BY <1>0, <1>3
<1>7. ASSUME NEW k \in 1 .. Cardinality(I)
      PROVE  ByPosition(rows, S)[k] = g[ByPosition(own, I)[k]]
  <2> DEFINE i == ByPosition(own, I)[k]
  <2>1. i \in I /\ Rank(own, I, i) = k - 1
    BY <1>0, Listed
  <2> HIDE DEF i
  <2>2. g[i] \in S /\ Rank(rows, S, g[i]) + 1 = k
    <3>1. Rank(rows, S, g[i]) = k - 1 /\ k \in Int
      BY <1>0, <1>5, <2>1
    <3>2. QED
      BY <1>0, <2>1, <3>1
  <2>3. ByPosition(rows, S)[Rank(rows, S, g[i]) + 1] = g[i]
    BY <1>4, <2>2, Listed
  <2>4. QED
    BY <2>2, <2>3 DEF i
<1>8. QED
  BY <1>4, <1>5, <1>6, <1>7

-----------------------------------------------------------------------------
(* The recursion of build_block_list over a tree whose rows stand behind   *)
(* their parents.                                                          *)
ReadAt(rows, files, below, p) ==
  FlattenSeq([k \in 1 .. Len(ChildRows(rows, p)) |->
                BlocksAt(rows, files, below, ChildRows(rows, p)[k])])
Reading(rows, files, f) ==
  /\ f = [p \in DOMAIN rows |-> f[p]]
  /\ \A p \in DOMAIN rows : f[p] = ReadAt(rows, files, f, p)
Downward(rows, n) ==
  /\ Ordered(rows, DOMAIN rows)
  /\ n \in Nat /\ \A u \in DOMAIN rows : rows[u].pos <= n
  /\ \A u \in DOMAIN rows : \A p \in DOMAIN rows :
       rows[u].parent = p => rows[p].pos < rows[u].pos

(* Some of them are such rows, too.                                        *)
LEMMA OrderedPart ==
  ASSUME NEW rows, NEW S, Ordered(rows, S), NEW T \in SUBSET S
  PROVE  Ordered(rows, T)
BY FS_Subset DEF Ordered

(* What is below a row depends on what is below its children.              *)
LEMMA ReadAtSame ==
  ASSUME NEW rows, NEW n, Downward(rows, n), NEW files, NEW f, NEW h, NEW p,
         \A u \in Children(rows, p) : f[u] = h[u]
  PROVE  ReadAt(rows, files, f, p) = ReadAt(rows, files, h, p)
<1>1. Ordered(rows, Children(rows, p))
  BY OrderedPart DEF Downward, Children
<1>2. \A k \in 1 .. Len(ChildRows(rows, p)) : ChildRows(rows, p)[k] \in Children(rows, p)
  BY <1>1, Listed DEF ChildRows
<1>3. \A k \in 1 .. Len(ChildRows(rows, p)) :
        BlocksAt(rows, files, f, ChildRows(rows, p)[k])
          = BlocksAt(rows, files, h, ChildRows(rows, p)[k])
  BY <1>2, Zenon DEF BlocksAt
<1>4. [k \in 1 .. Len(ChildRows(rows, p)) |-> BlocksAt(rows, files, f, ChildRows(rows, p)[k])]
        = [k \in 1 .. Len(ChildRows(rows, p)) |-> BlocksAt(rows, files, h, ChildRows(rows, p)[k])]
  BY <1>3, Zenon
<1>5. QED
  BY <1>4, Zenon DEF ReadAt

(* There is a function that reads every row: it is built from the last     *)
(* position to the first.                                                  *)
LEMMA ReadingExists ==
  ASSUME NEW rows, NEW n, Downward(rows, n), NEW files
  PROVE  \E f : Reading(rows, files, f)
<1> DEFINE ReadsLast(m, f) ==
             /\ f = [p \in DOMAIN rows |-> f[p]]
             /\ \A p \in DOMAIN rows :
                  n < rows[p].pos + m => f[p] = ReadAt(rows, files, f, p)
           Failing == {m \in Nat : ~ \E f : ReadsLast(m, f)}
<1>1. n \in Nat /\ \A p \in DOMAIN rows : rows[p].pos \in Nat /\ rows[p].pos <= n
  BY DEF Downward, Ordered
<1>2. ASSUME Failing # {} PROVE FALSE
  <2>1. PICK m \in Failing : \A k \in Failing : m <= k
    <3>1. Failing \in SUBSET Nat
      OBVIOUS
    <3> HIDE DEF Failing
    <3>2. QED
      BY <1>2, <3>1, LeastNumber
  <2>2. m \in Nat /\ ~ \E f : ReadsLast(m, f)
    BY <2>1
  <2>3. CASE m = 0
    <3> DEFINE f == [p \in DOMAIN rows |-> <<>>]
    <3>1. f = [p \in DOMAIN rows |-> f[p]]
      OBVIOUS
    <3>2. \A p \in DOMAIN rows : ~ (n < rows[p].pos + m)
      BY <1>1, <2>3
    <3> HIDE DEF f
    <3>3. ReadsLast(m, f)
      BY <3>1, <3>2
    <3>4. QED
      BY <2>2, <3>3
  <2>4. CASE m # 0
    <3>1. m - 1 \in Nat /\ ~ (m <= m - 1)
      BY <2>2, <2>4
    <3>2. PICK f : ReadsLast(m - 1, f)
      BY <2>1, <3>1
    <3> DEFINE h == [p \in DOMAIN rows |->
                       IF rows[p].pos + m = n + 1 THEN ReadAt(rows, files, f, p) ELSE f[p]]
    <3>3. h = [p \in DOMAIN rows |-> h[p]]
      OBVIOUS
    <3>4. \A p \in DOMAIN rows :
            /\ rows[p].pos + m = n + 1 => h[p] = ReadAt(rows, files, f, p)
            /\ rows[p].pos + m # n + 1 => h[p] = f[p]
      OBVIOUS
    <3> HIDE DEF h
    <3>5. ASSUME NEW p \in DOMAIN rows, n < rows[p].pos + m
          PROVE  h[p] = ReadAt(rows, files, h, p)
      <4>1. ASSUME NEW u \in Children(rows, p) PROVE f[u] = h[u]
        <5>1. u \in DOMAIN rows /\ rows[p].pos < rows[u].pos
          BY <4>1 DEF Downward, Children
        <5>2. rows[u].pos + m # n + 1
          BY <1>1, <2>2, <3>5, <5>1
        <5>3. QED
          BY <3>4, <5>1, <5>2
      <4>2. ReadAt(rows, files, f, p) = ReadAt(rows, files, h, p)
        BY <4>1, ReadAtSame
      <4>3. CASE rows[p].pos + m = n + 1
        BY <3>4, <4>2, <4>3
      <4>4. CASE rows[p].pos + m # n + 1
        <5>1. n < rows[p].pos + (m - 1)
          BY <1>1, <2>2, <3>5, <4>4
        <5>2. f[p] = ReadAt(rows, files, f, p)
          BY <3>2, <5>1
        <5>3. QED
          BY <3>4, <4>2, <4>4, <5>2
      <4>5. QED
        BY <4>3, <4>4
    <3>6. ReadsLast(m, h)
      BY <3>3, <3>5
    <3>7. QED
      BY <2>2, <3>6
  <2>5. QED
    BY <2>3, <2>4
<1>3. PICK f : ReadsLast(n + 1, f)
  <2>1. n + 1 \in Nat
    BY <1>1
  <2>2. n + 1 \notin Failing
    BY <1>2
  <2>3. QED
    BY <2>1, <2>2
<1>4. \A p \in DOMAIN rows : n < rows[p].pos + (n + 1)
  BY <1>1
<1>5. Reading(rows, files, f)
  BY <1>3, <1>4 DEF Reading
<1>6. QED
  BY <1>5

(* There is only one.                                                      *)
LEMMA ReadingOnce ==
  ASSUME NEW rows, NEW n, Downward(rows, n), NEW files,
         NEW f, Reading(rows, files, f), NEW h, Reading(rows, files, h)
  PROVE  f = h
<1> DEFINE Failing == {k \in Nat : \E p \in DOMAIN rows : rows[p].pos + k = n /\ f[p] # h[p]}
<1>1. n \in Nat /\ \A p \in DOMAIN rows : rows[p].pos \in Nat /\ rows[p].pos <= n
  BY DEF Downward, Ordered
<1>2. ASSUME Failing # {} PROVE FALSE
  <2>1. PICK k \in Failing : \A j \in Failing : k <= j
    <3>1. Failing \in SUBSET Nat
      OBVIOUS
    <3> HIDE DEF Failing
    <3>2. QED
      BY <1>2, <3>1, LeastNumber
  <2>2. PICK p \in DOMAIN rows : rows[p].pos + k = n /\ f[p] # h[p]
    BY <2>1
  <2>3. ASSUME NEW u \in Children(rows, p) PROVE f[u] = h[u]
    <3>1. u \in DOMAIN rows /\ rows[p].pos < rows[u].pos
      BY <2>3 DEF Downward, Children
    <3>2. n - rows[u].pos \in Nat /\ n - rows[u].pos < k /\ rows[u].pos + (n - rows[u].pos) = n
      BY <1>1, <2>1, <2>2, <3>1
    <3>3. n - rows[u].pos \notin Failing
      BY <2>1, <3>2
    <3>4. QED
      BY <3>1, <3>2, <3>3
  <2>4. ReadAt(rows, files, f, p) = ReadAt(rows, files, h, p)
    BY <2>3, ReadAtSame
  <2>5. QED
    BY <2>2, <2>4 DEF Reading
<1>3. ASSUME NEW p \in DOMAIN rows PROVE f[p] = h[p]
  <2>1. n - rows[p].pos \in Nat /\ rows[p].pos + (n - rows[p].pos) = n
    BY <1>1
  <2>2. n - rows[p].pos \notin Failing
    BY <1>2
  <2>3. QED
    BY <2>1, <2>2
<1>4. f = [p \in DOMAIN rows |-> f[p]] /\ h = [p \in DOMAIN rows |-> h[p]]
  BY DEF Reading
<1>5. QED
  BY <1>3, <1>4, Zenon

(* What build_block_list returns for a row is what that function reads.    *)
LEMMA BlockListReads ==
  ASSUME NEW rows, NEW n, Downward(rows, n), NEW files,
         NEW f, Reading(rows, files, f), NEW root
  PROVE  BlockList(rows, files, root) = f[root]
<1> DEFINE g == CHOOSE g : g = [p \in DOMAIN rows |-> ReadAt(rows, files, g, p)]
<1>1. BlockList(rows, files, root) = g[root]
  BY Zenon DEF BlockList, ReadAt
<1>2. f = [p \in DOMAIN rows |-> ReadAt(rows, files, f, p)]
  BY Zenon DEF Reading
<1>3. g = [p \in DOMAIN rows |-> ReadAt(rows, files, g, p)]
  BY <1>2, Zenon
<1> HIDE DEF g
<1>4. Reading(rows, files, g)
  BY <1>3, Zenon DEF Reading
<1>5. QED
  BY <1>1, <1>4, ReadingOnce

-----------------------------------------------------------------------------
(* What a reader loads when an ingestion is complete: the nodes of the     *)
(* source, each under its UUID.                                            *)
Names == [i \in DOMAIN job.src.nodes |-> ids[i].uuid]
Named(I) == {Names[i] : i \in I}

LEMMA LoadedNodes ==
  ASSUME IInv, stage = "activity"
  PROVE  /\ job.src \in Sources /\ job \in Job
         /\ Len(job.src.nodes) \in Nat /\ Len(job.src.nodes) >= 2
         /\ DOMAIN job.src.nodes = 1 .. Len(job.src.nodes)
         /\ DOMAIN ids = 1 .. Len(job.src.nodes)
         /\ \A i \in 1 .. Len(job.src.nodes) :
              /\ Names[i] = ids[i].uuid
              /\ Names[i] \in Nat \ {0}
              /\ Loaded(job.doc)[Names[i]] = RowOf(i)
              /\ RowOf(i).type = job.src.nodes[i].type /\ RowOf(i).pos = i
              /\ RowOf(i).content <=> HasContent(i)
              /\ HasContent(i) => content[Names[i]] = job.src.nodes[i].body
         /\ \A i, j \in 1 .. Len(job.src.nodes) : Names[i] = Names[j] => i = j
         /\ DOMAIN Loaded(job.doc) = Named(1 .. Len(job.src.nodes))
<1> DEFINE n == Len(job.src.nodes)
<1>1. /\ TypeInv /\ Decisions /\ CompletedIngestExact
  BY ExactAtTheEnd DEF IInv
<1>2. /\ job.src \in Sources /\ job \in Job
      /\ n \in Nat /\ n >= 2 /\ DOMAIN job.src.nodes = 1 .. n
  BY <1>1, JobSource
<1>3. DOMAIN ids = 1 .. n /\ \A i \in 1 .. n : ids[i] \in Given
  <2>1. ids \in Seq(Given) /\ Len(ids) = n
    BY <1>1 DEF TypeInv, TypeOK, MemoryType, Walking
  <2>2. QED
    BY <2>1
<1>4. \A i \in 1 .. n : Names[i] = ids[i].uuid
  BY <1>2 DEF Names
<1>5. \A i \in 1 .. n : Names[i] \in Nat \ {0}
  BY <1>3, <1>4, BoundsAssumption DEF Given, Uuid
<1>6. NodesByDoc(job.doc) = Named(1 .. n)
  <2>1. NodesByDoc(job.doc) = Matched
    BY <1>1 DEF CompletedIngestExact
  <2>2. QED
    BY <1>1, <1>3, <1>4, <2>1, MatchedIds DEF Named
<1>7. DOMAIN Loaded(job.doc) = Named(1 .. n)
  BY <1>6 DEF Loaded
<1>8. \A i \in 1 .. n : Loaded(job.doc)[Names[i]] = RowOf(i)
  <2> TAKE i \in 1 .. n
  <2>1. nodes[ids[i].uuid] = RowOf(i)
    BY <1>1, <1>3 DEF Decisions, RowWritten
  <2>2. Names[i] \in NodesByDoc(job.doc)
    BY <1>6 DEF Named
  <2>3. QED
    BY <1>4, <2>1, <2>2 DEF Loaded
<1>9. \A i \in 1 .. n : HasContent(i) => content[Names[i]] = job.src.nodes[i].body
  BY <1>1, <1>2, <1>4 DEF CompletedIngestExact, HasContent
<1>10. \A i, j \in 1 .. n : Names[i] = Names[j] => i = j
  BY <1>1, <1>3, <1>4 DEF CompletedIngestExact
<1>11. \A i \in 1 .. n : /\ RowOf(i).type = job.src.nodes[i].type /\ RowOf(i).pos = i
                         /\ RowOf(i).content <=> HasContent(i)
  BY DEF RowOf, HasContent
<1>12. QED
  BY <1>2, <1>3, <1>4, <1>5, <1>7, <1>8, <1>9, <1>10, <1>11

(* Any of them are read in the order they have in the source.              *)
LEMMA SourceOrdered ==
  ASSUME NEW src \in Sources, NEW I \in SUBSET (1 .. Len(src.nodes))
  PROVE  /\ Ordered(SourceRows(src), I)
         /\ \A i \in I : SourceRows(src)[i].pos = i
<1>1. Len(src.nodes) \in Nat /\ DOMAIN src.nodes = 1 .. Len(src.nodes)
  BY SourceNodes
<1>2. \A i \in I : i \in Nat /\ SourceRows(src)[i].pos = i
  BY <1>1 DEF SourceRows
<1>3. IsFiniteSet(I)
  <2>1. IsFiniteSet(1 .. Len(src.nodes))
    BY <1>1, FS_Interval
  <2>2. QED
    BY <2>1, FS_Subset
<1>4. QED
  BY <1>2, <1>3 DEF Ordered

(* The rows of some nodes are listed as the nodes are, under their UUIDs.  *)
LEMMA ReadInOrder ==
  ASSUME IInv, stage = "activity", NEW I \in SUBSET (1 .. Len(job.src.nodes))
  PROVE  LET rows == Loaded(job.doc)
             own == SourceRows(job.src)
         IN /\ Ordered(own, I) /\ Ordered(rows, Named(I))
            /\ Cardinality(Named(I)) = Cardinality(I)
            /\ \A i \in I : Rank(rows, Named(I), Names[i]) = Rank(own, I, i)
            /\ \A k \in 1 .. Cardinality(I) :
                 ByPosition(rows, Named(I))[k] = Names[ByPosition(own, I)[k]]
            /\ ListsNodes(ByPosition(rows, Named(I)), I)
<1> DEFINE rows == Loaded(job.doc)
           own == SourceRows(job.src)
<1>1. Ordered(own, I) /\ \A i \in I : own[i].pos = i
  BY LoadedNodes, SourceOrdered
<1>2. \A i \in I : Names[i] \in Nat /\ rows[Names[i]].pos = own[i].pos
  <2> TAKE i \in I
  <2>1. Names[i] \in Nat /\ rows[Names[i]] = RowOf(i) /\ RowOf(i).pos = i
    BY LoadedNodes
  <2>2. QED
    BY <1>1, <2>1
<1> HIDE DEF rows, own
<1>3. /\ Ordered(rows, Named(I))
      /\ Cardinality(Named(I)) = Cardinality(I)
      /\ \A i \in I : Rank(rows, Named(I), Names[i]) = Rank(own, I, i)
      /\ \A k \in 1 .. Cardinality(I) :
           ByPosition(rows, Named(I))[k] = Names[ByPosition(own, I)[k]]
  <2>1. StoredAs(own, I, Names, rows, Named(I))
    BY <1>1, <1>2 DEF StoredAs, Named
  <2>2. QED
    BY <2>1, Renamed
<1>4. ListsNodes(ByPosition(rows, Named(I)), I)
  <2>1. Len(ByPosition(rows, Named(I))) = Cardinality(I)
    BY <1>3, Listed
  <2>2. ASSUME NEW i \in I
        PROVE  ByPosition(rows, Named(I))[Cardinality({j \in I : j <= i})] = ids[i].uuid
    <3>1. I \in SUBSET Nat /\ IsFiniteSet(I) /\ Earlier(own, I, i) \in SUBSET I
      BY <1>1 DEF Ordered, Earlier
    <3>2. \A j \in I : Before(own, j, i) <=> j < i
      BY <1>1, <3>1 DEF Before
    <3>3. {j \in I : j <= i} = Earlier(own, I, i) \cup {i} /\ i \notin Earlier(own, I, i)
      <4>1. Earlier(own, I, i) = {j \in I : j < i}
        BY <3>2 DEF Earlier
      <4>2. \A j \in I : j <= i <=> (j < i \/ j = i)
        BY <3>1
      <4>3. ~ (i < i)
        BY <3>1
      <4>4. QED
        BY <4>1, <4>2, <4>3
    <3>4. Cardinality({j \in I : j <= i}) = Rank(own, I, i) + 1
      BY <3>1, <3>3, FS_Subset, FS_AddElement DEF Rank
    <3>5. Names[i] \in Named(I) /\ Names[i] = ids[i].uuid
      BY LoadedNodes DEF Named
    <3>6. ByPosition(rows, Named(I))[Rank(rows, Named(I), Names[i]) + 1] = Names[i]
      BY <1>3, <3>5, Listed
    <3>7. QED
      BY <1>3, <3>4, <3>5, <3>6
  <2>3. QED
    BY <2>1, <2>2 DEF ListsNodes
<1>5. QED
  BY <1>1, <1>3, <1>4 DEF rows, own

-----------------------------------------------------------------------------
(* The queries. *)

(* The table of contents: headings have one type wherever they are kept.   *)
LEMMA TocNow == ASSUME IInv, stage = "activity" PROVE TocExact
<1> DEFINE rows == Loaded(job.doc)
           I == Headings(job.src)
<1>1. I \in SUBSET (1 .. Len(job.src.nodes))
  BY LoadedNodes DEF Headings
<1>2. {u \in DOMAIN rows : rows[u].type = "heading"} = Named(I)
  <2>1. \A i \in 1 .. Len(job.src.nodes) : rows[Names[i]].type = job.src.nodes[i].type
    BY LoadedNodes
  <2>2. DOMAIN rows = Named(1 .. Len(job.src.nodes)) /\ DOMAIN job.src.nodes = 1 .. Len(job.src.nodes)
    BY LoadedNodes
  <2> HIDE DEF rows
  <2>3. QED
    BY <2>1, <2>2 DEF Named, Headings
<1>3. Toc(rows) = ByPosition(rows, Named(I))
  BY <1>2 DEF Toc
<1>4. QED
  BY <1>1, <1>3, ReadInOrder DEF TocExact

(* The nodes of a source below one of them.                                *)
ChildrenIn(src, p) == {j \in 2 .. Len(src.nodes) : src.nodes[j].par = p}

(* A row names its parent by the UUID the parent was given.                *)
LEMMA LoadedChildren ==
  ASSUME IInv, stage = "activity", ~job.diff, NEW p \in 1 .. Len(job.src.nodes)
  PROVE  /\ Children(Loaded(job.doc), Names[p]) = Named(ChildrenIn(job.src, p))
         /\ Children(SourceRows(job.src), p) = ChildrenIn(job.src, p)
         /\ ChildrenIn(job.src, p) \in SUBSET (1 .. Len(job.src.nodes))
<1> DEFINE n == Len(job.src.nodes)
           rows == Loaded(job.doc)
<1>1. /\ n \in Nat /\ n >= 2 /\ DOMAIN job.src.nodes = 1 .. n
      /\ DOMAIN rows = Named(1 .. n)
      /\ \A i \in 1 .. n : Names[i] = ids[i].uuid /\ Names[i] # 0 /\ rows[Names[i]] = RowOf(i)
      /\ \A i, j \in 1 .. n : Names[i] = Names[j] => i = j
  BY LoadedNodes
<1>2. job.src.nodes[1].par = 0 /\ \A i \in 2 .. n : job.src.nodes[i].par \in 1 .. i - 1
  BY LoadedNodes, SourceAssumption
<1> HIDE DEF rows
<1>3. ASSUME NEW j \in 1 .. n
      PROVE  rows[Names[j]].parent = Names[p] <=> j \in ChildrenIn(job.src, p)
  <2>1. CASE j = 1
    <3>1. 1 \in 1 .. n /\ RowOf(1).parent = 0 /\ 1 \notin 2 .. n
      BY <1>1 DEF RowOf, NoUuid
    <3>2. rows[Names[1]].parent = 0 /\ Names[p] # 0
      BY <1>1, <3>1
    <3>3. QED
      BY <2>1, <3>1, <3>2 DEF ChildrenIn
  <2>2. CASE j # 1
    <3>1. j \in 2 .. n /\ job.src.nodes[j].par \in 1 .. n
      BY <1>1, <1>2, <2>2
    <3>2. rows[Names[j]].parent = ids[job.src.nodes[j].par].uuid
      <4>1. RowOf(j).parent = ids[job.src.nodes[j].par].uuid
        BY <2>2 DEF RowOf
      <4>2. QED
        BY <1>1, <4>1
    <3>3. rows[Names[j]].parent = Names[job.src.nodes[j].par]
      BY <1>1, <3>1, <3>2
    <3>4. QED
      BY <1>1, <3>1, <3>3 DEF ChildrenIn
  <2>3. QED
    BY <2>1, <2>2
<1>4. Children(rows, Names[p]) = Named(ChildrenIn(job.src, p))
  <2>1. ChildrenIn(job.src, p) \in SUBSET (1 .. n)
    BY <1>1 DEF ChildrenIn
  <2>2. QED
    BY <1>1, <1>3, <2>1 DEF Children, Named
<1>5. Children(SourceRows(job.src), p) = ChildrenIn(job.src, p)
  <2>1. \A j \in 1 .. n : SourceRows(job.src)[j].parent = job.src.nodes[j].par
    BY <1>1 DEF SourceRows
  <2>2. DOMAIN SourceRows(job.src) = 1 .. n
    BY <1>1 DEF SourceRows
  <2>3. \A j \in 1 .. n : job.src.nodes[j].par = p => j \in 2 .. n
    BY <1>1, <1>2
  <2>4. \A j \in 2 .. n : j \in 1 .. n
    BY <1>1
  <2>5. QED
    BY <2>1, <2>2, <2>3, <2>4 DEF Children, ChildrenIn
<1>6. QED
  BY <1>1, <1>4, <1>5 DEF rows, ChildrenIn

(* Where a row is listed, and which are listed next to it.                 *)
LEMMA PlaceIs ==
  ASSUME NEW rows, NEW u, Ordered(rows, Children(rows, rows[u].parent)),
         u \in Children(rows, rows[u].parent)
  PROVE  Place(rows, u) = Rank(rows, Children(rows, rows[u].parent), u) + 1
<1> DEFINE S == Children(rows, rows[u].parent)
           kids == ChildRows(rows, rows[u].parent)
           r == Rank(rows, S, u)
<1>1. Len(kids) = Cardinality(S) /\ Cardinality(S) \in Nat /\ DOMAIN kids = 1 .. Cardinality(S)
  <2>1. DOMAIN kids = 1 .. Cardinality(S)
    BY DEF ChildRows, ByPosition
  <2>2. QED
    BY <2>1, Listed DEF ChildRows
<1>2. r + 1 \in DOMAIN kids /\ kids[r + 1] = u
  BY <1>1, Listed DEF ChildRows
<1>3. ASSUME NEW k \in DOMAIN kids, kids[k] = u PROVE k = r + 1
  <2>1. r = k - 1 /\ k \in Int
    BY <1>1, <1>3, Listed DEF ChildRows
  <2>2. QED
    BY <2>1
<1> HIDE DEF r, kids
<1>4. (CHOOSE i \in DOMAIN kids : kids[i] = u) = r + 1
  BY <1>2, <1>3
<1>5. QED
  BY <1>4 DEF Place, r, kids

(* Of the nodes that share a parent, those listed next to one another are  *)
(* those between which there is none.                                      *)
NextTo(I, i) == {a \in I \ {i} : a > i /\ \A b \in I \ {i} : b > i => a <= b}
PrevTo(I, j) == {a \in I \ {j} : a < j /\ \A b \in I \ {j} : b < j => b <= a}

LEMMA NextInOrder ==
  ASSUME NEW own, NEW I, Ordered(own, I), \A i \in I : own[i].pos = i,
         NEW i \in I, NEW j \in I, Rank(own, I, j) = Rank(own, I, i) + 1
  PROVE  NextTo(I, i) = {j} /\ PrevTo(I, j) = {i}
<1>1. I \in SUBSET Nat /\ \A a \in I : Rank(own, I, a) \in Nat
  <2>1. \A a \in I : Rank(own, I, a) \in 0 .. Cardinality(I) - 1
    BY Ranks
  <2>2. QED
    BY <2>1 DEF Ordered
<1>2. \A a, b \in I : a < b <=> Rank(own, I, a) < Rank(own, I, b)
  BY Ranks
<1>3. i < j
  BY <1>1, <1>2
<1>4. ASSUME NEW b \in I, i < b PROVE j <= b
  <2>1. Rank(own, I, i) < Rank(own, I, b)
    BY <1>2, <1>4
  <2>2. ~ (Rank(own, I, b) < Rank(own, I, j))
    BY <1>1, <2>1
  <2>3. QED
    BY <1>1, <1>2, <2>2
<1>5. ASSUME NEW b \in I, b < j PROVE b <= i
  <2>1. Rank(own, I, b) < Rank(own, I, j)
    BY <1>2, <1>5
  <2>2. ~ (Rank(own, I, i) < Rank(own, I, b))
    BY <1>1, <2>1
  <2>3. QED
    BY <1>1, <1>2, <2>2
<1>6. ASSUME NEW a \in I \ {i}, a > i, \A b \in I \ {i} : b > i => a <= b PROVE a = j
  BY <1>1, <1>3, <1>4, <1>6
<1>7. ASSUME NEW a \in I \ {j}, a < j, \A b \in I \ {j} : b < j => b <= a PROVE a = i
  BY <1>1, <1>3, <1>5, <1>7
<1>8. j \in I \ {i} /\ j > i /\ \A b \in I \ {i} : b > i => j <= b
  BY <1>1, <1>3, <1>4
<1>9. i \in I \ {j} /\ i < j /\ \A b \in I \ {j} : b < j => b <= i
  BY <1>1, <1>3, <1>5
<1>10. QED
  BY <1>6, <1>7, <1>8, <1>9 DEF NextTo, PrevTo

(* The next and the previous are found beside a node's own place.          *)
LEMMA NeighboursNow == ASSUME IInv, stage = "activity", ~job.diff PROVE NeighboursExact
<1> DEFINE n == Len(job.src.nodes)
           rows == Loaded(job.doc)
           own == SourceRows(job.src)
<1>1. n \in Nat /\ n >= 2 /\ \A i \in 1 .. n : Names[i] = ids[i].uuid /\ rows[Names[i]] = RowOf(i)
  BY LoadedNodes
<1>2. \A i, j \in 1 .. n : Names[i] = Names[j] => i = j
  BY LoadedNodes
<1>3. SUFFICES ASSUME NEW i \in 2 .. n
      PROVE  LET u == ids[i].uuid
                 before == {j \in SiblingsIn(job.src, i) : j < i}
                 after == {j \in SiblingsIn(job.src, i) : j > i}
                 only(S) == {ids[j].uuid : j \in S}
             IN /\ ListsNodes(Siblings(rows, u), SiblingsIn(job.src, i))
                /\ PrevOf(rows, u) = only({j \in before : \A k \in before : k <= j})
                /\ NextOf(rows, u) = only({j \in after : \A k \in after : j <= k})
  BY DEF NeighboursExact
<1> DEFINE p == job.src.nodes[i].par
           I == ChildrenIn(job.src, p)
           u == Names[i]
           kids == ByPosition(rows, Named(I))
           r == Rank(own, I, i)
<1>4. i \in 1 .. n /\ p \in 1 .. n
  <2>1. i \in 1 .. n /\ p \in 1 .. i - 1
    BY <1>1, LoadedNodes, SourceNodes
  <2>2. QED
    BY <1>1, <2>1
<1>5. I \in SUBSET (1 .. n) /\ i \in I /\ SiblingsIn(job.src, i) = I \ {i}
  BY <1>1, <1>4, LoadedChildren DEF ChildrenIn, SiblingsIn
<1>6. rows[u].parent = Names[p] /\ u = ids[i].uuid
  <2>1. RowOf(i).parent = ids[p].uuid
    BY <1>1 DEF RowOf
  <2>2. QED
    BY <1>1, <1>4, <2>1
<1>7. Children(rows, rows[u].parent) = Named(I)
  BY <1>4, <1>6, LoadedChildren
<1>8. /\ Ordered(own, I) /\ Ordered(rows, Named(I)) /\ Cardinality(Named(I)) = Cardinality(I)
      /\ \A j \in I : Rank(rows, Named(I), Names[j]) = Rank(own, I, j)
      /\ \A k \in 1 .. Cardinality(I) : kids[k] = Names[ByPosition(own, I)[k]]
  BY <1>5, ReadInOrder
<1>9. \A j \in I : own[j].pos = j
  BY <1>5, LoadedNodes, SourceOrdered
<1>10. u \in Named(I) /\ \A j \in I : Names[j] = ids[j].uuid
  BY <1>1, <1>5 DEF Named
<1>11. ListsNodes(Siblings(rows, u), SiblingsIn(job.src, i))
  <2>1. Named(I) \ {u} = Named(I \ {i})
    BY <1>2, <1>5 DEF Named
  <2>2. Siblings(rows, u) = ByPosition(rows, Named(I \ {i}))
    BY <1>7, <2>1 DEF Siblings
  <2>3. I \ {i} \in SUBSET (1 .. n)
    BY <1>5
  <2> HIDE DEF I, rows, u
  <2>4. QED
    BY <1>5, <2>2, <2>3, ReadInOrder DEF rows
<1>12. /\ ChildRows(rows, rows[u].parent) = kids /\ Place(rows, u) = r + 1
       /\ Len(kids) = Cardinality(I) /\ Cardinality(I) \in Nat
       /\ r \in Nat /\ r < Cardinality(I)
  <2>1. ChildRows(rows, rows[u].parent) = kids
    BY <1>7 DEF ChildRows
  <2>2. Len(kids) = Cardinality(I) /\ Cardinality(I) \in Nat
    BY <1>8, Listed
  <2>3. Place(rows, u) = Rank(rows, Named(I), u) + 1
    <3> HIDE DEF rows, I, u
    <3>1. QED
      BY <1>7, <1>8, <1>10, PlaceIs
  <2>4. r \in 0 .. Cardinality(I) - 1
    BY <1>5, <1>8, Ranks
  <2>5. QED
    BY <1>5, <1>8, <2>1, <2>2, <2>3, <2>4, SMTT(40)
<1>13. ASSUME NEW k \in 0 .. Cardinality(I) - 1
       PROVE  \E j \in I : Rank(own, I, j) = k /\ kids[k + 1] = ids[j].uuid
  <2> DEFINE j == ByPosition(own, I)[k + 1]
  <2>1. k + 1 \in 1 .. Cardinality(I) /\ (k + 1) - 1 = k
    BY <1>12
  <2>2. j \in I /\ Rank(own, I, j) = k
    BY <1>8, <2>1, Listed
  <2>3. QED
    BY <1>8, <1>10, <2>1, <2>2
<1> HIDE DEF rows, own, I, u, kids, r
<1> DEFINE before == {j \in SiblingsIn(job.src, i) : j < i}
           after == {j \in SiblingsIn(job.src, i) : j > i}
           last == {j \in before : \A k \in before : k <= j}
           first == {j \in after : \A k \in after : j <= k}
<1>14. \A a, b \in I : Rank(own, I, b) = Rank(own, I, a) + 1 =>
                         NextTo(I, a) = {b} /\ PrevTo(I, b) = {a}
  BY <1>8, <1>9, NextInOrder
<1>15. last = PrevTo(I, i) /\ first = NextTo(I, i)
  BY <1>5 DEF PrevTo, NextTo
<1>16. \A a, b \in I : a < b <=> Rank(own, I, a) < Rank(own, I, b)
  BY <1>8, <1>9, Ranks
<1>17. \A a \in I : Rank(own, I, a) \in 0 .. Cardinality(I) - 1
  BY <1>8, Ranks
<1>18. PrevOf(rows, u) = {ids[j].uuid : j \in last}
  <2>1. CASE r = 0
    <3>1. last = {}
      <4>1. ASSUME NEW a \in I, a < i PROVE FALSE
        BY <1>5, <1>16, <1>17, <2>1, <4>1 DEF r
      <4>2. QED
        BY <1>15, <4>1 DEF PrevTo, NextTo
    <3>2. PrevOf(rows, u) = {}
      BY <1>12, <2>1 DEF PrevOf
    <3>3. QED
      BY <3>1, <3>2
  <2>2. CASE r # 0
    <3>1. r - 1 \in 0 .. Cardinality(I) - 1 /\ (r - 1) + 1 = r
      BY <1>12, <2>2
    <3>2. PICK j \in I : Rank(own, I, j) = r - 1 /\ kids[r] = ids[j].uuid
      BY <1>13, <3>1
    <3>3. last = {j}
      <4>1. Rank(own, I, i) = Rank(own, I, j) + 1
        BY <3>1, <3>2 DEF r
      <4>2. PrevTo(I, i) = {j}
        BY <1>5, <1>14, <4>1
      <4>3. QED
        BY <1>15, <4>2
    <3>4. PrevOf(rows, u) = {kids[r]}
      <4>1. Place(rows, u) > 1 /\ Place(rows, u) - 1 = r
        BY <1>12, <2>2
      <4>2. QED
        BY <1>12, <4>1 DEF PrevOf
    <3> HIDE DEF last
    <3>5. QED
      BY <3>2, <3>3, <3>4
  <2>3. QED
    BY <2>1, <2>2
<1>19. NextOf(rows, u) = {ids[j].uuid : j \in first}
  <2>1. CASE r + 1 = Cardinality(I)
    <3>1. first = {}
      <4>1. ASSUME NEW a \in I, a > i PROVE FALSE
        <5>1. i < a
          BY <1>5, <4>1
        <5>2. r < Rank(own, I, a) /\ Rank(own, I, a) \in 0 .. Cardinality(I) - 1
          BY <1>5, <1>16, <1>17, <5>1 DEF r
        <5>3. QED
          BY <1>12, <2>1, <5>2
      <4>2. QED
        BY <1>15, <4>1 DEF PrevTo, NextTo
    <3>2. NextOf(rows, u) = {}
      BY <1>12, <2>1 DEF NextOf
    <3>3. QED
      BY <3>1, <3>2
  <2>2. CASE r + 1 # Cardinality(I)
    <3>1. r + 1 \in 0 .. Cardinality(I) - 1
      BY <1>12, <2>2
    <3>2. PICK j \in I : Rank(own, I, j) = r + 1 /\ kids[(r + 1) + 1] = ids[j].uuid
      BY <1>13, <3>1
    <3>3. first = {j}
      <4>1. Rank(own, I, j) = Rank(own, I, i) + 1
        BY <3>2 DEF r
      <4>2. NextTo(I, i) = {j}
        BY <1>5, <1>14, <4>1
      <4>3. QED
        BY <1>15, <4>2
    <3>4. NextOf(rows, u) = {kids[(r + 1) + 1]}
      <4>1. Place(rows, u) < Cardinality(I)
        BY <1>12, <2>2
      <4>2. QED
        BY <1>12, <4>1 DEF NextOf
    <3> HIDE DEF first
    <3>5. QED
      BY <3>2, <3>3, <3>4
  <2>3. QED
    BY <2>1, <2>2
<1>20. QED
  BY <1>6, <1>11, <1>18, <1>19 DEF u

(* The queries on a stored document answer what its source says.           *)
THEOREM QueriesAnswer == Spec => []QueriesExact
<1>1. IInv => QueriesExact
  BY TocNow, NeighboursNow DEF QueriesExact
<1>2. QED
  BY <1>1, Invariance, PTL

-----------------------------------------------------------------------------
(* Reading a document back. *)

(* What is below a node does not depend on the names its rows are under.   *)
LEMMA ReadAtRenamed ==
  ASSUME IInv, stage = "activity", ~job.diff,
         NEW f, NEW h, NEW p \in 1 .. Len(job.src.nodes),
         \A i \in 1 .. Len(job.src.nodes) : h[Names[i]] = f[i]
  PROVE  ReadAt(Loaded(job.doc), content, h, Names[p])
           = ReadAt(SourceRows(job.src), SourceFiles(job.src), f, p)
<1> DEFINE n == Len(job.src.nodes)
           rows == Loaded(job.doc)
           own == SourceRows(job.src)
           files == SourceFiles(job.src)
           I == ChildrenIn(job.src, p)
<1>1. I \in SUBSET (1 .. n)
  BY LoadedChildren
<1>2. ChildRows(rows, Names[p]) = ByPosition(rows, Named(I)) /\ ChildRows(own, p) = ByPosition(own, I)
  BY LoadedChildren DEF ChildRows
<1>3. /\ Len(ChildRows(rows, Names[p])) = Cardinality(I) /\ Len(ChildRows(own, p)) = Cardinality(I)
      /\ \A k \in 1 .. Cardinality(I) : /\ ChildRows(own, p)[k] \in 1 .. n
                                        /\ ChildRows(rows, Names[p])[k] = Names[ChildRows(own, p)[k]]
  <2>1. /\ Ordered(own, I) /\ Ordered(rows, Named(I)) /\ Cardinality(Named(I)) = Cardinality(I)
        /\ \A k \in 1 .. Cardinality(I) :
             ByPosition(rows, Named(I))[k] = Names[ByPosition(own, I)[k]]
    BY <1>1, ReadInOrder
  <2> HIDE DEF rows, own, I
  <2>2. \A k \in 1 .. Cardinality(I) : ByPosition(own, I)[k] \in 1 .. n
    BY <1>1, <2>1, Listed
  <2>3. Len(ByPosition(rows, Named(I))) = Cardinality(I) /\ Len(ByPosition(own, I)) = Cardinality(I)
    BY <2>1, Listed
  <2>4. QED
    BY <1>2, <2>1, <2>2, <2>3
<1>4. ASSUME NEW j \in 1 .. n
      PROVE  BlocksAt(rows, content, h, Names[j]) = BlocksAt(own, files, f, j)
  <2>1. /\ rows[Names[j]].type = job.src.nodes[j].type
        /\ rows[Names[j]].content <=> HasContent(j)
        /\ HasContent(j) => content[Names[j]] = job.src.nodes[j].body
    BY LoadedNodes
  <2>2. /\ own[j].type = job.src.nodes[j].type
        /\ own[j].content <=> HasContent(j)
        /\ files[j] = job.src.nodes[j].body
    BY LoadedNodes DEF SourceRows, SourceFiles, HasContent
  <2> HIDE DEF rows, own, files
  <2>3. ReadThrough(rows[Names[j]]) <=> ReadThrough(own[j])
    BY <2>1, <2>2 DEF ReadThrough
  <2>4. ~ ReadThrough(own[j]) => content[Names[j]] = files[j]
    BY <2>1, <2>2 DEF ReadThrough
  <2>5. h[Names[j]] = f[j] /\ rows[Names[j]].type = own[j].type
    BY <2>1, <2>2
  <2>6. QED
    BY <2>3, <2>4, <2>5 DEF BlocksAt
<1> HIDE DEF rows, own, files, I
<1>5. \A k \in 1 .. Cardinality(I) :
        BlocksAt(rows, content, h, ChildRows(rows, Names[p])[k])
          = BlocksAt(own, files, f, ChildRows(own, p)[k])
  BY <1>3, <1>4
<1>6. [k \in 1 .. Cardinality(I) |-> BlocksAt(rows, content, h, ChildRows(rows, Names[p])[k])]
        = [k \in 1 .. Cardinality(I) |-> BlocksAt(own, files, f, ChildRows(own, p)[k])]
  BY <1>5, Zenon
<1>7. ReadAt(rows, content, h, Names[p]) = ReadAt(own, files, f, p)
  BY <1>3, <1>6 DEF ReadAt
<1>8. QED
  BY <1>7 DEF rows, own, files

(* The rows read back as the tree they were made of.                       *)
LEMMA ReadsItsSource ==
  ASSUME IInv, stage = "activity", ~job.diff
  PROVE  ReadDocument(job.doc) = BlocksOf(job.src)
<1> DEFINE n == Len(job.src.nodes)
           rows == Loaded(job.doc)
           own == SourceRows(job.src)
           files == SourceFiles(job.src)
<1>1. /\ n \in Nat /\ n >= 2 /\ DOMAIN own = 1 .. n /\ DOMAIN rows = Named(1 .. n)
      /\ \A i, j \in 1 .. n : Names[i] = Names[j] => i = j
      /\ \A i \in 1 .. n : rows[Names[i]].pos = i /\ own[i].pos = i
  BY LoadedNodes DEF SourceRows
<1>2. \A p \in 1 .. n, i \in 1 .. n : i \in ChildrenIn(job.src, p) => p < i
  <2>1. \A i \in 2 .. n : job.src.nodes[i].par \in 1 .. i - 1
    BY LoadedNodes, SourceNodes
  <2>2. QED
    BY <1>1, <2>1 DEF ChildrenIn
<1>3. Downward(own, n)
  <2>1. Ordered(own, 1 .. n)
    BY ReadInOrder
  <2>2. ASSUME NEW i \in 1 .. n, NEW p \in 1 .. n, own[i].parent = p
        PROVE  own[p].pos < own[i].pos
    <3>1. i \in Children(own, p)
      BY <1>1, <2>2 DEF Children
    <3>2. QED
      BY <1>1, <1>2, <3>1, LoadedChildren
  <2> HIDE DEF own
  <2>3. QED
    BY <1>1, <2>1, <2>2 DEF Downward
<1>4. Downward(rows, n)
  <2>1. Ordered(rows, Named(1 .. n))
    BY ReadInOrder
  <2>2. ASSUME NEW i \in 1 .. n, NEW p \in 1 .. n, rows[Names[i]].parent = Names[p]
        PROVE  rows[Names[p]].pos < rows[Names[i]].pos
    <3>1. Names[i] \in Children(rows, Names[p])
      BY <1>1, <2>2 DEF Children, Named
    <3>2. Names[i] \in Named(ChildrenIn(job.src, p))
      BY <3>1, LoadedChildren
    <3>3. i \in ChildrenIn(job.src, p)
      BY <1>1, <3>2, LoadedChildren DEF Named
    <3>4. QED
      BY <1>1, <1>2, <3>3
  <2> HIDE DEF rows
  <2>3. \A u \in DOMAIN rows : \E i \in 1 .. n : u = Names[i]
    BY <1>1 DEF Named
  <2>4. \A u \in DOMAIN rows : rows[u].pos <= n
    BY <1>1, <2>3
  <2>5. \A u \in DOMAIN rows : \A v \in DOMAIN rows :
          rows[u].parent = v => rows[v].pos < rows[u].pos
    BY <2>2, <2>3
  <2>6. QED
    BY <1>1, <2>1, <2>4, <2>5 DEF Downward
<1> HIDE DEF rows, own, files
<1>5. PICK f : Reading(own, files, f)
  BY <1>3, ReadingExists
<1> DEFINE number(u) == CHOOSE i \in 1 .. n : Names[i] = u
           h == [u \in DOMAIN rows |-> f[number(u)]]
<1>6. \A i \in 1 .. n : Names[i] \in DOMAIN rows /\ h[Names[i]] = f[i]
  BY <1>1 DEF Named
<1>7. Reading(rows, content, h)
  <2>1. h = [u \in DOMAIN rows |-> h[u]]
    OBVIOUS
  <2> HIDE DEF h
  <2>2. ASSUME NEW i \in 1 .. n PROVE h[Names[i]] = ReadAt(rows, content, h, Names[i])
    <3>1. ReadAt(rows, content, h, Names[i]) = ReadAt(own, files, f, i)
      BY <1>6, ReadAtRenamed DEF rows, own, files
    <3>2. f[i] = ReadAt(own, files, f, i)
      BY <1>1, <1>5 DEF Reading
    <3>3. QED
      BY <1>6, <3>1, <3>2
  <2>3. QED
    BY <1>1, <2>1, <2>2 DEF Reading, Named
<1> DEFINE D == {i \in 1 .. n : job.src.nodes[i].type = "document"}
           r == ByPosition(own, D)[1]
<1>8. /\ {u \in DOMAIN rows : rows[u].type = "document"} = Named(D)
      /\ {i \in DOMAIN own : own[i].type = "document"} = D
  <2>1. \A i \in 1 .. n : /\ rows[Names[i]].type = job.src.nodes[i].type
                          /\ own[i].type = job.src.nodes[i].type
    BY LoadedNodes DEF rows, own, SourceRows
  <2>2. ASSUME NEW u \in DOMAIN rows PROVE rows[u].type = "document" <=> u \in Named(D)
    <3>1. PICK i \in 1 .. n : u = Names[i]
      BY <1>1 DEF Named
    <3>2. u \in Named(D) <=> i \in D
      BY <1>1, <3>1 DEF Named
    <3>3. QED
      BY <2>1, <3>1, <3>2
  <2>3. Named(D) \in SUBSET DOMAIN rows
    BY <1>1 DEF Named
  <2>4. {u \in DOMAIN rows : rows[u].type = "document"} = Named(D)
    BY <2>2, <2>3
  <2>5. {i \in DOMAIN own : own[i].type = "document"} = D
    BY <1>1, <2>1
  <2>6. QED
    BY <2>4, <2>5
<1>9. r \in 1 .. n /\ ByPosition(rows, Named(D))[1] = Names[r] /\ 1 \in 1 .. Cardinality(D)
      /\ Cardinality(Named(D)) = Cardinality(D)
  <2>1. 1 \in D /\ D \in SUBSET (1 .. n)
    BY <1>1, LoadedNodes, SourceAssumption
  <2> HIDE DEF D
  <2>2. /\ Ordered(own, D) /\ Cardinality(Named(D)) = Cardinality(D)
        /\ \A k \in 1 .. Cardinality(D) :
             ByPosition(rows, Named(D))[k] = Names[ByPosition(own, D)[k]]
    BY <2>1, ReadInOrder DEF rows, own
  <2>3. Cardinality(D) \in Nat /\ Rank(own, D, 1) + 1 \in 1 .. Cardinality(D)
    BY <2>1, <2>2, Listed
  <2>4. 1 \in 1 .. Cardinality(D)
    BY <2>3
  <2>5. QED
    BY <2>1, <2>2, <2>4, Listed
<1>10. Head(RootsOf(rows)) = Names[r] /\ Head(RootsOf(own)) = r
  <2>1. RootsOf(rows) = ByPosition(rows, Named(D)) /\ RootsOf(own) = ByPosition(own, D)
    BY <1>8 DEF RootsOf
  <2>2. \A s : Head(s) = s[1]
    OBVIOUS
  <2>3. QED
    BY <1>9, <2>1, <2>2
<1>11. BlockList(rows, content, Names[r]) = h[Names[r]]
  <2> HIDE DEF h, r
  <2>1. QED
    BY <1>4, <1>7, BlockListReads
<1>12. BlockList(own, files, r) = f[r]
  <2> HIDE DEF r
  <2>1. QED
    BY <1>3, <1>5, BlockListReads
<1> HIDE DEF r, h
<1>13. QED
  BY <1>6, <1>9, <1>10, <1>11, <1>12 DEF ReadDocument, ProjectDocument, BlocksOf, rows, own, files

(* A document ingested for the first time reads back as its source,        *)
(* whatever else is in the store.                                          *)
THEOREM FirstReadIsExact == Spec => []FirstReadExact
<1>1. IInv => FirstReadExact
  BY ReadsItsSource DEF FirstReadExact
<1>2. QED
  BY <1>1, Invariance, PTL
=============================================================================
