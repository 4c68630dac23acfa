------------------------------- MODULE Ingest -------------------------------
(***************************************************************************)
(* The text-runtime store and the operations of one Runtime on it: the     *)
(* ingestion pipeline (pipeline/ingest.rs) with the re-ingestion diff      *)
(* (reingest.rs), the content writer, the SQLite writer and the activity   *)
(* log, and the operations that hang data on node UUIDs (annotate,         *)
(* transclude, refresh).                                                   *)
(*                                                                         *)
(* A Runtime is behind a mutex, so no other operation runs inside an       *)
(* ingestion; but every SQL statement commits by itself and every content  *)
(* file is renamed by itself, so a crash or an error (Abort) may stop the  *)
(* pipeline between any two of the steps below.  SQLite and the file       *)
(* system survive; stage, job, ids and at are memory and are lost.         *)
(*                                                                         *)
(* Definitions named Slip... are plausible coding slips in the definition  *)
(* that follows them; no specification uses them, they show that the       *)
(* properties would notice.                                                *)
(*                                                                         *)
(* Two texts stand for the same element of Text iff their trimmed forms    *)
(* are equal, i.e. iff their structural hashes are.                        *)
(***************************************************************************)
EXTENDS Naturals, Sequences, FiniteSets

CONSTANTS
  Paths,      \* source paths a document can be imported from
  NoPath,     \* import_path NULL (ingest_text without a path)
  Text,       \* plain texts up to trimming
  Empty,      \* the empty text
  Type,       \* node types; "document" is the root's
  Body,       \* Pandoc AST fragments, what a content file holds
  NoBody,     \* pandoc_ast_json = None, has_content = false
  Sources,    \* the segmented inputs, see SourceAssumption
  Ratio,      \* Ratio[t][u]: edit distance over the longer length, percent
  Threshold,  \* config.fuzzy_match_threshold, percent
  MaxUuid,    \* bound: node UUIDs available
  MaxIngests, \* bound: ingestions started
  MaxAborts,  \* bound: crashes and errors
  MaxAnnos,   \* bound: annotations
  MaxEdges    \* bound: transclusion edges

Uuid == 1 .. MaxUuid  \* UUID v7 values in the order they are allocated
NoUuid == 0           \* NULL

(* A segmented node: par is the index of its parent in preorder. *)
Node == [type: Type, text: Text, body: Body \cup {NoBody}, par: Nat]

ASSUME BoundsAssumption ==
  /\ MaxUuid \in Nat /\ MaxIngests \in Nat /\ MaxAborts \in Nat
  /\ MaxAnnos \in Nat /\ MaxEdges \in Nat

ASSUME ValuesAssumption ==
  /\ NoPath \notin Paths
  /\ NoBody \notin Body
  /\ Empty \in Text
  /\ "document" \in Type
  /\ Ratio \in [Text -> [Text -> Nat]]
  /\ Threshold \in Nat

(* A source is the tree segmenter::segment returns, in preorder, with the  *)
(* text collect_plain_text will give its root.  The segmenter leaves the   *)
(* root's own text empty and gives it no AST fragment.                     *)
ASSUME SourceAssumption ==
  \A s \in Sources :
     /\ s \in [nodes: Seq(Node), full: Text]
     /\ Len(s.nodes) >= 2
     /\ s.nodes[1] = [type |-> "document", text |-> Empty, body |-> NoBody, par |-> 0]
     /\ \A i \in 2 .. Len(s.nodes) : s.nodes[i].par \in 1 .. i - 1

VARIABLES
  docs,       \* documents table, in rowid order
  nodes,      \* nodes table: uuid -> row
  annos,      \* annotations table
  edges,      \* transclusions table
  activities, \* activities table, append-only
  content,    \* content/xx/uuid.json files
  stage,      \* where run_pipeline stands
  job,        \* its arguments and the rows it loaded
  ids,        \* uuid and version given to the nodes so far, in preorder
  at,         \* the node the current tree walk stands at
  next,       \* the next fresh UUID
  ingests,    \* ingestions started
  aborts      \* errors: ingestions or refreshes cut short, lookups lost

database == <<docs, nodes, annos, edges, activities>>
memory == <<stage, job, ids, at>>
vars == <<database, content, memory, next, ingests, aborts>>

-----------------------------------------------------------------------------
DocId == 1 .. MaxIngests
NoSource == [nodes |-> <<>>, full |-> Empty]
NoJob == [path |-> NoPath, src |-> NoSource, doc |-> 0, merge |-> FALSE,
          diff |-> FALSE, existing |-> {}]

Stage == {"idle", "assign", "match", "retire", "orphan", "content",
          "document", "rows", "activity"}

DocRow == [path: Paths \cup {NoPath}, root: Uuid]
Row == [doc: DocId, type: Type, text: Text, content: BOOLEAN,
        parent: Uuid \cup {NoUuid}, pos: Nat, version: Nat,
        status: {"active", "deleted"}]
Annotation == [target: Uuid, status: {"active", "orphan"}]
Edge == [source: Uuid, target: Uuid, seen: Nat, status: {"live", "stale"}]
Activity == [kind: {"ingest", "reingest"}, doc: DocId, output: SUBSET Uuid]
Given == [uuid: Uuid, version: Nat]
Job == [path: Paths \cup {NoPath}, src: Sources, doc: DocId, merge: BOOLEAN,
        diff: BOOLEAN, existing: SUBSET Uuid]

StoreType ==
  /\ docs \in Seq(DocRow)
  /\ DOMAIN nodes \subseteq Uuid
  /\ nodes \in [DOMAIN nodes -> Row]
  /\ annos \subseteq Annotation
  /\ edges \subseteq Edge
  /\ activities \in Seq(Activity)
  /\ DOMAIN content \subseteq Uuid
  /\ content \in [DOMAIN content -> Body]

MemoryType ==
  /\ stage \in Stage
  /\ job \in Job \cup {NoJob}
  /\ ids \in Seq(Given)
  /\ at \in Nat \ {0}

CounterType ==
  /\ next \in Nat \ {0}
  /\ ingests \in 0 .. MaxIngests
  /\ aborts \in 0 .. MaxAborts

TypeOK == StoreType /\ MemoryType /\ CounterType

Init ==
  /\ docs = <<>>
  /\ nodes = [u \in {} |-> NoUuid]
  /\ annos = {}
  /\ edges = {}
  /\ activities = <<>>
  /\ content = [u \in {} |-> NoBody]
  /\ stage = "idle"
  /\ job = NoJob
  /\ ids = <<>>
  /\ at = 1
  /\ next = 1
  /\ ingests = 0
  /\ aborts = 0

-----------------------------------------------------------------------------
(* Queries. *)

IsActive(u) == u \in DOMAIN nodes /\ nodes[u].status = "active"

SlipNodesAnyStatus(d) == {u \in DOMAIN nodes : nodes[u].doc = d}
SlipNodesAnyDoc(d) == {u \in DOMAIN nodes : nodes[u].status = "active"}
NodesByDoc(d) == {u \in DOMAIN nodes : nodes[u].doc = d /\ nodes[u].status = "active"}

(* get_document_by_path: the first document imported from the path. *)
DocsByPath(p) == {d \in DOMAIN docs : docs[d].path = p}
FirstByPath(p) == {d \in DocsByPath(p) : \A e \in DocsByPath(p) : d <= e}

(* get_nodes_by_hash: the first active row of document d whose structural  *)
(* hash is that of text t.                                                 *)
NodesByHash(d, t) == {u \in NodesByDoc(d) : nodes[u].text = t}
FirstByHash(d, t) == {u \in NodesByHash(d, t) : \A v \in NodesByHash(d, t) : u <= v}

(* INSERT ... ON CONFLICT(key) DO UPDATE on a table kept as a function. *)
Upsert(table, key, row) ==
  [k \in DOMAIN table \cup {key} |-> IF k = key THEN row ELSE table[k]]

Used(upto) == {ids[i].uuid : i \in 1 .. upto}
Matched == Used(Len(ids))

(* existing_nodes still free to be matched by the rest of the walk. *)
SlipUnmatchedButFuzzy == {u \in job.existing : \A i \in DOMAIN ids :
                            ids[i].uuid = u => ids[i].version > nodes[u].version}
Unmatched == job.existing \ Matched

(* Free rows whose structural hash is that of node i, and those whose edit *)
(* distance to it is within the threshold (the code skips pairs of empty   *)
(* texts, which have equal hashes).                                        *)
SlipSameHashInPlace(i) == {u \in Unmatched : /\ nodes[u].text = job.src.nodes[i].text
                                             /\ nodes[u].pos = i}
SameHash(i) == {u \in Unmatched : nodes[u].text = job.src.nodes[i].text}
RatioTo(i, u) == Ratio[job.src.nodes[i].text][nodes[u].text]
Similar(i) == {u \in Unmatched \ SameHash(i) : RatioTo(i, u) <= Threshold}

-----------------------------------------------------------------------------
(* The tree walks of the pipeline.  Each visits the nodes in preorder and  *)
(* the pipeline goes on to stage `then` after the last one.                *)
Walk(then) ==
  /\ at \in DOMAIN job.src.nodes
  /\ IF at = Len(job.src.nodes)
       THEN at' = 1 /\ stage' = then
       ELSE at' = at + 1 /\ stage' = stage

(* run_pipeline up to the UUIDs: the source is parsed and segmented; with  *)
(* merge, the first document imported from the path is ingested again and  *)
(* its active nodes are loaded; ...                                        *)
Resume(p, s) ==
  /\ stage = "idle"
  /\ ingests < MaxIngests
  /\ \E d \in FirstByPath(p) :
       job' = [path |-> p, src |-> s, doc |-> d, merge |-> TRUE, diff |-> TRUE,
               existing |-> NodesByDoc(d)]
  /\ stage' = "match"
  /\ ingests' = ingests + 1
  /\ UNCHANGED <<database, content, ids, at, next, aborts>>

NewDoc == Len(docs) + 1

(* ... otherwise, and always without merge, the document is new.           *)
Create(p, s, merge) ==
  /\ stage = "idle"
  /\ ingests < MaxIngests
  /\ merge => DocsByPath(p) = {}
  /\ job' = [path |-> p, src |-> s, doc |-> NewDoc, merge |-> merge, diff |-> FALSE,
             existing |-> {}]
  /\ stage' = "assign"
  /\ ingests' = ingests + 1
  /\ UNCHANGED <<database, content, ids, at, next, aborts>>

(* The document is looked up twice, once for its number and once for its   *)
(* nodes; an error of the second lookup counts as "not found", and the     *)
(* known document is ingested as if it were new.                           *)
ResumeBlind(p, s) ==
  /\ stage = "idle"
  /\ ingests < MaxIngests
  /\ aborts < MaxAborts
  /\ \E d \in FirstByPath(p) :
       job' = [path |-> p, src |-> s, doc |-> d, merge |-> TRUE, diff |-> FALSE,
               existing |-> {}]
  /\ stage' = "assign"
  /\ ingests' = ingests + 1
  /\ aborts' = aborts + 1
  /\ UNCHANGED <<database, content, ids, at, next>>

IngestFile(p, s) == Resume(p, s) \/ Create(p, s, TRUE)
IngestText(p, s) == Create(p, s, FALSE)

Give(uuid, version) == ids' = Append(ids, [uuid |-> uuid, version |-> version])

GiveFresh == /\ next \in Uuid
             /\ Give(next, 1)
             /\ next' = next + 1

(* assign_uuids, one node per step: a row of the document with the node's  *)
(* hash gives its UUID, but not its version, to the first node that asks;  *)
(* a new document has no row, and every node gets a fresh UUID.            *)
SlipReusable(i) == FirstByHash(job.doc, job.src.nodes[i].text)
Reusable(i) == FirstByHash(job.doc, job.src.nodes[i].text) \ Matched

AssignUuid ==
  /\ stage = "assign"
  /\ IF Reusable(at) = {} THEN GiveFresh
     ELSE \E u \in Reusable(at) : Give(u, 1) /\ next' = next
  /\ Walk("content")
  /\ UNCHANGED <<database, content, job, ingests, aborts>>

SlipFreshVersion(u) == 1
KeptVersion(u) == nodes[u].version

(* diff_recursive, one node per step: the first free row with the node's   *)
(* hash is kept; ...                                                       *)
MatchExact ==
  /\ stage = "match"
  /\ \E u \in SameHash(at) :
       /\ \A v \in SameHash(at) : nodes[u].pos <= nodes[v].pos
       /\ Give(u, KeptVersion(u))
  /\ Walk("retire")
  /\ UNCHANGED <<database, content, job, next, ingests, aborts>>

SlipKeptVersion(u) == nodes[u].version
FuzzyVersion(u) == nodes[u].version + 1

(* ... otherwise a free row at the least ratio within the threshold is     *)
(* updated (which one among equals is the order of a HashMap); ...         *)
MatchFuzzy ==
  /\ stage = "match"
  /\ SameHash(at) = {}
  /\ \E u \in Similar(at) :
       /\ \A v \in Similar(at) : RatioTo(at, u) <= RatioTo(at, v)
       /\ Give(u, FuzzyVersion(u))
  /\ Walk("retire")
  /\ UNCHANGED <<database, content, job, next, ingests, aborts>>

(* ... otherwise the node is new. *)
MatchNone ==
  /\ stage = "match"
  /\ SameHash(at) = {}
  /\ Similar(at) = {}
  /\ GiveFresh
  /\ Walk("retire")
  /\ UNCHANGED <<database, content, job, ingests, aborts>>

(* diff_and_merge: unmatched rows are marked deleted one statement at a    *)
(* time, in the order they were loaded; ...                                *)
StillToRetire == {u \in Unmatched : nodes[u].status = "active"}

RetireNode ==
  /\ stage = "retire"
  /\ \E u \in StillToRetire :
       /\ \A v \in StillToRetire : nodes[u].pos <= nodes[v].pos
       /\ nodes' = [nodes EXCEPT ![u].status = "deleted"]
  /\ UNCHANGED <<docs, annos, edges, activities, content, memory, next, ingests, aborts>>

RetireDone ==
  /\ stage = "retire"
  /\ StillToRetire = {}
  /\ stage' = "orphan"
  /\ UNCHANGED <<database, content, job, ids, at, next, ingests, aborts>>

(* ... then, when that loop is over, the active annotations of each.       *)
ActiveOn(u) == [target |-> u, status |-> "active"]
SlipOrphanSentencesOnly == {u \in Unmatched : /\ nodes[u].type = "sentence"
                                               /\ ActiveOn(u) \in annos}
StillToOrphan == {u \in Unmatched : ActiveOn(u) \in annos}

OrphanAnnotations ==
  /\ stage = "orphan"
  /\ \E u \in StillToOrphan :
       annos' = (annos \ {ActiveOn(u)}) \cup {[target |-> u, status |-> "orphan"]}
  /\ UNCHANGED <<docs, nodes, edges, activities, content, memory, next, ingests, aborts>>

OrphanDone ==
  /\ stage = "orphan"
  /\ StillToOrphan = {}
  /\ stage' = "content"
  /\ UNCHANGED <<database, content, job, ids, at, next, ingests, aborts>>

(* write_content_files: tmp file, fsync, rename for a node that has a      *)
(* fragment, nothing for the others.                                       *)
SlipSkipUnchanged(i) == /\ job.src.nodes[i].body # NoBody
                        /\ IsActive(ids[i].uuid) =>
                             nodes[ids[i].uuid].text # job.src.nodes[i].text
HasContent(i) == job.src.nodes[i].body # NoBody

WriteContent ==
  /\ stage = "content"
  /\ content' = IF HasContent(at) THEN Upsert(content, ids[at].uuid, job.src.nodes[at].body)
                                  ELSE content
  /\ Walk("document")
  /\ UNCHANGED <<database, job, ids, next, ingests, aborts>>

(* write_to_sqlite, the documents row: an existing one only has its        *)
(* version set (to the constant 1).                                        *)
SlipDocExists == job.merge
DocExists == job.doc \in DOMAIN docs

UpsertDocument ==
  /\ stage = "document"
  /\ docs' = IF DocExists THEN docs
             ELSE Append(docs, [path |-> job.path, root |-> ids[1].uuid])
  /\ stage' = "rows"
  /\ UNCHANGED <<nodes, annos, edges, activities, content, job, ids, at, next, ingests, aborts>>

(* The row of node i.  The root's text is collected after the UUIDs are    *)
(* given; only assign_uuids links children to parents.                     *)
RowOf(i) ==
  LET n == job.src.nodes[i]
  IN [doc |-> job.doc, type |-> n.type,
      text |-> IF i = 1 THEN job.src.full ELSE n.text,
      content |-> n.body # NoBody,
      parent |-> IF i = 1 \/ job.diff THEN NoUuid ELSE ids[n.par].uuid,
      pos |-> i, version |-> ids[i].version, status |-> "active"]

(* collect_and_insert_nodes, one statement per node. *)
UpsertNode ==
  /\ stage = "rows"
  /\ nodes' = Upsert(nodes, ids[at].uuid, RowOf(at))
  /\ Walk("activity")
  /\ UNCHANGED <<docs, annos, edges, activities, content, job, ids, next, ingests, aborts>>

Forget == stage' = "idle" /\ job' = NoJob /\ ids' = <<>> /\ at' = 1

LogActivity ==
  /\ stage = "activity"
  /\ activities' = Append(activities,
       [kind |-> IF job.merge THEN "reingest" ELSE "ingest", doc |-> job.doc, output |-> Matched])
  /\ Forget
  /\ UNCHANGED <<docs, nodes, annos, edges, content, next, ingests, aborts>>

(* The process dies, or a read, a parse, a file write or a statement       *)
(* fails: run_pipeline returns and undoes nothing.                         *)
Abort ==
  /\ stage # "idle"
  /\ aborts < MaxAborts
  /\ aborts' = aborts + 1
  /\ Forget
  /\ UNCHANGED <<database, content, next, ingests>>

-----------------------------------------------------------------------------
(* Operations on existing nodes, between ingestions. *)

(* annotate_by_uuid: get_node finds a row whatever its status. *)
Annotate(u) ==
  /\ stage = "idle"
  /\ Cardinality(annos) < MaxAnnos
  /\ annos' = annos \cup {ActiveOn(u)}
  /\ UNCHANGED <<docs, nodes, edges, activities, content, memory, next, ingests, aborts>>

(* create_transclusion: both nodes have a row, whatever its status. *)
Transclude(u, v) ==
  /\ stage = "idle"
  /\ u # v
  /\ Cardinality(edges) < MaxEdges
  /\ edges' = edges \cup {[source |-> u, target |-> v, seen |-> nodes[v].version,
                           status |-> "live"]}
  /\ UNCHANGED <<docs, nodes, annos, activities, content, memory, next, ingests, aborts>>

(* refresh_transclusion_status: live edges whose target's version grew,    *)
(* one UPDATE each; an error leaves the rest for the next call.            *)
Outdated(scope) == {e \in edges : /\ e.status = "live"
                                  /\ nodes[e.source].doc \in scope
                                  /\ e.seen < nodes[e.target].version}

Refresh(scope) ==
  /\ stage = "idle"
  /\ \E marked \in SUBSET Outdated(scope) :
       /\ edges' = (edges \ marked) \cup {[e EXCEPT !.status = "stale"] : e \in marked}
       /\ \/ marked = Outdated(scope) /\ aborts' = aborts
          \/ marked # Outdated(scope) /\ aborts < MaxAborts /\ aborts' = aborts + 1
  /\ UNCHANGED <<docs, nodes, annos, activities, content, memory, next, ingests>>

-----------------------------------------------------------------------------
Pipeline ==
  \/ AssignUuid \/ MatchExact \/ MatchFuzzy \/ MatchNone
  \/ RetireNode \/ RetireDone \/ OrphanAnnotations \/ OrphanDone
  \/ WriteContent \/ UpsertDocument \/ UpsertNode \/ LogActivity

Next ==
  \/ \E s \in Sources : \E p \in Paths : IngestFile(p, s)
  \/ \E s \in Sources : \E p \in Paths \cup {NoPath} : IngestText(p, s)
  \/ Pipeline
  \/ Abort
  \/ \E u \in DOMAIN nodes : Annotate(u)
  \/ \E u, v \in DOMAIN nodes : Transclude(u, v)
  \/ \E scope \in {DocId} \cup {{d} : d \in DocId} : Refresh(scope)

Spec == Init /\ [][Next]_vars

(* Next assumes that the second lookup of a document finds what the first  *)
(* one found; LossyNext does not.                                          *)
LossyNext == Next \/ \E s \in Sources : \E p \in Paths : ResumeBlind(p, s)

-----------------------------------------------------------------------------
(* What the store promises. *)

(* Each UUID keeps to the ledger: published once, never moved between      *)
(* documents, never back to an older version, final once deleted.  At      *)
(* stake: rows loaded by the diff, crashes between its statements, and the *)
(* upsert, which would silently revive or move a row.                      *)
EntryOf(row) == [doc |-> row.doc, version |-> row.version, status |-> row.status]
LedgerView == [u \in DOMAIN nodes |-> EntryOf(nodes[u])]
Ledger == INSTANCE IdentityLedger WITH Doc <- DocId, ledger <- LedgerView
ImplementsLedger == Ledger!Spec

(* When an ingestion logs its activity, the active rows of the document    *)
(* are the nodes of the source, each under the UUID the diff gave it and   *)
(* with its content file, no row too many and no UUID twice, whatever      *)
(* earlier ingestions were cut short and whatever they left behind.        *)
CompletedIngestExact ==
  stage = "activity" =>
     /\ NodesByDoc(job.doc) = Matched
     /\ \A i \in DOMAIN job.src.nodes :
          LET n == job.src.nodes[i]
              r == nodes[ids[i].uuid]
          IN /\ r.type = n.type /\ r.pos = i
             /\ r.text = IF i = 1 THEN job.src.full ELSE n.text
             /\ r.content <=> n.body # NoBody
             /\ r.content => content[ids[i].uuid] = n.body
     /\ \A i, j \in DOMAIN ids : ids[i].uuid = ids[j].uuid => i = j

(* The projection can read a content file for every active block at any    *)
(* moment, a crash between the two writers included, even where a UUID     *)
(* passes from a sentence, which has no file, to a paragraph.              *)
ActiveBlocksReadable ==
  \A u \in DOMAIN nodes :
     nodes[u].status = "active" /\ nodes[u].content => u \in DOMAIN content

(* A statement never meets a foreign key error: a row's document and its   *)
(* parent are there before it.                                             *)
ForeignKeysHold ==
  \A u \in DOMAIN nodes :
     /\ nodes[u].doc \in DOMAIN docs
     /\ nodes[u].parent \in DOMAIN nodes \cup {NoUuid}

(* The diff keeps the UUID of a node whose text is found again, wherever   *)
(* the node moved, if nothing else competes for it: no other row has the   *)
(* text, and no earlier node has it or comes within the threshold of it.   *)
Unambiguous(i, u) ==
  LET t == nodes[u].text
  IN /\ job.src.nodes[i].text = t
     /\ \A v \in job.existing \ {u} : nodes[v].text # t
     /\ \A j \in 1 .. i - 1 : /\ job.src.nodes[j].text # t
                             /\ Ratio[job.src.nodes[j].text][t] > Threshold
IdentityKept ==
  stage = "retire" =>
     \A i \in DOMAIN job.src.nodes, u \in job.existing :
        Unambiguous(i, u) => ids[i] = [uuid |-> u, version |-> nodes[u].version]

(* After the diff of a completed or a resumed ingestion, no annotation of  *)
(* a node that the diff deleted is still active.                           *)
AnnotationsFollow ==
  stage \in {"content", "document", "rows", "activity"} =>
     \A u \in Unmatched : ActiveOn(u) \notin annos

(* An orphaned annotation is never an orphan by mistake, nor becomes one:  *)
(* its node was deleted, and no later ingestion brings it back.  Nothing   *)
(* makes an orphan active again (update_annotation_status has no caller),  *)
(* so one on a node that lives would be lost to its readers for good.      *)
OrphansStayDeleted ==
  \A a \in annos : a.status = "orphan" =>
     a.target \in DOMAIN nodes /\ nodes[a.target].status = "deleted"

(* An edge never claims to have included a version its target has not      *)
(* reached; such an edge would never be detected as stale.                 *)
EdgesNeverAhead ==
  \A e \in edges : e.seen <= nodes[e.target].version

(* The text of a row changes only with its version, the one thing          *)
(* detect_stale_edges looks at.  Roots are left out: their text is set     *)
(* after their version was decided for an empty one, and a root that took  *)
(* the row of a thematic break changes the text under the old version.     *)
VersionTracks ==
  \A u \in DOMAIN nodes :
     nodes'[u].text # nodes[u].text /\ nodes'[u].type # "document" =>
        nodes'[u].version > nodes[u].version
VersionTracksText == [][VersionTracks]_nodes

(* An ingestion leaves the rows and the annotations of other documents     *)
(* alone.                                                                  *)
OtherDocumentsUntouched ==
  [][stage # "idle" =>
       \A u \in DOMAIN nodes :
          nodes[u].doc # job.doc =>
             /\ nodes'[u] = nodes[u]
             /\ ActiveOn(u) \in annos => ActiveOn(u) \in annos']_vars

=============================================================================
