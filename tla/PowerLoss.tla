------------------------------ MODULE PowerLoss ------------------------------
(***************************************************************************)
(* Ingest on a machine that may lose its power.  With synchronous = NORMAL *)
(* (store/db.rs) a commit is safe only after SQLite has synced its log,    *)
(* which it does on its own account: the database may go back to any       *)
(* earlier commit.  Content files are synced and then renamed              *)
(* (store/content.rs), but nothing syncs their directories: each rename    *)
(* since that commit may be lost or not.  Renames that came before a       *)
(* commit which survived are safe, as on any journaling file system.       *)
(***************************************************************************)
EXTENDS IngestInv

CONSTANTS NotSynced,  \* no commit that a loss will go back to
          MaxLosses   \* bound: power losses

ASSUME LossesAssumption == MaxLosses \in Nat

VARIABLES
  durable,  \* the database and the files as of the commit that will survive
  powered,  \* FALSE from a loss until the store is opened again
  losses    \* power losses

power == <<durable, powered, losses>>
powerVars == <<vars, power>>

Snapshot == [docs |-> docs, nodes |-> nodes, annos |-> annos, edges |-> edges,
             activities |-> activities, content |-> content]

PowerInit ==
  /\ Init
  /\ durable = NotSynced
  /\ powered = TRUE
  /\ losses = 0

(* The last commit that the next loss will leave.  The stages left out     *)
(* change nothing in the database before they end.                         *)
Sync ==
  /\ powered /\ durable = NotSynced /\ losses < MaxLosses
  /\ stage \in {"idle", "retire", "orphan", "rows", "activity"}
  /\ durable' = Snapshot
  /\ UNCHANGED <<vars, powered, losses>>

(* The process ends with whatever it was doing ... *)
Lose ==
  /\ powered /\ durable # NotSynced
  /\ powered' = FALSE
  /\ losses' = losses + 1
  /\ Forget
  /\ UNCHANGED <<database, content, next, ingests, aborts, durable>>

(* ... and the store is opened again on what is left.  UUIDs are made of   *)
(* the time and are not given twice.                                       *)
Reopen ==
  /\ ~powered
  /\ docs' = durable.docs /\ nodes' = durable.nodes /\ annos' = durable.annos
  /\ edges' = durable.edges /\ activities' = durable.activities
  /\ \E kept \in SUBSET DOMAIN content :
       content' = [u \in kept \cup DOMAIN durable.content |->
                     IF u \in kept THEN content[u] ELSE durable.content[u]]
  /\ durable' = NotSynced
  /\ powered' = TRUE
  /\ UNCHANGED <<memory, next, ingests, aborts, losses>>

(* Bound: what a loss undoes goes back to one ingestion at most. *)
Running(A) ==
  /\ powered
  /\ A
  /\ durable' = IF stage # "idle" /\ stage' = "idle" THEN NotSynced ELSE durable
  /\ UNCHANGED <<powered, losses>>

PowerNext == Running(LossyNext) \/ Sync \/ Lose \/ Reopen

PowerSpec == PowerInit /\ [][PowerNext]_powerVars

-----------------------------------------------------------------------------
(* A completed ingestion has repaired what it found: the rows and files of *)
(* its nodes are those of the source, and a diff leaves no other row,      *)
(* though the files may be newer than the rows, or some of them older,     *)
(* after a power loss, and earlier lookups were lost.                      *)
RepairedExact ==
  stage = "activity" =>
     /\ job.diff => NodesByDoc(job.doc) = Matched
     /\ \A i \in DOMAIN job.src.nodes :
          LET n == job.src.nodes[i]
              u == ids[i].uuid
          IN /\ u \in NodesByDoc(job.doc)
             /\ nodes[u].type = n.type /\ nodes[u].pos = i
             /\ nodes[u].text = IF i = 1 THEN job.src.full ELSE n.text
             /\ n.body # NoBody => u \in DOMAIN content /\ content[u] = n.body

(* No row becomes its own ancestor: though a lost lookup gives the UUIDs   *)
(* of a tree to other nodes of the tree written over it, and a crash or a  *)
(* power loss leaves parts of both, no rows have all their parents among   *)
(* themselves.  (Such rows would all have grandparents.)                   *)
HasParent(rows, u) == u \in DOMAIN rows /\ rows[u].parent # NoUuid
Grandchildren(rows) ==
  {u \in DOMAIN rows : HasParent(rows, u) /\ HasParent(rows, rows[u].parent)}
NoCycle(rows) ==
  \A S \in SUBSET Grandchildren(rows) : S # {} => \E u \in S : rows[u].parent \notin S
AncestorsEnd == NoCycle(nodes)

-----------------------------------------------------------------------------
(* The inductive invariant behind the theorems about PowerSpec. *)

(* A table and its files, of now or of an earlier commit, from which the   *)
(* store can be opened.                                                    *)
Survivable(s) ==
  /\ s.docs \in Seq(DocRow) /\ Len(s.docs) <= ingests
  /\ DOMAIN s.nodes \subseteq Uuid /\ s.nodes \in [DOMAIN s.nodes -> Row]
  /\ s.annos \subseteq Annotation /\ s.edges \subseteq Edge
  /\ s.activities \in Seq(Activity)
  /\ DOMAIN s.content \subseteq Uuid /\ s.content \in [DOMAIN s.content -> Body]
  /\ \A u \in DOMAIN s.nodes :
        /\ u < next
        /\ s.nodes[u].doc \in DOMAIN s.docs
        /\ s.nodes[u].parent \in DOMAIN s.nodes \cup {NoUuid}
        /\ s.nodes[u].status = "active" /\ s.nodes[u].content => u \in DOMAIN s.content
  /\ NoCycle(s.nodes)

(* With or without power, and whatever the second lookup found: a diff     *)
(* sees all active rows of its document, and has deleted the unmatched     *)
(* ones before it writes.                                                  *)
DiffComplete ==
  /\ stage = "assign" => ~job.diff
  /\ stage # "idle" /\ job.diff => NodesByDoc(job.doc) \subseteq job.existing \cup Matched
  /\ stage \in {"orphan", "content", "document", "rows", "activity"} /\ job.diff =>
       \A u \in Unmatched : ~IsActive(u)

PowerInv ==
  /\ TypeInv /\ FreshUuids
  /\ powered \in BOOLEAN /\ losses \in 0 .. MaxLosses
  /\ ~powered => stage = "idle" /\ job = NoJob /\ durable # NotSynced
  /\ durable # NotSynced => losses < MaxLosses \/ ~powered
  /\ OwnRows /\ WrittenRows /\ DiffComplete /\ FilesFirst
  /\ Survivable(Snapshot)
  /\ durable # NotSynced => Survivable(durable)
=============================================================================
