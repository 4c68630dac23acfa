--------------------------- MODULE IdentityLedger ---------------------------
(***************************************************************************)
(* What text-runtime promises about a node UUID, without saying how an     *)
(* ingestion keeps the promise: a UUID is published once, for one          *)
(* document; while it is active its version may stay or grow by one; once  *)
(* it is deleted nothing happens to it any more.  Everything that holds a  *)
(* UUID from outside (an annotation, a transclusion edge, an agent's       *)
(* marker map) rests on these four sentences.                              *)
(***************************************************************************)
EXTENDS Naturals

CONSTANTS Uuid,  \* every node UUID the allocator can hand out
          Doc    \* every document

VARIABLE ledger  \* the nodes table, reduced to [uuid -> doc, version, status]

Entry == [doc: Doc, version: Nat, status: {"active", "deleted"}]

TypeOK == /\ DOMAIN ledger \subseteq Uuid
          /\ ledger \in [DOMAIN ledger -> Entry]

Init == ledger = [u \in {} |-> [doc |-> 0, version |-> 0, status |-> "deleted"]]

IsActive(u) == u \in DOMAIN ledger /\ ledger[u].status = "active"

(* A UUID nobody has seen becomes a node of document d. *)
Publish(u, d) ==
  /\ u \notin DOMAIN ledger
  /\ ledger' = [v \in DOMAIN ledger \cup {u} |->
                  IF v = u THEN [doc |-> d, version |-> 1, status |-> "active"]
                           ELSE ledger[v]]

(* An active node is rewritten: kept (k = 0) or updated (k = 1). *)
Revise(u, k) ==
  /\ IsActive(u)
  /\ ledger' = [ledger EXCEPT ![u].version = @ + k]

Retire(u) ==
  /\ IsActive(u)
  /\ ledger' = [ledger EXCEPT ![u].status = "deleted"]

Next == \E u \in Uuid : \/ \E d \in Doc : Publish(u, d)
                        \/ \E k \in {0, 1} : Revise(u, k)
                        \/ Retire(u)

Spec == Init /\ [][Next]_ledger

-----------------------------------------------------------------------------
(* No entry is ever forgotten, moved to another document or set back to an *)
(* older version, and a deleted one never changes again.                   *)
NeverReversed ==
  \A u \in DOMAIN ledger :
     /\ u \in DOMAIN ledger'
     /\ ledger'[u].doc = ledger[u].doc
     /\ ledger'[u].version >= ledger[u].version
     /\ ledger[u].status = "deleted" => ledger'[u] = ledger[u]

IdentityIsForever == [][NeverReversed]_ledger
=============================================================================
