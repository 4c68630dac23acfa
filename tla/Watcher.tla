------------------------------- MODULE Watcher -------------------------------
(***************************************************************************)
(* The file watcher of one workspace (daemon/watcher.rs), the files it     *)
(* watches, and the clients that ingest the same files through the socket. *)
(*                                                                         *)
(* A file is its contents and a stamp that stands for (size, mtime): every *)
(* save gets a new one (files that are moved keep theirs, and are left     *)
(* out).  The operating system reports changes as events; an event that is *)
(* raised and not yet received may or may not have reached the channel, so *)
(* the watcher's timer may fire while events is not empty, although the    *)
(* select looks at the channel first.                                      *)
(***************************************************************************)
EXTENDS Naturals, Sequences

CONSTANTS Path,      \* files in the watched directories
          Body,      \* contents of a file
          Gone,      \* no such file
          NoStat,    \* no entry in the stat cache
          NoUpdate,  \* no entry in the pending map
          NoPath,
          MaxChanges \* bound on the number of saves and moves

ASSUME DistinctValues ==
    /\ NoUpdate \notin {"modified", "removed"}
    /\ Gone \notin [body : Body, stamp : Nat]
    /\ NoStat \notin Nat
    /\ NoPath \notin Path

ASSUME BoundIsNatural == MaxChanges \in Nat

VARIABLES
    disk,       \* the files
    clock,      \* the stamp of the next save
    events,     \* events raised and not yet received, oldest first
    cancelled,  \* the workspace's watcher_token
    pending,    \* the last update received for each path
    batch,      \* the part of the current batch that is still to be processed
    pc,         \* where the watcher stands; idle in the select and between paths
    path,       \* the path being processed
    seen,       \* its stat
    cache,      \* stat_cache
    stored,     \* the contents the runtime has last ingested from each path
    missed,     \* the version of each path at whose reading or ingestion an error last occurred
    changed     \* the paths saved since the directories were registered

disks == <<disk, clock, changed>>
store == <<stored, missed>>
vars  == <<disk, clock, events, cancelled, pending, batch, pc, path, seen, cache,
           stored, missed, changed>>

Update == {"modified", "removed"}
File   == [body : Body, stamp : Nat]
Event  == [path : Path, kind : Update]

TypeOK ==
    /\ disk \in [Path -> File \cup {Gone}]
    /\ clock \in Nat
    /\ events \in Seq(Event)
    /\ cancelled \in BOOLEAN
    /\ pending \in [Path -> Update \cup {NoUpdate}]
    /\ batch \in [Path -> Update \cup {NoUpdate}]
    /\ pc \in {"idle", "stat", "hash", "ingest", "remember", "stopped"}
    /\ path \in Path \cup {NoPath}
    /\ path = NoPath <=> pc \in {"idle", "stopped"}
    /\ seen \in Nat \cup {NoStat}
    /\ seen = NoStat <=> pc \in {"idle", "stopped", "stat"}
    /\ cache \in [Path -> Nat \cup {NoStat}]
    /\ stored \in [Path -> Body \cup {Gone}]
    /\ missed \in [Path -> Nat \cup {NoStat}]
    /\ changed \in SUBSET Path

\* The watcher starts on any directory: files that are there already, and are
\* stored or not, raise no event.
Nothing == [p \in Path |-> NoUpdate]

Init ==
    /\ disk \in [Path -> [body : Body, stamp : {0}] \cup {Gone}]
    /\ stored \in [Path -> Body \cup {Gone}]
    /\ clock = 1
    /\ events = <<>> /\ pending = Nothing /\ batch = Nothing
    /\ cancelled = FALSE
    /\ pc = "idle" /\ path = NoPath /\ seen = NoStat
    /\ cache = [p \in Path |-> NoStat]
    /\ missed = [p \in Path |-> NoStat] /\ changed = {}

(***************************************************************************)
(* The world: editors, clients of the socket, and whoever stops the        *)
(* workspace.                                                              *)
(***************************************************************************)
Modified(p) == [path |-> p, kind |-> "modified"]
Removed(p)  == [path |-> p, kind |-> "removed"]

\* One event per save; what a system raises beyond that (creation and write) meets
\* an update that is already in the map, or a stat that is already in the cache.
Save(p, b) ==
    /\ clock <= MaxChanges
    /\ disk' = [disk EXCEPT ![p] = [body |-> b, stamp |-> clock]]
    /\ clock' = clock + 1
    /\ changed' = changed \cup {p}
    /\ events' = Append(events, Modified(p))
    /\ UNCHANGED <<cancelled, pending, batch, pc, path, seen, cache, store>>

Remove(p) ==
    /\ disk[p] # Gone
    /\ disk' = [disk EXCEPT ![p] = Gone]
    /\ events' = Append(events, Removed(p))
    /\ UNCHANGED <<clock, cancelled, pending, batch, pc, path, seen, cache, store, changed>>

\* An error with a version of p, which is logged at most.  Nothing tries again: only
\* the event of another save leads back to the file.
Miss(p, version) == missed' = [missed EXCEPT ![p] = version] /\ UNCHANGED stored

\* The runtime reads the file and ingests it, or fails; the mutex of the runtime
\* is held throughout, and what an editor does after the read is not noticed.
IngestFile(p) ==
    \/ /\ disk[p] # Gone
       /\ stored' = [stored EXCEPT ![p] = disk[p].body]
       /\ missed' = [missed EXCEPT ![p] = NoStat]
    \/ /\ disk[p] # Gone
       /\ Miss(p, disk[p].stamp)
    \/ /\ disk[p] = Gone
       /\ UNCHANGED store

\* A client ingests a file itself (handle_ingest); the watcher's cache is not told.
Request(p) ==
    /\ IngestFile(p)
    /\ UNCHANGED <<disks, events, cancelled, pending, batch, pc, path, seen, cache>>

\* The workspace is removed, or the configuration without it is loaded.
Cancel ==
    /\ ~cancelled
    /\ cancelled' = TRUE
    /\ UNCHANGED <<disks, events, pending, batch, pc, path, seen, cache, store>>

(***************************************************************************)
(* The select: cancellation first, then events, then the timer.            *)
(***************************************************************************)
Selecting == pc = "idle" /\ batch = Nothing

SlipStopRequested == cancelled /\ events # <<>>
StopRequested == cancelled

Stop ==
    /\ Selecting /\ StopRequested
    /\ pc' = "stopped"
    /\ UNCHANGED <<disks, events, cancelled, pending, batch, path, seen, cache, store>>

\* handle_event: the last update of a path wins, whatever the comment there says.
SlipNoted(p, kind) == IF pending[p] = "removed" THEN "removed" ELSE kind
Noted(p, kind) == kind

Receive ==
    /\ Selecting /\ ~cancelled
    /\ events # <<>>
    /\ LET e == Head(events)
       IN  pending' = [pending EXCEPT ![e.path] = Noted(e.path, e.kind)]
    /\ events' = Tail(events)
    /\ UNCHANGED <<disks, cancelled, batch, pc, path, seen, cache, store>>

\* The debounce timer fires with something pending: the map becomes the batch.
Fire ==
    /\ Selecting /\ ~cancelled
    /\ pending # Nothing
    /\ batch' = pending
    /\ pending' = Nothing
    /\ UNCHANGED <<disks, events, cancelled, pc, path, seen, cache, store>>

(***************************************************************************)
(* The batch, one path after the other in any order (a HashMap), with no   *)
(* look at the token.                                                      *)
(***************************************************************************)
ForgetRemoved(p) ==
    /\ pc = "idle" /\ batch[p] = "removed"
    /\ batch' = [batch EXCEPT ![p] = NoUpdate]
    /\ cache' = [cache EXCEPT ![p] = NoStat]
    /\ UNCHANGED <<disks, events, cancelled, pending, pc, path, seen, store>>

\* is_file() is false of a file that is gone, or that cannot be looked up.
TakeModified(p) ==
    /\ pc = "idle" /\ batch[p] = "modified"
    /\ batch' = [batch EXCEPT ![p] = NoUpdate]
    /\ \/ disk[p] = Gone /\ UNCHANGED <<pc, path, store>>
       \/ disk[p] # Gone /\ Miss(p, disk[p].stamp) /\ UNCHANGED <<pc, path>>
       \/ disk[p] # Gone /\ pc' = "stat" /\ path' = p /\ UNCHANGED store
    /\ UNCHANGED <<disks, events, cancelled, pending, seen, cache>>

\* The next path: the locals of this one end.
Done == pc' = "idle" /\ path' = NoPath /\ seen' = NoStat

\* metadata(): an error, whether the file is gone or not, drops the entry; an equal
\* stat ends the path.
SlipKnown(p, file) == cache[p] # NoStat
Unchanged(p, file) == cache[p] = file.stamp

Stat ==
    /\ pc = "stat"
    /\ \/ /\ IF disk[path] = Gone THEN UNCHANGED store ELSE Miss(path, disk[path].stamp)
          /\ cache' = [cache EXCEPT ![path] = NoStat]
          /\ Done
       \/ /\ disk[path] # Gone
          /\ Unchanged(path, disk[path])
          /\ Done
          /\ UNCHANGED <<cache, store>>
       \/ /\ disk[path] # Gone
          /\ ~Unchanged(path, disk[path])
          /\ seen' = disk[path].stamp
          /\ pc' = "hash"
          /\ UNCHANGED <<cache, path, store>>
    /\ UNCHANGED <<disks, events, cancelled, pending, batch>>

\* The hash is computed and compared with nothing; only an error matters, which may
\* come of a file that is there too.  It ends the path, with the cache as it is.
Hash ==
    /\ pc = "hash"
    /\ \/ Miss(path, seen) /\ Done
       \/ disk[path] # Gone /\ pc' = "ingest" /\ UNCHANGED <<path, seen, store>>
    /\ UNCHANGED <<disks, events, cancelled, pending, batch, cache>>

\* With the runtime's mutex; an error is only logged.
Ingest ==
    /\ pc = "ingest"
    /\ IngestFile(path)
    /\ pc' = "remember"
    /\ UNCHANGED <<disks, events, cancelled, pending, batch, path, seen, cache>>

\* The stat taken before the ingestion is the one that is remembered.
SlipStatAgain(p) == IF disk[p] = Gone THEN seen ELSE disk[p].stamp
Remembered(p) == seen

Remember ==
    /\ pc = "remember"
    /\ cache' = [cache EXCEPT ![path] = Remembered(path)]
    /\ Done
    /\ UNCHANGED <<disks, events, cancelled, pending, batch, store>>

Batch == Stat \/ Hash \/ Ingest \/ Remember
         \/ \E p \in Path : ForgetRemoved(p) \/ TakeModified(p)
Watch == Stop \/ Receive \/ Fire \/ Batch
World == Cancel \/ \E p \in Path : Remove(p) \/ Request(p) \/ \E b \in Body : Save(p, b)
Next  == pc # "stopped" /\ (Watch \/ World)

Spec == Init /\ [][Next]_vars

\* The watcher is a task of the runtime: its timer fires, its reads return, and
\* the mutex, which queues in order and is held for single operations, comes.
FairSpec == Spec /\ WF_vars(Watch)

(***************************************************************************)
(* Properties                                                              *)
(***************************************************************************)
\* The runtime has the contents of p, or an error occurred with this very version of
\* them; an error with an earlier one is no excuse.
Current(p) == stored[p] = disk[p].body \/ missed[p] = disk[p].stamp

\* What has been announced about p and not yet looked at ends with a modification.
Quiet(p) == \A i \in 1 .. Len(events) : events[i].path # p
Queued(p) == \E i \in 1 .. Len(events) :
                /\ events[i] = Modified(p)
                /\ \A j \in (i + 1) .. Len(events) : events[j].path # p
InHand(p) == pc \in {"stat", "hash", "ingest"} /\ path = p
Announced(p) ==
    \/ Queued(p)
    \/ /\ Quiet(p)
       /\ \/ pending[p] = "modified"
          \/ pending[p] = NoUpdate /\ batch[p] = "modified"
    \/ InHand(p)

\* No saved change is lost on its way: as long as the watcher runs, a file whose
\* contents the runtime does not have is still announced by an event, in the
\* pending map, in the batch, or in hand before the ingestion reads it, unless an
\* error occurred with these contents.  An error with an older version does not
\* count: a save that comes while the watcher reads the file is announced behind it.
\* It holds because the last update of a path wins in handle_event and because the
\* batch never looks at the map again.
NothingForgotten ==
    pc # "stopped" => \A p \in changed : disk[p] = Gone \/ Current(p) \/ Announced(p)

\* "stat unchanged - skip (no content change possible)": a stat equal to the
\* cached one means that the runtime has these contents, or failed to ingest
\* them.  It holds because the stat is taken before the ingestion.
StatTellsContents ==
    \A p \in Path : disk[p] # Gone /\ cache[p] = disk[p].stamp => Current(p)

\* When editors come to rest, the runtime gets to have the last contents of every
\* changed file, but for those that met an error (nothing tries them again), or the
\* watcher is stopped.
Settles ==
    <>[](pc = "stopped" \/ \A p \in changed : disk[p] = Gone \/ Current(p))

\* A cancelled watcher ends, whatever its batch and its queue hold.
StopsWhenCancelled == cancelled ~> pc = "stopped"

(***************************************************************************)
(* What the two safety invariants rest on; with them it is inductive.      *)
(***************************************************************************)
\* Stamps known to anyone are older than the next save's.
StampsPast ==
    /\ \A p \in Path : disk[p] # Gone => disk[p].stamp < clock
    /\ \A p \in Path : cache[p] # NoStat => cache[p] < clock
    /\ \A p \in Path : missed[p] # NoStat => missed[p] < clock
    /\ seen # NoStat => seen < clock

\* A stat about to be remembered tells the contents just as one in the cache does.
SeenTells ==
    pc = "remember" /\ disk[path] # Gone /\ seen = disk[path].stamp => Current(path)

\* From the stat to the end of the path, a version that is not the one of the stat has
\* its event still in the channel: the batch receives none.  Until the ingestion the
\* cache does not know the version on disk, whichever that is.
SavedSince ==
    pc \in {"hash", "ingest"} /\ disk[path] # Gone =>
       /\ disk[path].stamp = seen \/ Queued(path)
       /\ cache[path] # disk[path].stamp

WatcherInv ==
    TypeOK /\ StampsPast /\ SeenTells /\ SavedSince /\ StatTellsContents /\ NothingForgotten
=============================================================================
