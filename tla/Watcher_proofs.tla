--------------------------- MODULE Watcher_proofs ---------------------------
(***************************************************************************)
(* The safety of the watcher for any number of files, contents and saves.  *)
(***************************************************************************)
EXTENDS Watcher, TLAPS

USE DistinctValues, BoundIsNatural

\* The watcher starts with nothing changed, nothing cached and nothing announced.
LEMMA InitInv == Init => WatcherInv
<1> SUFFICES ASSUME Init PROVE WatcherInv
  OBVIOUS
<1>1. disk \in [Path -> File \cup {Gone}] /\ \A p \in Path : disk[p] # Gone => disk[p].stamp = 0
  BY DEF Init, File
<1>2. TypeOK
  <2>1. events \in Seq(Event) /\ pending \in [Path -> Update \cup {NoUpdate}]
        /\ batch \in [Path -> Update \cup {NoUpdate}]
    BY DEF Init, Nothing
  <2>2. clock \in Nat /\ cancelled \in BOOLEAN /\ cache \in [Path -> Nat \cup {NoStat}]
        /\ stored \in [Path -> Body \cup {Gone}] /\ missed \in [Path -> Nat \cup {NoStat}]
        /\ changed \in SUBSET Path
    BY DEF Init
  <2>3. pc = "idle" /\ path = NoPath /\ seen = NoStat
    BY DEF Init
  <2> QED  BY <1>1, <2>1, <2>2, <2>3 DEF TypeOK
<1>3. StampsPast /\ SeenTells /\ SavedSince /\ StatTellsContents /\ NothingForgotten
  BY <1>1 DEF Init, StampsPast, SeenTells, SavedSince, StatTellsContents, NothingForgotten
<1> QED  BY <1>2, <1>3 DEF WatcherInv

\* What is announced of a path stays announced when an event is raised for another.
LEMMA OthersRaise ==
  ASSUME TypeOK, NEW e \in Event, events' = Append(events, e),
         UNCHANGED <<pending, batch, pc, path>>,
         NEW p \in Path, p # e.path, Announced(p)
  PROVE  Announced(p)'
<1>1. /\ Len(events') = Len(events) + 1
      /\ \A i \in 1 .. Len(events) : events'[i] = events[i]
      /\ events'[Len(events) + 1] = e
      /\ Len(events) \in Nat
  BY DEF TypeOK
<1>2. CASE Queued(p)
  BY <1>1, <1>2 DEF Queued, Announced
<1>3. CASE Quiet(p)
  <2>1. Quiet(p)'
    BY <1>1, <1>3 DEF Quiet
  <2> QED  BY <2>1 DEF Announced, Queued, InHand, Quiet
<1>4. CASE InHand(p)
  BY <1>4 DEF Announced, InHand
<1> QED  BY <1>2, <1>3, <1>4 DEF Announced

\* The same of the queue alone.
LEMMA OthersQueue ==
  ASSUME TypeOK, NEW e \in Event, events' = Append(events, e), NEW p \in Path, p # e.path, Queued(p)
  PROVE  Queued(p)'
<1>1. /\ Len(events') = Len(events) + 1
      /\ \A i \in 1 .. Len(events) : events'[i] = events[i]
      /\ events'[Len(events) + 1] = e
      /\ Len(events) \in Nat
  BY DEF TypeOK
<1> QED  BY <1>1 DEF Queued

LEMMA JustQueued ==
  ASSUME TypeOK, NEW p \in Path, events' = Append(events, Modified(p))
  PROVE  Queued(p)'
<1>1. /\ Len(events') = Len(events) + 1
      /\ events'[Len(events) + 1] = Modified(p)
      /\ Len(events) \in Nat
  BY DEF TypeOK, Modified, Event, Update
<1> QED  BY <1>1 DEF Queued

\* A modification that has just been raised is the last word about its path.
LEMMA JustRaised ==
  ASSUME TypeOK, NEW p \in Path, events' = Append(events, Modified(p))
  PROVE  Announced(p)'
  BY JustQueued DEF Announced

\* A save, a removal and a cancellation.
LEMMA SaveInv == ASSUME WatcherInv, pc # "stopped", NEW q \in Path, NEW b \in Body, Save(q, b)
                 PROVE  WatcherInv'
<1> USE DEF WatcherInv
<1>1. TypeOK'
  BY DEF TypeOK, Save, Modified, File, Event, Update, store
<1>2. StampsPast'
  BY DEF TypeOK, StampsPast, Save, File, store
<1>3. SeenTells'
  BY DEF TypeOK, StampsPast, SeenTells, Save, Current, File, store
<1>4. StatTellsContents'
  BY DEF TypeOK, StampsPast, StatTellsContents, Save, Current, File, store
<1>5. SavedSince'
  <2>1. CASE path = q
    <3>1. \A v : v = disk'[q].stamp => v = clock
      BY DEF Save, TypeOK
    <3>2. Queued(q)'
      BY JustQueued DEF Save
    <3> QED  BY <2>1, <3>1, <3>2 DEF TypeOK, StampsPast, SavedSince, Save
  <2>2. CASE path # q
    <3>1. path \in Path => disk'[path] = disk[path]
      BY <2>2 DEF Save, TypeOK
    <3>2. path \in Path /\ Queued(path) => Queued(path)'
      BY <2>2, OthersQueue DEF Save, Modified, Event, Update
    <3> QED  BY <3>1, <3>2 DEF TypeOK, SavedSince, Save
  <2> QED  BY <2>1, <2>2
<1>6. NothingForgotten'
  <2> SUFFICES ASSUME NEW p \in changed'
               PROVE  disk'[p] = Gone \/ Current(p)' \/ Announced(p)'
    BY DEF NothingForgotten
  <2>1. CASE p = q
    BY <2>1, JustRaised DEF Save
  <2>2. CASE p # q
    <3>1. p \in changed /\ p \in Path /\ disk'[p] = disk[p] /\ (Current(p) => Current(p)')
      BY <2>2 DEF Save, TypeOK, Current, store
    <3>2. Announced(p) => Announced(p)'
      BY <2>2, <3>1, OthersRaise DEF Save, Modified, Event, Update
    <3> QED  BY <3>1, <3>2 DEF NothingForgotten
  <2> QED  BY <2>1, <2>2
<1> QED  BY <1>1, <1>2, <1>3, <1>4, <1>5, <1>6

LEMMA RemoveInv == ASSUME WatcherInv, pc # "stopped", NEW q \in Path, Remove(q)
                   PROVE  WatcherInv'
<1> USE DEF WatcherInv
<1>1. TypeOK'
  BY DEF TypeOK, Remove, Removed, File, Event, Update, store
<1>2. StampsPast'
  BY DEF TypeOK, StampsPast, Remove, File, store
<1>3. SeenTells' /\ StatTellsContents'
  BY DEF TypeOK, SeenTells, StatTellsContents, Remove, Current, File, store
<1>4. SavedSince'
  <2>1. CASE path = q
    BY <2>1 DEF Remove, SavedSince, TypeOK
  <2>2. CASE path # q
    <3>1. path \in Path => disk'[path] = disk[path]
      BY <2>2 DEF Remove, TypeOK
    <3>2. path \in Path /\ Queued(path) => Queued(path)'
      BY <2>2, OthersQueue DEF Remove, Removed, Event, Update
    <3> QED  BY <3>1, <3>2 DEF TypeOK, SavedSince, Remove
  <2> QED  BY <2>1, <2>2
<1>5. NothingForgotten'
  <2> SUFFICES ASSUME NEW p \in changed, p # q, p \in Path
               PROVE  disk'[p] = Gone \/ Current(p)' \/ Announced(p)'
    BY DEF NothingForgotten, Remove, TypeOK
  <2>1. disk'[p] = disk[p] /\ (Current(p) => Current(p)')
    BY DEF Remove, TypeOK, Current, store
  <2>2. Announced(p) => Announced(p)'
    BY OthersRaise DEF Remove, Removed, Event, Update
  <2> QED  BY <2>1, <2>2 DEF NothingForgotten
<1> QED  BY <1>1, <1>2, <1>3, <1>4, <1>5

\* Whoever ingests a file leaves its contents current, and no other's less so.
LEMMA IngestCurrent == ASSUME TypeOK, UNCHANGED disk, NEW q \in Path, IngestFile(q)
                       PROVE  /\ disk[q] # Gone => Current(q)'
                              /\ \A p \in Path : Current(p) => Current(p)'
                              /\ stored' \in [Path -> Body \cup {Gone}]
                              /\ missed' \in [Path -> Nat \cup {NoStat}]
                              /\ StampsPast /\ clock' = clock =>
                                   \A p \in Path : missed'[p] # NoStat => missed'[p] < clock'
<1>1. disk[q] # Gone => Current(q)'
  BY DEF TypeOK, IngestFile, Miss, Current, File
<1>2. \A p \in Path : p # q => (Current(p) => Current(p)')
  BY DEF TypeOK, IngestFile, Miss, Current, File, store
<1>3. disk[q] = Gone => UNCHANGED store
  BY DEF IngestFile
<1>4. \A p \in Path : Current(p) => Current(p)'
  BY <1>1, <1>2, <1>3 DEF Current, store
<1>5. stored' \in [Path -> Body \cup {Gone}] /\ missed' \in [Path -> Nat \cup {NoStat}]
  BY DEF TypeOK, IngestFile, Miss, File, store
<1>6. StampsPast /\ clock' = clock => \A p \in Path : missed'[p] # NoStat => missed'[p] < clock'
  BY DEF TypeOK, StampsPast, IngestFile, Miss, File, store
<1> QED  BY <1>1, <1>4, <1>5, <1>6

\* An error with the version on disk makes that version current, and no other's less so.
LEMMA MissCurrent == ASSUME TypeOK, StampsPast, UNCHANGED <<disk, clock>>, NEW q \in Path, disk[q] # Gone,
                            Miss(q, disk[q].stamp)
                     PROVE  /\ Current(q)'
                            /\ \A p \in Path : Current(p) => Current(p)'
                            /\ stored' = stored /\ missed' \in [Path -> Nat \cup {NoStat}]
                            /\ \A p \in Path : missed'[p] # NoStat => missed'[p] < clock'
<1>1. IngestFile(q)
  BY DEF IngestFile
<1> QED  BY <1>1, IngestCurrent DEF Miss

\* A client's own ingestion, and the token.
LEMMA RequestInv == ASSUME WatcherInv, pc # "stopped", NEW q \in Path, Request(q)
                    PROVE  WatcherInv'
<1> USE DEF WatcherInv
<1>1. \A p \in Path : Current(p) => Current(p)'
  BY IngestCurrent DEF Request, disks
<1>2. TypeOK'
  BY IngestCurrent DEF TypeOK, Request, disks
<1>3. StampsPast'
  <2>1. \A p \in Path : missed'[p] # NoStat => missed'[p] < clock'
    BY IngestCurrent DEF Request, disks
  <2> QED  BY <2>1 DEF StampsPast, Request, disks
<1>4. SeenTells' /\ SavedSince' /\ StatTellsContents'
  BY <1>1 DEF TypeOK, SeenTells, SavedSince, StatTellsContents, Queued, Request, disks
<1>5. \A p : Announced(p) => Announced(p)'
  BY DEF Announced, Quiet, Queued, InHand, Request, disks
<1>6. NothingForgotten'
  BY <1>1, <1>5 DEF TypeOK, NothingForgotten, Request, disks
<1> QED  BY <1>2, <1>3, <1>4, <1>6

LEMMA CancelInv == ASSUME WatcherInv, pc # "stopped", Cancel  PROVE WatcherInv'
  BY DEF WatcherInv, TypeOK, StampsPast, SeenTells, SavedSince, StatTellsContents, NothingForgotten, Cancel,
         disks, store, Current, Announced, Quiet, Queued, InHand

\* The select.
LEMMA StopInv == ASSUME WatcherInv, Stop  PROVE WatcherInv'
  BY DEF WatcherInv, TypeOK, StampsPast, SeenTells, SavedSince, StatTellsContents, NothingForgotten, Stop,
         Selecting, disks, store, Current

LEMMA ReceiveInv == ASSUME WatcherInv, Receive  PROVE WatcherInv'
<1> USE DEF WatcherInv
<1> DEFINE e == Head(events)
<1>1. /\ e \in Event /\ e = events[1]
      /\ events' \in Seq(Event)
      /\ Len(events') = Len(events) - 1
      /\ Len(events) \in Nat \ {0}
      /\ \A i \in 1 .. Len(events') : events'[i] = events[i + 1]
  BY DEF TypeOK, Receive
<1>2. pending' = [pending EXCEPT ![e.path] = e.kind]
  BY DEF Receive, Noted
<1>3. TypeOK'
  BY <1>1, <1>2 DEF TypeOK, Receive, Event, disks, store
<1>4. StampsPast' /\ SeenTells' /\ SavedSince' /\ StatTellsContents'
  BY DEF StampsPast, SeenTells, SavedSince, StatTellsContents, Receive, Selecting, disks, store, Current
<1>5. ASSUME NEW p \in Path, Announced(p)
      PROVE  Announced(p)'
  <2>1. CASE Queued(p)
    <3> PICK i \in 1 .. Len(events) : /\ events[i] = Modified(p)
                                      /\ \A j \in (i + 1) .. Len(events) : events[j].path # p
      BY <2>1 DEF Queued
    <3>1. CASE i = 1
      <4>1. Quiet(p)'
        BY <1>1, <3>1 DEF Quiet
      <4>2. pending'[p] = "modified"
        BY <1>1, <1>2, <3>1 DEF TypeOK, Modified
      <4> QED  BY <4>1, <4>2 DEF Announced
    <3>2. CASE i # 1
      <4>1. i - 1 \in 1 .. Len(events') /\ events'[i - 1] = Modified(p)
        BY <1>1, <3>2 DEF Modified
      <4>2. \A j \in ((i - 1) + 1) .. Len(events') : events'[j].path # p
        BY <1>1, <3>2
      <4>3. Queued(p)'
        BY <4>1, <4>2 DEF Queued, Modified
      <4> QED  BY <4>3 DEF Announced
    <3> QED  BY <3>1, <3>2
  <2>2. CASE Quiet(p) /\ ~InHand(p)
    <3>1. Quiet(p)' /\ e.path # p
      BY <1>1, <2>2 DEF Quiet
    <3>2. pending'[p] = pending[p] /\ batch' = batch
      BY <1>2, <3>1 DEF TypeOK, Receive
    <3> QED  BY <1>5, <2>2, <3>1, <3>2 DEF Announced, Queued, Quiet, Modified
  <2>3. CASE InHand(p)
    BY <2>3 DEF InHand, Receive, Selecting
  <2> QED  BY <1>5, <2>1, <2>2, <2>3 DEF Announced
<1>6. NothingForgotten'
  BY <1>5 DEF TypeOK, NothingForgotten, Receive, disks, store, Current
<1> QED  BY <1>3, <1>4, <1>6

LEMMA FireInv == ASSUME WatcherInv, Fire  PROVE WatcherInv'
<1> USE DEF WatcherInv
<1>1. TypeOK' /\ StampsPast' /\ SeenTells' /\ SavedSince' /\ StatTellsContents'
  BY DEF TypeOK, StampsPast, SeenTells, SavedSince, StatTellsContents, Fire, Selecting, Nothing, disks, store, Current
<1>2. \A p \in Path : Announced(p) => Announced(p)'
  BY DEF TypeOK, Fire, Selecting, Nothing, Announced, Quiet, Queued, InHand
<1>3. NothingForgotten'
  BY <1>2 DEF TypeOK, NothingForgotten, Fire, disks, store, Current
<1> QED  BY <1>1, <1>3

\* The batch.
LEMMA ForgetRemovedInv == ASSUME WatcherInv, NEW q \in Path, ForgetRemoved(q)  PROVE WatcherInv'
<1> USE DEF WatcherInv
<1>1. TypeOK' /\ StampsPast' /\ SeenTells' /\ SavedSince' /\ StatTellsContents'
  BY DEF TypeOK, StampsPast, SeenTells, SavedSince, StatTellsContents, ForgetRemoved, File, disks, store, Current
<1>2. \A p \in Path : Announced(p) => Announced(p)'
  BY DEF TypeOK, ForgetRemoved, Announced, Quiet, Queued, InHand
<1>3. NothingForgotten'
  BY <1>2 DEF TypeOK, NothingForgotten, ForgetRemoved, disks, store, Current
<1> QED  BY <1>1, <1>3

LEMMA TakeModifiedInv == ASSUME WatcherInv, NEW q \in Path, TakeModified(q)  PROVE WatcherInv'
<1> USE DEF WatcherInv
<1>0. /\ \A p \in Path : Current(p) => Current(p)'
      /\ stored' = stored /\ missed' \in [Path -> Nat \cup {NoStat}]
      /\ \A p \in Path : missed'[p] # NoStat => missed'[p] < clock'
      /\ UNCHANGED <<disk, clock, cache, changed, seen, events, pending, cancelled>>
  <2>1. UNCHANGED <<disk, clock, cache, changed, seen, events, pending, cancelled>>
    BY DEF TakeModified, disks
  <2>2. CASE UNCHANGED store
    BY <2>1, <2>2 DEF TypeOK, StampsPast, store, Current
  <2>3. CASE disk[q] # Gone /\ Miss(q, disk[q].stamp)
    BY <2>1, <2>3, MissCurrent
  <2> QED  BY <2>2, <2>3, <2>1 DEF TakeModified
<1>1. TypeOK' /\ StampsPast' /\ SeenTells' /\ SavedSince' /\ StatTellsContents'
  <2>1. TypeOK'
    BY <1>0 DEF TypeOK, TakeModified
  <2>2. StampsPast'
    BY <1>0 DEF StampsPast
  <2>3. SeenTells' /\ SavedSince' /\ StatTellsContents'
    BY <1>0 DEF SeenTells, SavedSince, StatTellsContents, TakeModified
  <2> QED  BY <2>1, <2>2, <2>3
<1>2. \A p \in Path : Announced(p) => Announced(p)' \/ p = q
  BY DEF TypeOK, TakeModified, Announced, Quiet, Queued, InHand
<1>3. disk[q] = Gone \/ Announced(q)' \/ Current(q)'
  <2>1. CASE disk[q] # Gone /\ Miss(q, disk[q].stamp)
    BY <1>0, <2>1, MissCurrent
  <2> QED  BY <2>1 DEF TakeModified, Announced, InHand
<1>4. NothingForgotten'
  BY <1>0, <1>2, <1>3 DEF TypeOK, NothingForgotten, TakeModified
<1> QED  BY <1>1, <1>4

\* Leaving a path that is gone, or whose contents are current, forgets nothing.
LEMMA DoneForgetsNothing ==
  ASSUME TypeOK, NothingForgotten, pc # "stopped", NEW q \in Path, path = q, Done,
         UNCHANGED <<disk, changed, events, pending, batch>>,
         \A p \in Path : Current(p) => Current(p)',
         disk[q] = Gone \/ Current(q)' \/ pc = "remember"
  PROVE  NothingForgotten'
<1>1. \A p \in Path : Announced(p) => Announced(p)' \/ (p = q /\ pc # "remember")
  BY DEF Done, Announced, Quiet, Queued, InHand
<1> QED  BY <1>1 DEF TypeOK, NothingForgotten

LEMMA StatInv == ASSUME WatcherInv, Stat  PROVE WatcherInv'
<1> USE DEF WatcherInv
<1> PICK q \in Path : q = path
  BY DEF TypeOK, Stat
<1>0. /\ path = q /\ pc = "stat" /\ UNCHANGED <<disks, events, cancelled, pending, batch>>
      /\ UNCHANGED <<disk, clock, changed>>
  BY DEF TypeOK, Stat, disks
<1>1. CASE Done /\ (IF disk[q] = Gone THEN UNCHANGED store ELSE Miss(q, disk[q].stamp))
                /\ cache' = [cache EXCEPT ![q] = NoStat]
  <2>1. /\ disk[q] = Gone \/ Current(q)'
        /\ \A p \in Path : Current(p) => Current(p)'
        /\ stored' = stored /\ missed' \in [Path -> Nat \cup {NoStat}]
        /\ \A p \in Path : missed'[p] # NoStat => missed'[p] < clock'
    <3>1. CASE disk[q] = Gone
      BY <1>0, <1>1, <3>1 DEF TypeOK, StampsPast, store, Current
    <3>2. CASE disk[q] # Gone
      <4>1. Miss(q, disk[q].stamp)
        BY <1>1, <3>2
      <4> QED  BY <1>0, <3>2, <4>1, MissCurrent
    <3> QED  BY <3>1, <3>2
  <2>2. TypeOK'
    BY <1>0, <1>1, <2>1 DEF TypeOK, Done
  <2>3. StampsPast'
    BY <1>0, <1>1, <2>1 DEF TypeOK, StampsPast, Done
  <2>4. SeenTells' /\ SavedSince' /\ StatTellsContents'
    BY <1>0, <1>1, <2>1 DEF TypeOK, SeenTells, SavedSince, StatTellsContents, Done, File
  <2>5. NothingForgotten'
    BY <1>0, <1>1, <2>1, DoneForgetsNothing
  <2> QED  BY <2>2, <2>3, <2>4, <2>5
<1>2. CASE disk[q] # Gone /\ Unchanged(q, disk[q]) /\ Done /\ UNCHANGED <<cache, store>>
  <2>1. Current(q)' /\ \A p \in Path : Current(p) => Current(p)'
    <3>1. Current(q)
      BY <1>0, <1>2 DEF Unchanged, StatTellsContents
    <3> QED  BY <1>0, <1>2, <3>1 DEF store, Current
  <2>2. TypeOK' /\ StampsPast' /\ SeenTells' /\ SavedSince' /\ StatTellsContents'
    BY <1>0, <1>2, <2>1 DEF TypeOK, StampsPast, SeenTells, SavedSince, StatTellsContents, Done, store
  <2>3. NothingForgotten'
    BY <1>0, <1>2, <2>1, DoneForgetsNothing
  <2> QED  BY <2>2, <2>3
<1>3. CASE /\ disk[q] # Gone /\ ~Unchanged(q, disk[q])
           /\ seen' = disk[q].stamp /\ pc' = "hash" /\ UNCHANGED <<cache, path, store>>
  <2>1. TypeOK' /\ StampsPast'
    BY <1>0, <1>3 DEF TypeOK, StampsPast, File, store
  <2>2. SeenTells' /\ SavedSince' /\ StatTellsContents'
    BY <1>0, <1>3 DEF SeenTells, SavedSince, StatTellsContents, Unchanged, store, Current
  <2>3. \A p \in Path : Announced(p) => Announced(p)'
    BY <1>0, <1>3 DEF Announced, Quiet, Queued, InHand
  <2>4. NothingForgotten'
    BY <1>0, <1>3, <2>3 DEF TypeOK, NothingForgotten, store, Current
  <2> QED  BY <2>1, <2>2, <2>4
<1> QED  BY <1>0, <1>1, <1>2, <1>3 DEF Stat

LEMMA HashInv == ASSUME WatcherInv, Hash  PROVE WatcherInv'
<1> USE DEF WatcherInv
<1> PICK q \in Path : q = path
  BY DEF TypeOK, Hash
<1>0. /\ path = q /\ pc = "hash" /\ seen \in Nat
      /\ UNCHANGED <<disk, clock, changed, events, cancelled, pending, batch, cache>>
  BY DEF TypeOK, Hash, disks
<1>1. CASE Miss(q, seen) /\ Done
  <2>1. missed' = [missed EXCEPT ![q] = seen] /\ stored' = stored
    BY <1>1 DEF Miss
  <2>2. /\ \A p \in Path : p # q => (Current(p) => Current(p)')
        /\ disk[q] # Gone /\ disk[q].stamp = seen => Current(q)'
    <3>1. missed'[q] = seen /\ \A p \in Path : p # q => missed'[p] = missed[p]
      BY <1>0, <2>1 DEF TypeOK
    <3> QED  BY <1>0, <2>1, <3>1 DEF Current
  <2>3. TypeOK' /\ StampsPast' /\ SeenTells' /\ SavedSince'
    BY <1>0, <1>1, <2>1 DEF TypeOK, StampsPast, SeenTells, SavedSince, Done
  <2>4. StatTellsContents'
    BY <1>0, <2>2 DEF StatTellsContents, SavedSince
  <2>5. ASSUME NEW p \in changed  PROVE disk[p] = Gone \/ Current(p)' \/ Announced(p)'
    <3>1. CASE p = q
      <4>1. disk[q] = Gone \/ disk[q].stamp = seen \/ Queued(q)
        BY <1>0 DEF SavedSince
      <4>2. Queued(q) => Announced(p)'
        BY <1>0, <3>1 DEF Announced, Queued
      <4> QED  BY <2>2, <3>1, <4>1, <4>2
    <3>2. CASE p # q
      <4>1. Announced(p) => Announced(p)'
        BY <1>0, <1>1, <3>2 DEF Done, Announced, Quiet, Queued, InHand
      <4> QED  BY <1>0, <2>2, <3>2, <4>1 DEF TypeOK, NothingForgotten
    <3> QED  BY <3>1, <3>2
  <2>6. NothingForgotten'
    BY <1>0, <2>5 DEF NothingForgotten
  <2> QED  BY <2>3, <2>4, <2>6
<1>2. CASE disk[q] # Gone /\ pc' = "ingest" /\ UNCHANGED <<path, seen, store>>
  <2>1. TypeOK' /\ StampsPast'
    BY <1>0, <1>2 DEF TypeOK, StampsPast, store
  <2>2. SeenTells' /\ SavedSince' /\ StatTellsContents'
    BY <1>0, <1>2 DEF SeenTells, SavedSince, StatTellsContents, Queued, store, Current
  <2>3. \A p \in Path : Announced(p) => Announced(p)'
    BY <1>0, <1>2 DEF Announced, Quiet, Queued, InHand
  <2>4. NothingForgotten'
    BY <1>0, <1>2, <2>3 DEF TypeOK, NothingForgotten, store, Current
  <2> QED  BY <2>1, <2>2, <2>4
<1> QED  BY <1>0, <1>1, <1>2 DEF Hash

LEMMA IngestInv == ASSUME WatcherInv, Ingest  PROVE WatcherInv'
<1> USE DEF WatcherInv
<1>0. path \in Path /\ pc = "ingest" /\ IngestFile(path) /\ UNCHANGED <<disk, path>>
  BY DEF TypeOK, Ingest, disks
<1>1. (disk[path] # Gone => Current(path)') /\ \A p \in Path : Current(p) => Current(p)'
  BY <1>0, IngestCurrent
<1>2. TypeOK'
  BY <1>0, IngestCurrent DEF TypeOK, Ingest, disks
<1>3. StampsPast' /\ SeenTells' /\ SavedSince' /\ StatTellsContents'
  <2>1. \A p \in Path : missed'[p] # NoStat => missed'[p] < clock'
    BY <1>0, IngestCurrent DEF Ingest, disks
  <2>2. StampsPast'
    BY <1>0, <2>1 DEF StampsPast, Ingest, disks
  <2> QED  BY <1>0, <1>1, <2>2 DEF TypeOK, SeenTells, SavedSince, StatTellsContents, Ingest, disks
<1>4. \A p \in Path : Announced(p) => Announced(p)' \/ p = path
  BY DEF Ingest, disks, Announced, Quiet, Queued, InHand
<1>5. NothingForgotten'
  BY <1>0, <1>1, <1>4 DEF TypeOK, NothingForgotten, Ingest, disks
<1> QED  BY <1>2, <1>3, <1>5

LEMMA RememberInv == ASSUME WatcherInv, Remember  PROVE WatcherInv'
<1> USE DEF WatcherInv
<1>0. path \in Path /\ pc = "remember" /\ \A p \in Path : Current(p) => Current(p)'
  BY DEF TypeOK, Remember, disks, store, Current
<1>1. TypeOK'
  BY <1>0 DEF TypeOK, Remember, Remembered, Done, disks, store
<1>2. StampsPast'
  BY <1>0 DEF TypeOK, StampsPast, Remember, Remembered, Done, disks, store
<1>3. SeenTells' /\ SavedSince' /\ StatTellsContents'
  BY <1>0 DEF TypeOK, SeenTells, SavedSince, StatTellsContents, Remember, Remembered, Done, disks, store, Current
<1>4. NothingForgotten'
  <2> PICK q \in Path : path = q
    BY <1>0
  <2> QED  BY <1>0, DoneForgetsNothing DEF Remember, disks
<1> QED  BY <1>1, <1>2, <1>3, <1>4

LEMMA StutterInv == ASSUME WatcherInv, UNCHANGED vars  PROVE WatcherInv'
  BY DEF WatcherInv, TypeOK, StampsPast, SeenTells, SavedSince, StatTellsContents, NothingForgotten, vars,
         Current, Announced, Quiet, Queued, InHand

\* The invariant holds in every state the watcher reaches, whatever the editors,
\* the clients and the operator do meanwhile.
THEOREM WatcherInvariance == Spec => []WatcherInv
<1>1. WatcherInv /\ [Next]_vars => WatcherInv'
  BY SaveInv, RemoveInv, RequestInv, CancelInv, StopInv, ReceiveInv, FireInv, ForgetRemovedInv,
     TakeModifiedInv, StatInv, HashInv, IngestInv, RememberInv, StutterInv
     DEF Next, Watch, World, Batch
<1> QED  BY InitInv, <1>1, PTL DEF Spec

\* The types of the watcher's state.
THEOREM WatcherTypes == Spec => []TypeOK
<1>1. WatcherInv => TypeOK
  BY DEF WatcherInv
<1> QED  BY WatcherInvariance, <1>1, PTL

\* A saved change is never lost between the editor and the runtime.
THEOREM NoSaveLost == Spec => []NothingForgotten
<1>1. WatcherInv => NothingForgotten
  BY DEF WatcherInv
<1> QED  BY WatcherInvariance, <1>1, PTL

\* Skipping a file whose stat is the cached one is right.
THEOREM SkippingIsSafe == Spec => []StatTellsContents
<1>1. WatcherInv => StatTellsContents
  BY DEF WatcherInv
<1> QED  BY WatcherInvariance, <1>1, PTL
=============================================================================
