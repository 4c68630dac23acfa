--------------------------- MODULE Workspaces_proofs ---------------------------
(***************************************************************************)
(* The safety of the daemon's workspaces, for any number of names,         *)
(* connections, handles, watchers and reloads.                             *)
(***************************************************************************)
EXTENDS Workspaces, SequenceTheorems, TLAPS

USE BoundsAssumption, NamesAssumption

-----------------------------------------------------------------------------
\* What a task refers to has been opened, and it knows what its next step needs: n is the
\* number of handles.
Sound(t, r, n) ==
  /\ r \in TaskType
  /\ r.arc \in (1 .. n) \cup {None}
  /\ r.pc \in {"insert", "queue", "unwrap", "await"} => r.arc \in 1 .. n
  /\ r.pc \in {"insert", "get", "store"} => r.name \in Name
  /\ r.pc = "get" /\ t \in Conn => r.arc \in 1 .. n
  /\ r.pc = "store" => r.spawned \in Nat

\* The registry, the handles, the watchers and the tasks fit together.
References ==
  /\ registry \in [Name -> Handle \cup {None}]
  /\ handles \in Seq(HandleType)
  /\ watchers \in Seq(WatcherType)
  /\ \A w \in Watcher : watchers[w].on \in Handle /\ watchers[w].token \in Handle
  /\ task \in [Task -> TaskType]
  /\ \A t \in Task : Sound(t, task[t], Len(handles))

\* The token of a handle is cancelled, or somebody who will cancel it can find it.
WillCancel(k) ==
  \/ handles[k].cancelled \/ Registered(k)
  \/ \E t \in Task : task[t].pc = "unwrap" /\ task[t].arc = k

\* So is the token of each watcher, and the one a task is about to give to a watcher.
TokensLive ==
  /\ \A w \in Watcher : watchers[w].done \/ WillCancel(watchers[w].token)
  /\ \A t \in Task : task[t].pc = "get" /\ task[t].arc # None => WillCancel(task[t].arc)

\* The closing loop is alone, and has every name that is registered still before it.
ClosingAlone ==
  phase \in {"close", "stopped"} =>
     /\ Drained
     /\ task[Main].pc \in {"idle", "unwrap", "await"}
     /\ \A j \in jobs : j.op = "remove"
     /\ \A n \in Names : \E j \in jobs : j.op = "remove" /\ j.name = n

WorkspaceInv ==
  /\ TypeOK /\ References /\ ClosingAlone /\ NothingLeftRegistered
  /\ phase \notin {"close", "stopped"} => TokensLive

-----------------------------------------------------------------------------
\* The parts of References, named.
LEMMA ReferenceTypes ==
  ASSUME References
  PROVE  /\ Len(handles) \in Nat /\ Len(watchers) \in Nat
         /\ handles \in Seq(HandleType) /\ watchers \in Seq(WatcherType)
         /\ registry \in [Name -> (1 .. Len(handles)) \cup {None}]
         /\ \A h \in 1 .. Len(handles) :
               /\ handles[h] \in HandleType
               /\ handles[h].name \in Name /\ handles[h].cancelled \in BOOLEAN
               /\ handles[h].slot \in Nat \cup {None} /\ handles[h].queue \in Seq(Waiter)
         /\ \A w \in 1 .. Len(watchers) :
               /\ watchers[w] \in WatcherType
               /\ watchers[w].on \in 1 .. Len(handles) /\ watchers[w].token \in 1 .. Len(handles)
               /\ watchers[w].left \in 0 .. MaxBatch /\ watchers[w].done \in BOOLEAN
<1>1. /\ Len(handles) \in Nat /\ Len(watchers) \in Nat
      /\ handles \in Seq(HandleType) /\ watchers \in Seq(WatcherType)
      /\ registry \in [Name -> (1 .. Len(handles)) \cup {None}]
  BY LenProperties DEF References, Handle
<1>2. \A h \in 1 .. Len(handles) : handles[h] \in HandleType
  BY <1>1, ElementOfSeq
<1>3. \A w \in 1 .. Len(watchers) : watchers[w] \in WatcherType
  BY <1>1, ElementOfSeq
<1>4. \A w \in 1 .. Len(watchers) :
         watchers[w].on \in 1 .. Len(handles) /\ watchers[w].token \in 1 .. Len(handles)
  BY DEF References, Handle, Watcher
<1>5. \A h \in 1 .. Len(handles) :
         /\ handles[h].name \in Name /\ handles[h].cancelled \in BOOLEAN
         /\ handles[h].slot \in Nat \cup {None} /\ handles[h].queue \in Seq(Waiter)
  BY <1>2 DEF HandleType
<1>6. \A w \in 1 .. Len(watchers) :
         watchers[w].left \in 0 .. MaxBatch /\ watchers[w].done \in BOOLEAN
  BY <1>3 DEF WatcherType
<1> QED  BY <1>1, <1>2, <1>3, <1>4, <1>5, <1>6

\* A task that goes on with a sound record leaves the others sound.
LEMMA TaskGoesOn ==
  ASSUME References, NEW t \in Task, NEW r, NEW m \in Nat, m = Len(handles'), m >= Len(handles),
         Set(t, r), Sound(t, r, m)
  PROVE  task' \in [Task -> TaskType] /\ \A u \in Task : Sound(u, task'[u], m)
<1>1. task \in [Task -> TaskType] /\ \A u \in Task : Sound(u, task[u], Len(handles))
  BY DEF References
<1>2. task' = [task EXCEPT ![t] = r] /\ r \in TaskType
  BY DEF Set, Sound
<1>3. task' \in [Task -> TaskType] /\ task'[t] = r /\ \A u \in Task \ {t} : task'[u] = task[u]
  BY <1>1, <1>2
<1>4. Len(handles) \in Nat
  BY ReferenceTypes
<1>5. ASSUME NEW u \in Task, Sound(u, task[u], Len(handles)) PROVE Sound(u, task[u], m)
  <2>1. \A x \in 1 .. Len(handles) : x \in 1 .. m
    BY <1>4
  <2> QED  BY <1>5, <2>1 DEF Sound
<1> QED  BY <1>1, <1>3, <1>5

\* The other parts of References, when the registry and the watchers refer to handles.
LEMMA ReferencesNow ==
  ASSUME NEW m \in Nat, m = Len(handles'),
         registry' \in [Name -> (1 .. m) \cup {None}],
         handles' \in Seq(HandleType), watchers' \in Seq(WatcherType),
         \A w \in 1 .. Len(watchers') : watchers'[w].on \in 1 .. m /\ watchers'[w].token \in 1 .. m,
         task' \in [Task -> TaskType], \A u \in Task : Sound(u, task'[u], m)
  PROVE  References'
  BY DEF References, Handle, Watcher, Sound

\* Whoever waits at a handle, its name and its token stay the same when its slot or its
\* queue changes.
LEMMA OneHandle ==
  ASSUME References, NEW h \in 1 .. Len(handles), NEW e \in HandleType,
         handles' = [handles EXCEPT ![h] = e], handles[h].cancelled => e.cancelled
  PROVE  /\ handles' \in Seq(HandleType) /\ Len(handles') = Len(handles)
         /\ handles'[h] = e
         /\ \A k \in 1 .. Len(handles) : handles[k].cancelled => handles'[k].cancelled
  BY ReferenceTypes, ExceptSeq

\* A token that somebody would cancel still will be, when no name is taken away and no
\* unwrapping ends.
LEMMA StillCancelled ==
  ASSUME NEW k, WillCancel(k), handles[k].cancelled => handles'[k].cancelled,
         \A n \in Name : registry[n] = k => registry'[n] = k,
         \A t \in Task : task[t].pc = "unwrap" => task'[t] = task[t]
  PROVE  WillCancel(k)'
  BY DEF WillCancel, Registered

\* No watcher and no task needs a token to be cancelled but those that are.
LEMMA TokensStayLive ==
  ASSUME References, TokensLive, NEW t \in Task, NEW r, Set(t, r),
         \A k \in 1 .. Len(handles) : WillCancel(k) => WillCancel(k)',
         \A w \in 1 .. Len(watchers') :
            \/ watchers'[w].done
            \/ \E k \in 1 .. Len(handles) : k = watchers'[w].token /\ WillCancel(k)
            \/ w \in 1 .. Len(watchers) /\ watchers'[w] = watchers[w],
         r.pc = "get" /\ r.arc # None => WillCancel(r.arc)'
  PROVE  TokensLive'
<1>1. task' = [task EXCEPT ![t] = r] /\ task \in [Task -> TaskType]
  BY DEF Set, References
<1>2. ASSUME NEW w \in Watcher' PROVE (watchers[w].done \/ WillCancel(watchers[w].token))'
  <2>0. w \in 1 .. Len(watchers')
    BY DEF Watcher
  <2>1. ASSUME NEW k \in 1 .. Len(handles), k = watchers'[w].token, WillCancel(k)
        PROVE  WillCancel(watchers[w].token)'
    <3>1. WillCancel(k)'
      BY <2>1
    <3> QED  BY <2>1, <3>1 DEF WillCancel, Registered
  <2>2. CASE w \in 1 .. Len(watchers) /\ watchers'[w] = watchers[w]
    <3>1. watchers[w].done \/ WillCancel(watchers[w].token)
      BY <2>2 DEF TokensLive, Watcher
    <3>2. PICK k \in 1 .. Len(handles) : k = watchers[w].token
      BY <2>2, ReferenceTypes
    <3>3. watchers[w].done \/ WillCancel(k)
      BY <3>1, <3>2
    <3> QED  BY <2>1, <2>2, <3>2, <3>3
  <2> QED  BY <2>0, <2>1, <2>2
<1>3. ASSUME NEW u \in Task, task'[u].pc = "get", task'[u].arc # None PROVE WillCancel(task[u].arc)'
  <2>1. CASE u = t
    <3>1. task'[u] = r
      BY <1>1, <2>1
    <3>2. WillCancel(r.arc)'
      BY <1>3, <3>1
    <3> QED  BY <3>1, <3>2 DEF WillCancel, Registered
  <2>2. CASE u # t
    <3>1. task'[u] = task[u]
      BY <1>1, <2>2
    <3>2. PICK k \in 1 .. Len(handles) : k = task[u].arc
      BY <1>3, <3>1 DEF References, Sound
    <3>3. WillCancel(task[u].arc)
      BY <1>3, <3>1 DEF TokensLive
    <3>4. WillCancel(k)
      BY <3>2, <3>3
    <3>5. WillCancel(k)'
      BY <3>4
    <3> QED  BY <3>1, <3>2, <3>5 DEF WillCancel, Registered
  <2> QED  BY <2>1, <2>2
<1> QED  BY <1>2, <1>3 DEF TokensLive

-----------------------------------------------------------------------------
\* A task with nothing to do is sound.
LEMMA IdleSound ==
  ASSUME NEW t, NEW n \in Nat, NEW pc \in {"idle", "panicked", "closed"}
  PROVE  Sound(t, [Idle EXCEPT !.pc = pc], n) /\ Sound(t, Idle, n) /\ Idle.pc = "idle"
  BY DEF Sound, Idle, TaskType

\* A step of one task that takes no name away and neither adds nor changes a watcher.
LEMMA OneTask ==
  ASSUME References, NEW t \in Task, NEW r, Set(t, r), Sound(t, r, Len(handles)),
         task[t].pc # "unwrap", r.pc = "get" => r.arc = None,
         UNCHANGED <<registry, handles, watchers>>
  PROVE  References' /\ (TokensLive => TokensLive')
<1>1. PICK m \in Nat : m = Len(handles)
  BY ReferenceTypes
<1>2. task' \in [Task -> TaskType] /\ \A u \in Task : Sound(u, task'[u], m)
  BY <1>1, TaskGoesOn
<1>3. References'
  BY <1>1, <1>2, ReferencesNow, ReferenceTypes
<1>4. \A u \in Task : task[u].pc = "unwrap" => task'[u] = task[u]
  BY DEF Set, References
<1>5. \A k \in 1 .. Len(handles) : WillCancel(k) => WillCancel(k)'
  BY <1>4, StillCancelled
<1>6. TokensLive => TokensLive'
  BY <1>5, TokensStayLive
<1> QED  BY <1>3, <1>6

\* A new handle, unregistered so far.
LEMMA OpenRefs ==
  ASSUME References, NEW t \in Task, NEW n \in Name, NEW watch \in BOOLEAN, Open(t, n, watch),
         task[t].pc = "idle"
  PROVE  References' /\ (TokensLive => TokensLive')
<1> DEFINE e == [name |-> n, cancelled |-> FALSE, slot |-> None, queue |-> <<>>]
           r == [Idle EXCEPT !.pc = "insert", !.name = n, !.watch = watch, !.arc = Len(handles) + 1]
<1>1. PICK m \in Nat : m = Len(handles) + 1
  BY ReferenceTypes
<1>2. e \in HandleType
  BY EmptySeq DEF HandleType
<1>3. handles' = Append(handles, e) /\ Set(t, r) /\ UNCHANGED <<registry, watchers>>
  BY DEF Open
<1> HIDE DEF e
<1>4. /\ handles' \in Seq(HandleType) /\ Len(handles') = m
      /\ \A k \in 1 .. Len(handles) : handles'[k] = handles[k]
  BY <1>1, <1>2, <1>3, ReferenceTypes
<1>5. Sound(t, r, m) /\ r.pc = "insert"
  <2>1. Idle \in TaskType
    BY IdleSound DEF Sound
  <2>2. m \in 1 .. m
    BY <1>1, ReferenceTypes
  <2>3. r \in TaskType
    BY <1>1, <2>1 DEF TaskType
  <2>4. r.pc = "insert" /\ r.arc = m /\ r.name = n
    BY <1>1, <2>1 DEF TaskType
  <2> QED  BY <2>2, <2>3, <2>4 DEF Sound
<1> HIDE DEF r
<1>6. task' \in [Task -> TaskType] /\ \A u \in Task : Sound(u, task'[u], m)
  BY <1>1, <1>3, <1>4, <1>5, ReferenceTypes, TaskGoesOn
<1>7. \A x \in 1 .. Len(handles) : x \in 1 .. m
  BY <1>1
<1>8. References'
  <2>1. registry' \in [Name -> (1 .. m) \cup {None}]
    BY <1>3, <1>7, ReferenceTypes
  <2>2. watchers' \in Seq(WatcherType)
    BY <1>3, ReferenceTypes
  <2>3. \A w \in 1 .. Len(watchers') : watchers'[w].on \in 1 .. m /\ watchers'[w].token \in 1 .. m
    BY <1>3, <1>7, ReferenceTypes
  <2> QED  BY <1>4, <1>6, <2>1, <2>2, <2>3, ReferencesNow
<1>9. \A u \in Task : task[u].pc = "unwrap" => task'[u] = task[u]
  BY <1>3 DEF Set, References
<1>10. \A k \in 1 .. Len(handles) : WillCancel(k) => WillCancel(k)'
  BY <1>3, <1>4, <1>9, StillCancelled
<1>11. TokensLive => TokensLive'
  BY <1>3, <1>5, <1>10, TokensStayLive
<1> QED  BY <1>8, <1>11

\* A handle gets a name, or is dropped.
LEMMA InsertRefs ==
  ASSUME References, NEW t \in Task, Insert(t)
  PROVE  References' /\ (TokensLive => TokensLive')
<1>1. PICK m \in Nat : m = Len(handles)
  BY ReferenceTypes
<1>2. task[t].pc = "insert" /\ UNCHANGED <<handles, watchers>> /\ Sound(t, task[t], m)
  BY <1>1 DEF Insert, References
<1>3. CASE Finish(t) /\ UNCHANGED registry
  BY <1>2, <1>3, OneTask, IdleSound, ReferenceTypes DEF Finish
<1>4. CASE /\ Vacant(task[t].name)
           /\ registry' = [registry EXCEPT ![task[t].name] = task[t].arc]
           /\ IF task[t].watch THEN Set(t, [task[t] EXCEPT !.pc = "get"]) ELSE Finish(t)
  <2>1. task[t].name \in Name /\ task[t].arc \in 1 .. m
    BY <1>2 DEF Sound
  <2>2. /\ registry' \in [Name -> (1 .. m) \cup {None}]
        /\ registry'[task[t].name] = task[t].arc
        /\ \A n \in Name : registry[n] # None => registry'[n] = registry[n]
    BY <1>1, <1>4, <2>1, ReferenceTypes DEF Vacant
  <2>3. PICK r : /\ r = Idle \/ r = [task[t] EXCEPT !.pc = "get"]
                 /\ Set(t, r)
    BY <1>4 DEF Finish
  <2>4. [task[t] EXCEPT !.pc = "get"].arc = task[t].arc /\ Sound(t, [task[t] EXCEPT !.pc = "get"], m)
    BY <1>2 DEF Sound, TaskType
  <2>5. Sound(t, r, m) /\ (r.pc = "get" => r.arc = task[t].arc)
    BY <2>3, <2>4, IdleSound
  <2>6. task' \in [Task -> TaskType] /\ \A u \in Task : Sound(u, task'[u], m)
    BY <1>1, <1>2, <2>3, <2>5, TaskGoesOn
  <2>7. References'
    BY <1>1, <1>2, <2>2, <2>6, ReferencesNow, ReferenceTypes
  <2>8. \A u \in Task : task[u].pc = "unwrap" => task'[u] = task[u]
    BY <1>2, <2>3 DEF Set, References
  <2>9. \A k \in 1 .. Len(handles) : \A n \in Name : registry[n] = k => registry'[n] = k
    BY <2>2, ReferenceTypes
  <2>10. \A k \in 1 .. Len(handles) : WillCancel(k) => WillCancel(k)'
    BY <1>2, <2>8, <2>9, StillCancelled
  <2>11. r.pc = "get" => WillCancel(r.arc)'
    BY <2>1, <2>2, <2>5 DEF WillCancel, Registered
  <2>12. TokensLive => TokensLive'
    BY <1>2, <2>3, <2>10, <2>11, TokensStayLive
  <2> QED  BY <2>7, <2>12
<1> QED  BY <1>3, <1>4 DEF Insert

\* A watcher more, on a handle that is registered and with a token that will be cancelled.
LEMMA SpawnRefs ==
  ASSUME References, NEW t \in Task, task[t].pc = "get", NEW h \in 1 .. Len(handles), Registered(h),
         Spawn(t, h), NEW r, Set(t, r), Sound(t, r, Len(handles)), r.pc # "get",
         UNCHANGED registry, handles' \in Seq(HandleType), Len(handles') = Len(handles),
         \A k \in 1 .. Len(handles) : handles[k].cancelled => handles'[k].cancelled
  PROVE  References' /\ (TokensLive => TokensLive')
<1> DEFINE w0 == [on |-> h, token |-> TokenOf(t, h), left |-> 0, done |-> FALSE]
<1>1. PICK m \in Nat, l \in Nat : m = Len(handles) /\ l = Len(watchers)
  BY ReferenceTypes
<1>2. TokenOf(t, h) \in 1 .. m
  BY <1>1 DEF TokenOf, References, Sound
<1>3. w0 \in WatcherType /\ w0.on = h /\ w0.token = TokenOf(t, h)
  BY <1>1, <1>2 DEF WatcherType
<1>4. watchers' = Append(watchers, w0)
  BY DEF Spawn
<1> HIDE DEF w0
<1>5. /\ watchers' \in Seq(WatcherType) /\ Len(watchers') = l + 1 /\ watchers'[l + 1] = w0
      /\ \A w \in 1 .. l : watchers'[w] = watchers[w]
  BY <1>1, <1>3, <1>4, ReferenceTypes
<1>6. \A w \in 1 .. l + 1 : w = l + 1 \/ w \in 1 .. l
  OBVIOUS
<1>7. task' \in [Task -> TaskType] /\ \A u \in Task : Sound(u, task'[u], m)
  BY <1>1, TaskGoesOn
<1>8. References'
  <2>1. \A w \in 1 .. Len(watchers') : watchers'[w].on \in 1 .. m /\ watchers'[w].token \in 1 .. m
    BY <1>1, <1>2, <1>3, <1>5, <1>6, ReferenceTypes
  <2> QED  BY <1>1, <1>5, <1>7, <2>1, ReferencesNow, ReferenceTypes
<1>9. \A u \in Task : task[u].pc = "unwrap" => task'[u] = task[u]
  BY DEF Set, References
<1>10. \A k \in 1 .. Len(handles) : WillCancel(k) => WillCancel(k)'
  BY <1>9, StillCancelled
<1>11. ASSUME TokensLive PROVE WillCancel(TokenOf(t, h))
  BY <1>11 DEF TokenOf, TokensLive, WillCancel
<1>12. ASSUME TokensLive PROVE TokensLive'
  <2>1. ASSUME NEW w \in 1 .. Len(watchers')
        PROVE  \/ \E k \in 1 .. Len(handles) : k = watchers'[w].token /\ WillCancel(k)
               \/ w \in 1 .. Len(watchers) /\ watchers'[w] = watchers[w]
    BY <1>1, <1>2, <1>3, <1>5, <1>6, <1>11, <1>12
  <2> QED  BY <1>10, <1>12, <2>1, TokensStayLive
<1> QED  BY <1>8, <1>12

\* What a connection finds under the name it has inserted is registered.
LEMMA GetAndSpawnRefs ==
  ASSUME References, NEW t \in Task, GetAndSpawn(t)
  PROVE  References' /\ (TokensLive => TokensLive')
<1>1. PICK m \in Nat, l \in Nat : m = Len(handles) /\ l = Len(watchers)
  BY ReferenceTypes
<1>2. task[t].pc = "get" /\ Sound(t, task[t], m) /\ UNCHANGED <<registry, handles>>
  BY <1>1 DEF GetAndSpawn, References
<1>3. task[t].name \in Name
  BY <1>2 DEF Sound
<1>4. CASE registry[task[t].name] = None
  <2>1. Set(t, [Idle EXCEPT !.pc = "panicked"]) /\ UNCHANGED watchers
    BY <1>4 DEF GetAndSpawn
  <2>2. [Idle EXCEPT !.pc = "panicked"].pc = "panicked"
    BY DEF Idle
  <2> QED  BY <1>1, <1>2, <2>1, <2>2, OneTask, IdleSound
<1>5. CASE registry[task[t].name] # None
  <2>1. PICK h \in 1 .. Len(handles) : h = registry[task[t].name]
    BY <1>3, <1>5, ReferenceTypes
  <2>2. Registered(h)
    BY <1>3, <2>1 DEF Registered
  <2> DEFINE r == [task[t] EXCEPT !.pc = "store", !.spawned = Len(watchers) + 1]
  <2>3. Spawn(t, h) /\ Set(t, r)
    BY <1>5, <2>1 DEF GetAndSpawn
  <2>4. Sound(t, r, m) /\ r.pc # "get"
    <3>1. task[t] \in TaskType /\ task[t].name \in Name /\ task[t].arc \in (1 .. m) \cup {None}
      BY <1>2 DEF Sound
    <3>2. r = [task[t] EXCEPT !.pc = "store", !.spawned = l + 1] /\ l + 1 \in Nat
      BY <1>1
    <3> HIDE DEF r
    <3>3. r \in TaskType
      BY <3>1, <3>2 DEF TaskType
    <3>4. r.pc = "store" /\ r.spawned = l + 1 /\ r.name = task[t].name /\ r.arc = task[t].arc
      BY <3>1, <3>2 DEF TaskType
    <3> QED  BY <3>1, <3>2, <3>3, <3>4 DEF Sound
  <2>5. handles' \in Seq(HandleType) /\ Len(handles') = Len(handles)
    BY <1>2, ReferenceTypes
  <2> HIDE DEF r
  <2> QED  BY <1>1, <1>2, <2>2, <2>3, <2>4, <2>5, SpawnRefs
<1> QED  BY <1>4, <1>5

\* A step of one task, and of one handle that keeps its token.
LEMMA OneTaskOneHandle ==
  ASSUME References, NEW t \in Task, NEW r, Set(t, r), Sound(t, r, Len(handles)),
         task[t].pc # "unwrap", r.pc # "get", UNCHANGED <<registry, watchers>>,
         handles' \in Seq(HandleType), Len(handles') = Len(handles),
         \A k \in 1 .. Len(handles) : handles[k].cancelled => handles'[k].cancelled
  PROVE  References' /\ (TokensLive => TokensLive')
<1>1. PICK m \in Nat : m = Len(handles)
  BY ReferenceTypes
<1>2. task' \in [Task -> TaskType] /\ \A u \in Task : Sound(u, task'[u], m)
  BY <1>1, TaskGoesOn
<1>3. References'
  BY <1>1, <1>2, ReferencesNow, ReferenceTypes
<1>4. \A u \in Task : task[u].pc = "unwrap" => task'[u] = task[u]
  BY DEF Set, References
<1>5. \A k \in 1 .. Len(handles) : WillCancel(k) => WillCancel(k)'
  BY <1>4, StillCancelled
<1>6. TokensLive => TokensLive'
  BY <1>5, TokensStayLive
<1> QED  BY <1>3, <1>6

\* The slot of some handle is set.
LEMMA StoreWatcherRefs ==
  ASSUME References, NEW t \in Task, StoreWatcher(t)
  PROVE  References' /\ (TokensLive => TokensLive')
<1>1. task[t].pc = "store" /\ Sound(t, task[t], Len(handles)) /\ Set(t, Idle) /\ UNCHANGED <<registry, watchers>>
  BY DEF StoreWatcher, References, Finish
<1>2. task[t].name \in Name /\ task[t].spawned \in Nat
  BY <1>1 DEF Sound
<1>3. /\ handles' \in Seq(HandleType) /\ Len(handles') = Len(handles)
      /\ \A k \in 1 .. Len(handles) : handles[k].cancelled => handles'[k].cancelled
  <2>1. CASE registry[task[t].name] = None
    BY <2>1, ReferenceTypes DEF StoreWatcher
  <2>2. CASE registry[task[t].name] # None
    <3>1. PICK h \in 1 .. Len(handles) : h = registry[task[t].name]
      BY <1>2, <2>2, ReferenceTypes
    <3>2. handles' = [handles EXCEPT ![h].slot = task[t].spawned]
      BY <2>2, <3>1 DEF StoreWatcher
    <3> DEFINE e == [handles[h] EXCEPT !.slot = task[t].spawned]
    <3>3. e \in HandleType /\ (handles[h].cancelled => e.cancelled)
      BY <1>2, <3>1, ReferenceTypes DEF HandleType
    <3>4. handles' = [handles EXCEPT ![h] = e]
      BY <3>1, <3>2, ReferenceTypes
    <3> HIDE DEF e
    <3> QED  BY <3>1, <3>3, <3>4, OneHandle
  <2> QED  BY <2>1, <2>2
<1>4. Sound(t, Idle, Len(handles)) /\ Idle.pc # "get"
  BY IdleSound, ReferenceTypes
<1> QED  BY <1>1, <1>3, <1>4, OneTaskOneHandle

\* The same of daemon::run, in one step.
LEMMA StartWatcherRefs ==
  ASSUME References, NEW n \in Name, StartWatcher(n)
  PROVE  References' /\ (TokensLive => TokensLive')
<1>0. Main \in Task
  BY DEF Task
<1>1. PICK m \in Nat, l \in Nat : m = Len(handles) /\ l = Len(watchers)
  BY ReferenceTypes
<1>2. task[Main].pc = "get" /\ Set(Main, Idle) /\ UNCHANGED registry
  BY DEF StartWatcher, Finish
<1>3. Sound(Main, Idle, m) /\ Idle.pc # "get"
  BY IdleSound
<1>4. CASE registry[n] = None
  <2>1. UNCHANGED <<watchers, handles>>
    BY <1>4 DEF StartWatcher
  <2> QED  BY <1>0, <1>1, <1>2, <1>3, <2>1, OneTask
<1>5. CASE registry[n] # None
  <2>1. PICK h \in 1 .. Len(handles) : h = registry[n]
    BY <1>5, ReferenceTypes
  <2>2. Registered(h)
    BY <2>1 DEF Registered
  <2>3. Spawn(Main, h) /\ handles' = [handles EXCEPT ![h].slot = Len(watchers) + 1]
    BY <1>5, <2>1 DEF StartWatcher
  <2> DEFINE e == [handles[h] EXCEPT !.slot = Len(watchers) + 1]
  <2>4. e \in HandleType /\ (handles[h].cancelled => e.cancelled)
    <3>1. handles[h] \in HandleType
      BY <2>1, ReferenceTypes
    <3>2. e = [handles[h] EXCEPT !.slot = l + 1] /\ l + 1 \in Nat
      BY <1>1
    <3> HIDE DEF e
    <3> QED  BY <3>1, <3>2 DEF HandleType
  <2>5. handles' = [handles EXCEPT ![h] = e]
    BY <2>1, <2>3, ReferenceTypes
  <2> HIDE DEF e
  <2>6. /\ handles' \in Seq(HandleType) /\ Len(handles') = Len(handles)
        /\ \A k \in 1 .. Len(handles) : handles[k].cancelled => handles'[k].cancelled
    BY <2>1, <2>4, <2>5, OneHandle
  <2> QED  BY <1>0, <1>1, <1>2, <1>3, <2>1, <2>2, <2>3, <2>6, SpawnRefs
<1> QED  BY <1>4, <1>5

\* A name is taken away by a task that goes on to cancel the token of its handle.
LEMMA TakeRefs ==
  ASSUME References, NEW t \in Task, NEW n \in Name, Take(t, n), task[t].pc = "idle"
  PROVE  References' /\ (TokensLive => TokensLive')
<1> DEFINE r == [Idle EXCEPT !.pc = "unwrap", !.name = n, !.arc = registry[n]]
<1>1. PICK m \in Nat : m = Len(handles)
  BY ReferenceTypes
<1>2. PICK h \in 1 .. m : h = registry[n]
  BY <1>1, ReferenceTypes DEF Take
<1>3. /\ registry' = [registry EXCEPT ![n] = None] /\ Set(t, r)
      /\ UNCHANGED <<handles, watchers>>
  BY DEF Take
<1>4. Sound(t, r, m) /\ r.pc = "unwrap" /\ r.arc = h
  <2>1. Idle \in TaskType
    BY IdleSound DEF Sound
  <2>2. r = [Idle EXCEPT !.pc = "unwrap", !.name = n, !.arc = h] /\ h \in Nat
    BY <1>2
  <2> HIDE DEF r
  <2>3. r \in TaskType
    BY <2>1, <2>2 DEF TaskType
  <2>4. r.pc = "unwrap" /\ r.arc = h
    BY <2>1, <2>2 DEF TaskType
  <2> QED  BY <2>3, <2>4 DEF Sound
<1> HIDE DEF r
<1>5. task' \in [Task -> TaskType] /\ \A u \in Task : Sound(u, task'[u], m)
  BY <1>1, <1>3, <1>4, TaskGoesOn
<1>6. /\ registry' \in [Name -> (1 .. m) \cup {None}]
      /\ \A x \in Name \ {n} : registry'[x] = registry[x]
  BY <1>1, <1>3, ReferenceTypes
<1>7. References'
  BY <1>1, <1>3, <1>5, <1>6, ReferencesNow, ReferenceTypes
<1>8. task'[t] = r /\ \A u \in Task : task[u].pc = "unwrap" => task'[u] = task[u]
  BY <1>3 DEF Set, References
<1>9. ASSUME NEW k \in 1 .. Len(handles), WillCancel(k) PROVE WillCancel(k)'
  <2>1. CASE k = h
    BY <1>4, <1>8, <2>1 DEF WillCancel
  <2>2. CASE k # h
    <3>1. \A x \in Name : registry[x] = k => registry'[x] = k
      BY <1>2, <1>6, <2>2
    <3> QED  BY <1>3, <1>8, <1>9, <3>1, StillCancelled
  <2> QED  BY <2>1, <2>2
<1>10. TokensLive => TokensLive'
  BY <1>3, <1>4, <1>9, TokensStayLive
<1> QED  BY <1>7, <1>10

\* Whoever unwraps cancels the token, unless it is the closing loop.
LEMMA UnwrapRefs ==
  ASSUME References, NEW t \in Task, Unwrap(t)
  PROVE  References' /\ (TokensLive /\ Cancels(t) => TokensLive')
<1>1. PICK m \in Nat : m = Len(handles)
  BY ReferenceTypes
<1>2. task[t].pc = "unwrap" /\ Sound(t, task[t], m) /\ UNCHANGED <<registry, watchers>>
  BY <1>1 DEF Unwrap, References
<1>3. PICK h \in 1 .. m : h = task[t].arc
  BY <1>2 DEF Sound
<1>4. PICK r : Set(t, r) /\ r \in {Idle, [task[t] EXCEPT !.pc = "await"]}
  BY DEF Unwrap, Finish
<1>5. Sound(t, r, m) /\ r.pc # "get"
  <2>1. Sound(t, [task[t] EXCEPT !.pc = "await"], m) /\ [task[t] EXCEPT !.pc = "await"].pc # "get"
    BY <1>2, <1>3 DEF Sound, TaskType
  <2> QED  BY <1>4, <2>1, IdleSound
<1>6. /\ handles' = [handles EXCEPT ![h].cancelled = TRUE] \/ handles' = handles
      /\ Cancels(t) => handles' = [handles EXCEPT ![h].cancelled = TRUE]
  BY <1>3 DEF Unwrap
<1> DEFINE e == [handles[h] EXCEPT !.cancelled = TRUE]
<1>7. e \in HandleType /\ e.cancelled
  BY <1>1, <1>3, ReferenceTypes DEF HandleType
<1>8. handles' = [handles EXCEPT ![h].cancelled = TRUE] => handles' = [handles EXCEPT ![h] = e]
  BY <1>1, <1>3, ReferenceTypes
<1> HIDE DEF e
<1>9. /\ handles' \in Seq(HandleType) /\ Len(handles') = Len(handles)
      /\ \A k \in 1 .. Len(handles) : handles[k].cancelled => handles'[k].cancelled
      /\ Cancels(t) => handles'[h].cancelled
  BY <1>1, <1>3, <1>6, <1>7, <1>8, OneHandle, ReferenceTypes
<1>10. task' \in [Task -> TaskType] /\ \A u \in Task : Sound(u, task'[u], m)
  BY <1>1, <1>4, <1>5, <1>9, TaskGoesOn
<1>11. References'
  BY <1>1, <1>2, <1>9, <1>10, ReferencesNow, ReferenceTypes
<1>12. \A u \in Task \ {t} : task'[u] = task[u]
  BY <1>4 DEF Set, References
<1>13. ASSUME Cancels(t), NEW k \in 1 .. Len(handles), WillCancel(k) PROVE WillCancel(k)'
  <2>1. CASE k = h
    BY <1>9, <1>13, <2>1 DEF WillCancel
  <2>2. CASE k # h
    BY <1>2, <1>3, <1>9, <1>12, <1>13, <2>2 DEF WillCancel, Registered
  <2> QED  BY <2>1, <2>2
<1>14. TokensLive /\ Cancels(t) => TokensLive'
  BY <1>1, <1>2, <1>4, <1>5, <1>13, TokensStayLive
<1> QED  BY <1>11, <1>14

\* The wait for the watcher in the slot ends.
LEMMA AwaitRefs ==
  ASSUME References, NEW t \in Task, Await(t)
  PROVE  References' /\ (TokensLive => TokensLive')
<1>1. task[t].pc = "await" /\ Set(t, Idle) /\ UNCHANGED <<registry, handles, watchers>>
  BY DEF Await, Finish
<1> QED  BY <1>1, OneTask, IdleSound, ReferenceTypes

\* A task queues for the mutex of a registered handle.
LEMMA UseRefs ==
  ASSUME References, NEW t \in Task, NEW n \in Name, Use(t, n), task[t].pc = "idle"
  PROVE  References' /\ (TokensLive => TokensLive')
<1> DEFINE r == [Idle EXCEPT !.pc = "queue", !.name = n, !.arc = registry[n]]
<1>1. PICK h \in 1 .. Len(handles) : h = registry[n]
  BY ReferenceTypes DEF Use
<1>2. /\ handles' = [handles EXCEPT ![h].queue = Append(@, TaskWaiter(t))] /\ Set(t, r)
      /\ UNCHANGED <<registry, watchers>>
  BY <1>1 DEF Use, Enqueue
<1>3. Sound(t, r, Len(handles)) /\ r.pc # "get"
  <2>1. Idle \in TaskType
    BY IdleSound, ReferenceTypes DEF Sound
  <2>2. r = [Idle EXCEPT !.pc = "queue", !.name = n, !.arc = h] /\ h \in Nat
    BY <1>1
  <2> HIDE DEF r
  <2>3. r \in TaskType
    BY <2>1, <2>2 DEF TaskType
  <2>4. r.pc = "queue" /\ r.arc = h
    BY <2>1, <2>2 DEF TaskType
  <2> QED  BY <2>3, <2>4 DEF Sound
<1> HIDE DEF r
<1> DEFINE e == [handles[h] EXCEPT !.queue = Append(@, TaskWaiter(t))]
<1>4. e \in HandleType /\ (handles[h].cancelled => e.cancelled)
  <2>1. TaskWaiter(t) \in Waiter
    BY DEF TaskWaiter, Waiter
  <2>2. handles[h] \in HandleType /\ Append(handles[h].queue, TaskWaiter(t)) \in Seq(Waiter)
    BY <2>1, ReferenceTypes
  <2> QED  BY <2>2 DEF HandleType
<1>5. handles' = [handles EXCEPT ![h] = e]
  BY <1>1, <1>2, ReferenceTypes
<1> HIDE DEF e
<1>6. /\ handles' \in Seq(HandleType) /\ Len(handles') = Len(handles)
      /\ \A k \in 1 .. Len(handles) : handles[k].cancelled => handles'[k].cancelled
  BY <1>1, <1>4, <1>5, OneHandle
<1> QED  BY <1>2, <1>3, <1>6, OneTaskOneHandle

\* The task that has the mutex lets it go.
LEMMA WorkRefs ==
  ASSUME References, NEW t \in Task, Work(t)
  PROVE  References' /\ (TokensLive => TokensLive')
<1>1. /\ task[t].pc = "queue" /\ Set(t, Idle) /\ UNCHANGED <<registry, watchers>>
      /\ HasMutex(task[t].arc, TaskWaiter(t)) /\ Sound(t, task[t], Len(handles))
  BY DEF Work, Finish, References
<1>2. PICK h \in 1 .. Len(handles) : h = task[t].arc
  BY <1>1 DEF Sound
<1>3. handles' = [handles EXCEPT ![h].queue = Tail(@)] /\ handles[h].queue # <<>>
  BY <1>1, <1>2 DEF Work, Dequeue, HasMutex
<1> DEFINE e == [handles[h] EXCEPT !.queue = Tail(@)]
<1>4. e \in HandleType /\ (handles[h].cancelled => e.cancelled)
  <2>1. handles[h] \in HandleType /\ handles[h].queue \in Seq(Waiter)
    BY ReferenceTypes
  <2>2. Tail(handles[h].queue) \in Seq(Waiter)
    BY <1>3, <2>1, HeadTailProperties
  <2> QED  BY <2>1, <2>2 DEF HandleType
<1>5. handles' = [handles EXCEPT ![h] = e]
  BY <1>3, ReferenceTypes
<1> HIDE DEF e
<1>6. /\ handles' \in Seq(HandleType) /\ Len(handles') = Len(handles)
      /\ \A k \in 1 .. Len(handles) : handles[k].cancelled => handles'[k].cancelled
  BY <1>4, <1>5, OneHandle
<1>7. Sound(t, Idle, Len(handles)) /\ Idle.pc # "get"
  BY IdleSound, ReferenceTypes
<1> QED  BY <1>1, <1>6, <1>7, OneTaskOneHandle

-----------------------------------------------------------------------------
\* A step of a watcher: no task and no name changes, and what it watches stays.
LEMMA WatcherStep ==
  ASSUME References, UNCHANGED <<registry, task>>,
         handles' \in Seq(HandleType), Len(handles') = Len(handles),
         \A k \in 1 .. Len(handles) : handles[k].cancelled => handles'[k].cancelled,
         NEW w \in Watcher, NEW e \in WatcherType, watchers' = [watchers EXCEPT ![w] = e],
         e.on = watchers[w].on, e.token = watchers[w].token, watchers[w].done => e.done
  PROVE  References' /\ (TokensLive => TokensLive')
<1>1. PICK m \in Nat : m = Len(handles)
  BY ReferenceTypes
<1>2. /\ watchers' \in Seq(WatcherType) /\ Len(watchers') = Len(watchers)
      /\ \A x \in 1 .. Len(watchers) : /\ watchers'[x].on = watchers[x].on
                                        /\ watchers'[x].token = watchers[x].token
                                        /\ watchers[x].done => watchers'[x].done
  <2>1. watchers \in Seq(WatcherType) /\ w \in 1 .. Len(watchers)
    BY ReferenceTypes DEF Watcher
  <2>2. /\ watchers' \in Seq(WatcherType) /\ Len(watchers') = Len(watchers)
        /\ \A x \in 1 .. Len(watchers) : watchers'[x] = IF x = w THEN e ELSE watchers[x]
    BY <2>1, ExceptSeq
  <2> QED  BY <2>2
<1>3. task' \in [Task -> TaskType] /\ \A u \in Task : Sound(u, task'[u], m)
  BY <1>1 DEF References
<1>4. References'
  <2>1. registry' \in [Name -> (1 .. m) \cup {None}]
    BY <1>1, ReferenceTypes
  <2>2. \A x \in 1 .. Len(watchers') : watchers'[x].on \in 1 .. m /\ watchers'[x].token \in 1 .. m
    BY <1>1, <1>2, ReferenceTypes
  <2> QED  BY <1>1, <1>2, <1>3, <2>1, <2>2, ReferencesNow
<1>5. \A k \in 1 .. Len(handles) : WillCancel(k) => WillCancel(k)'
  BY StillCancelled
<1>6. ASSUME TokensLive PROVE TokensLive'
  <2>1. ASSUME NEW x \in Watcher' PROVE (watchers[x].done \/ WillCancel(watchers[x].token))'
    <3>1. x \in 1 .. Len(watchers) /\ (watchers[x].done \/ WillCancel(watchers[x].token))
      BY <1>2, <1>6, <2>1 DEF TokensLive, Watcher
    <3>2. PICK k \in 1 .. Len(handles) : k = watchers[x].token
      BY <3>1, ReferenceTypes
    <3>3. WillCancel(watchers[x].token) => WillCancel(k)
      BY <3>2
    <3>4. watchers'[x].token = k /\ (watchers[x].done => watchers'[x].done)
      BY <1>2, <3>1, <3>2
    <3>5. WillCancel(k)' => WillCancel(watchers[x].token)'
      BY <3>4 DEF WillCancel, Registered
    <3> QED  BY <1>5, <3>1, <3>3, <3>4, <3>5
  <2>2. ASSUME NEW u \in Task, task[u].pc = "get", task[u].arc # None PROVE WillCancel(task[u].arc)'
    <3>1. PICK k \in 1 .. Len(handles) : k = task[u].arc
      BY <2>2 DEF References, Sound
    <3>2. WillCancel(task[u].arc)
      BY <1>6, <2>2 DEF TokensLive
    <3>3. WillCancel(k)'
      BY <1>5, <3>1, <3>2
    <3> QED  BY <3>1, <3>3 DEF WillCancel, Registered
  <2> QED  BY <2>1, <2>2 DEF TokensLive
<1> QED  BY <1>4, <1>6

\* A batch is due, a path is ingested, or the watcher stops.
LEMMA WatcherRefs ==
  ASSUME References, NEW w \in Watcher, StartBatch(w) \/ IngestPath(w) \/ StopWatcher(w)
  PROVE  References' /\ (TokensLive => TokensLive')
<1>0. w \in 1 .. Len(watchers) /\ w \in Nat
  BY ReferenceTypes DEF Watcher
<1>1. PICK h \in 1 .. Len(handles) : h = watchers[w].on
  BY <1>0, ReferenceTypes
<1>2. /\ watchers[w] \in WatcherType /\ handles[h] \in HandleType /\ handles[h].queue \in Seq(Waiter)
      /\ watchers[w].left \in 0 .. MaxBatch
  BY <1>0, ReferenceTypes
<1>3. WatcherWaiter(w) \in Waiter
  BY <1>0 DEF WatcherWaiter, Waiter
<1>4. ASSUME NEW q \in Seq(Waiter), handles' = [handles EXCEPT ![h].queue = q]
      PROVE  /\ handles' \in Seq(HandleType) /\ Len(handles') = Len(handles)
             /\ \A k \in 1 .. Len(handles) : handles[k].cancelled => handles'[k].cancelled
  <2> DEFINE e == [handles[h] EXCEPT !.queue = q]
  <2>1. e \in HandleType /\ (handles[h].cancelled => e.cancelled)
    BY <1>2 DEF HandleType
  <2>2. handles' = [handles EXCEPT ![h] = e]
    BY <1>4, ReferenceTypes
  <2> HIDE DEF e
  <2> QED  BY <2>1, <2>2, OneHandle
<1>5. ASSUME NEW left \in 0 .. MaxBatch, watchers' = [watchers EXCEPT ![w].left = left]
      PROVE  \E e \in WatcherType : /\ watchers' = [watchers EXCEPT ![w] = e]
                                    /\ e.on = watchers[w].on /\ e.token = watchers[w].token
                                    /\ watchers[w].done => e.done
  <2> DEFINE e == [watchers[w] EXCEPT !.left = left]
  <2>1. e \in WatcherType /\ e.on = watchers[w].on /\ e.token = watchers[w].token
        /\ (watchers[w].done => e.done)
    BY <1>2 DEF WatcherType
  <2>2. watchers' = [watchers EXCEPT ![w] = e]
    BY <1>0, <1>5, ReferenceTypes
  <2> HIDE DEF e
  <2> QED  BY <2>1, <2>2
<1>6. CASE StartBatch(w)
  <2>1. handles' = [handles EXCEPT ![h].queue = Append(handles[h].queue, WatcherWaiter(w))]
    BY <1>1, <1>6, ReferenceTypes DEF StartBatch, Enqueue
  <2>2. Append(handles[h].queue, WatcherWaiter(w)) \in Seq(Waiter)
    BY <1>2, <1>3
  <2>3. PICK k \in 1 .. MaxBatch : watchers' = [watchers EXCEPT ![w].left = k]
    BY <1>6 DEF StartBatch
  <2>4. UNCHANGED <<registry, task>> /\ k \in 0 .. MaxBatch
    BY <1>6 DEF StartBatch
  <2> QED  BY <1>4, <1>5, <2>1, <2>2, <2>3, <2>4, WatcherStep
<1>7. CASE IngestPath(w)
  <2>1. /\ watchers[w].left > 0 /\ handles[h].queue # <<>> /\ UNCHANGED <<registry, task>>
        /\ watchers' = [watchers EXCEPT ![w].left = watchers[w].left - 1]
    BY <1>0, <1>1, <1>7, ReferenceTypes DEF IngestPath, HasMutex
  <2>2. Tail(handles[h].queue) \in Seq(Waiter)
    BY <1>2, <2>1, HeadTailProperties
  <2>3. Append(Tail(handles[h].queue), WatcherWaiter(w)) \in Seq(Waiter)
    BY <1>3, <2>2
  <2>4. \E q \in Seq(Waiter) : handles' = [handles EXCEPT ![h].queue = q]
    <3>1. \/ handles' = [handles EXCEPT ![h].queue = Tail(handles[h].queue)]
          \/ handles' = [handles EXCEPT ![h].queue = Append(Tail(handles[h].queue), WatcherWaiter(w))]
      BY <1>1, <1>7, ReferenceTypes DEF IngestPath, Dequeue
    <3> QED  BY <2>2, <2>3, <3>1
  <2>5. watchers[w].left - 1 \in 0 .. MaxBatch
    BY <1>2, <2>1
  <2> QED  BY <1>4, <1>5, <2>1, <2>4, <2>5, WatcherStep
<1>8. CASE StopWatcher(w)
  <2> DEFINE e == [watchers[w] EXCEPT !.done = TRUE]
  <2>1. e \in WatcherType /\ e.on = watchers[w].on /\ e.token = watchers[w].token /\ e.done
    BY <1>2 DEF WatcherType
  <2>2. watchers' = [watchers EXCEPT ![w] = e] /\ UNCHANGED <<registry, task, handles>>
    BY <1>0, <1>8, ReferenceTypes DEF StopWatcher
  <2> HIDE DEF e
  <2> QED  BY <2>1, <2>2, WatcherStep, ReferenceTypes
<1> QED  BY <1>6, <1>7, <1>8

-----------------------------------------------------------------------------
\* What the closing loop finds is said of the phase, the names, the jobs and the tasks.
LEMMA ClosingStays ==
  ASSUME ClosingAlone, NothingLeftRegistered, phase # "stopped",
         UNCHANGED <<phase, registry, jobs>>,
         phase = "close" => Drained' /\ task'[Main].pc \in {"idle", "unwrap", "await"}
  PROVE  ClosingAlone' /\ NothingLeftRegistered'
<1>1. Names' = Names
  BY DEF Names
<1>2. NothingLeftRegistered'
  BY <1>1 DEF NothingLeftRegistered
<1>3. ClosingAlone'
  BY <1>1 DEF ClosingAlone
<1> QED  BY <1>2, <1>3

\* A connection that has ended does nothing more.
LEMMA EndedIsEnded ==
  ASSUME References, ClosingAlone, phase = "close", NEW c \in Conn
  PROVE  task[c].pc \in {"closed", "panicked"}
  BY DEF ClosingAlone, Drained

\* The parts of the type invariant that the references do not say.
PhaseTypes ==
  /\ phase \in {"boot", "start", "serve", "reload", "drain", "close", "stopped"}
  /\ jobs \in SUBSET Job
  /\ soft \in BOOLEAN
  /\ reloads \in 0 .. MaxReloads

LEMMA TypeParts == References /\ PhaseTypes => TypeOK
  BY DEF References, PhaseTypes, TypeOK

-----------------------------------------------------------------------------
\* A request of a connection, and each step it takes until it is answered.
LEMMA ConnectionInv ==
  ASSUME WorkspaceInv, phase # "stopped", NEW c \in Conn,
         Request(c) \/ ShutdownRequest(c) \/ Continue(c) \/ Close(c)
  PROVE  WorkspaceInv'
<1>1. References /\ ClosingAlone /\ NothingLeftRegistered /\ c \in Task /\ c # Main /\ Main \in Task
  BY DEF WorkspaceInv, Task
<1>2. PhaseTypes /\ (phase \notin {"close", "stopped"} => TokensLive)
  BY DEF WorkspaceInv, TypeOK, PhaseTypes
<1>3. CASE phase = "close"
  <2>1. task[c].pc \in {"closed", "panicked"}
    BY <1>1, <1>3, EndedIsEnded
  <2>2. ~Request(c) /\ ~ShutdownRequest(c) /\ ~Close(c)
    BY <2>1 DEF Request, ShutdownRequest, Close
  <2>3. ~Continue(c)
    BY <2>1 DEF Continue, Insert, GetAndSpawn, StoreWatcher, Unwrap, Await, Work
  <2> QED  BY <2>2, <2>3
<1>4. CASE phase # "close"
  <2>1. UNCHANGED <<phase, jobs, reloads>>
    BY DEF Request, ShutdownRequest, Continue, Close
  <2>2. soft' \in BOOLEAN
    BY <1>2 DEF Request, ShutdownRequest, Continue, Close, PhaseTypes
  <2>3. PhaseTypes'
    BY <1>2, <2>1, <2>2 DEF PhaseTypes
  <2>4. ClosingAlone' /\ NothingLeftRegistered'
    BY <1>4, <2>1 DEF ClosingAlone, NothingLeftRegistered
  <2>5. TokensLive
    BY <1>2, <1>4
  <2>6. CASE Request(c)
    <3>1. task[c].pc = "idle"
      BY <2>6 DEF Request
    <3>2. ASSUME NEW n \in Name, Use(c, n) PROVE References' /\ TokensLive'
      BY <1>1, <2>5, <3>1, <3>2, UseRefs
    <3>3. ASSUME NEW n \in Name, Take(c, n) PROVE References' /\ TokensLive'
      BY <1>1, <2>5, <3>1, <3>3, TakeRefs
    <3>4. ASSUME NEW n \in Name, NEW watch \in BOOLEAN, Open(c, n, watch) PROVE References' /\ TokensLive'
      BY <1>1, <2>5, <3>1, <3>4, OpenRefs
    <3>5. References' /\ TokensLive'
      BY <2>6, <3>2, <3>3, <3>4 DEF Request
    <3> QED  BY <2>3, <2>4, <3>5, TypeParts DEF WorkspaceInv, References, PhaseTypes, TypeOK
  <2>7. CASE ShutdownRequest(c)
    <3>1. UNCHANGED <<registry, handles, watchers, task>>
      BY <2>7 DEF ShutdownRequest
    <3>2. References'
      BY <1>1, <3>1 DEF References, Handle, Watcher, Sound
    <3>3. TokensLive'
      BY <2>5, <3>1 DEF TokensLive, WillCancel, Registered, Watcher
    <3> QED  BY <2>3, <2>4, <3>2, <3>3 DEF WorkspaceInv, References, PhaseTypes, TypeOK
  <2>8. CASE Continue(c)
    <3>1. Cancels(c)
      BY <1>1 DEF Cancels
    <3>2. References' /\ TokensLive'
      BY <1>1, <2>5, <2>8, <3>1, InsertRefs, GetAndSpawnRefs, StoreWatcherRefs, UnwrapRefs, AwaitRefs, WorkRefs
         DEF Continue
    <3> QED  BY <2>3, <2>4, <3>2 DEF WorkspaceInv, References, PhaseTypes, TypeOK
  <2>9. CASE Close(c)
    <3>1. task[c].pc = "idle" /\ Set(c, [Idle EXCEPT !.pc = "closed"]) /\ UNCHANGED <<registry, handles, watchers>>
      BY <2>9 DEF Close
    <3>2. [Idle EXCEPT !.pc = "closed"].pc = "closed" /\ Sound(c, [Idle EXCEPT !.pc = "closed"], Len(handles))
      BY <1>1, IdleSound, ReferenceTypes DEF Idle
    <3>3. References' /\ TokensLive'
      BY <1>1, <2>5, <3>1, <3>2, OneTask
    <3> QED  BY <2>3, <2>4, <3>3 DEF WorkspaceInv, References, PhaseTypes, TypeOK
  <2> QED  BY <2>6, <2>7, <2>8, <2>9
<1> QED  BY <1>3, <1>4

\* A step of a watcher.
LEMMA WatcherInv ==
  ASSUME WorkspaceInv, phase # "stopped", NEW w \in Watcher,
         StartBatch(w) \/ IngestPath(w) \/ StopWatcher(w)
  PROVE  WorkspaceInv'
<1>1. UNCHANGED <<registry, task, phase, jobs, soft, reloads>>
  BY DEF StartBatch, IngestPath, StopWatcher
<1>2. PhaseTypes'
  BY <1>1 DEF WorkspaceInv, TypeOK, PhaseTypes
<1>3. ClosingAlone' /\ NothingLeftRegistered'
  <2>1. phase = "close" => Drained' /\ task'[Main].pc \in {"idle", "unwrap", "await"}
    BY <1>1 DEF WorkspaceInv, ClosingAlone, Drained
  <2> QED  BY <1>1, <2>1, ClosingStays DEF WorkspaceInv
<1>4. References' /\ (TokensLive => TokensLive')
  BY WatcherRefs DEF WorkspaceInv
<1> QED  BY <1>1, <1>2, <1>3, <1>4 DEF WorkspaceInv, References, PhaseTypes, TypeOK

-----------------------------------------------------------------------------
\* What daemon::run does for a job, once it has begun: in the closing loop, unwrap and await.
LEMMA FinishJobInv == ASSUME WorkspaceInv, phase # "stopped", FinishJob PROVE WorkspaceInv'
<1>1. References /\ ClosingAlone /\ NothingLeftRegistered /\ Main \in Task
  BY DEF WorkspaceInv, Task
<1>2. UNCHANGED <<phase, jobs, soft, reloads>>
  BY DEF FinishJob
<1>3. PhaseTypes'
  BY <1>2 DEF WorkspaceInv, TypeOK, PhaseTypes
<1>4. References'
  BY <1>1, InsertRefs, UnwrapRefs, AwaitRefs, StartWatcherRefs DEF FinishJob
<1>5. phase \notin {"close", "stopped"} => TokensLive'
  <2> SUFFICES ASSUME phase \notin {"close", "stopped"} PROVE TokensLive'
    OBVIOUS
  <2>1. TokensLive /\ Cancels(Main)
    BY DEF WorkspaceInv, Cancels
  <2> QED  BY <1>1, <2>1, InsertRefs, UnwrapRefs, AwaitRefs, StartWatcherRefs DEF FinishJob
<1>6. ClosingAlone' /\ NothingLeftRegistered'
  <2>1. CASE phase = "close"
    <3>1. task[Main].pc \in {"idle", "unwrap", "await"} /\ Drained
      BY <1>1, <2>1 DEF ClosingAlone
    <3>2. Unwrap(Main) \/ Await(Main)
      BY <3>1 DEF FinishJob, Insert, StartWatcher
    <3>3. PICK r : Set(Main, r) /\ r \in {Idle, [task[Main] EXCEPT !.pc = "await"]} /\ UNCHANGED registry
      BY <3>2 DEF Unwrap, Await, Finish
    <3>4. task' = [task EXCEPT ![Main] = r] /\ task \in [Task -> TaskType] /\ task[Main] \in TaskType
      BY <1>1, <3>3 DEF Set, References
    <3>5. r.pc \in {"idle", "await"}
      BY <3>3, <3>4 DEF Idle, TaskType
    <3>6. task'[Main].pc \in {"idle", "unwrap", "await"}
      BY <1>1, <3>4, <3>5
    <3>7. \A c \in Conn : task'[c] = task[c]
      BY <3>4 DEF Task
    <3>8. Drained'
      BY <3>1, <3>7 DEF Drained
    <3> QED  BY <1>1, <1>2, <3>3, <3>6, <3>8, ClosingStays
  <2>2. CASE phase # "close"
    BY <1>2, <2>2 DEF ClosingAlone, NothingLeftRegistered
  <2> QED  BY <2>1, <2>2
<1> QED  BY <1>2, <1>3, <1>4, <1>5, <1>6 DEF WorkspaceInv, References, PhaseTypes, TypeOK

\* A job is begun: in the closing loop, the name of the job is taken away, if it is there.
LEMMA DoJobInv == ASSUME WorkspaceInv, phase # "stopped", NEW j \in jobs, DoJob(j) PROVE WorkspaceInv'
<1>1. References /\ ClosingAlone /\ NothingLeftRegistered /\ Main \in Task
  BY DEF WorkspaceInv, Task
<1>2. /\ task[Main].pc = "idle" /\ jobs' = jobs \ {j} /\ UNCHANGED <<phase, soft, reloads>>
  BY DEF DoJob
<1>3. j \in Job /\ j.name \in Name /\ \A k \in jobs : k \in Job
  BY DEF WorkspaceInv, TypeOK, Job
<1>4. PhaseTypes'
  BY <1>2 DEF WorkspaceInv, TypeOK, PhaseTypes
<1>5. CASE j.op = "open" /\ \E watch \in BOOLEAN : Open(Main, j.name, watch)
  <2>1. References' /\ (TokensLive => TokensLive')
    BY <1>1, <1>2, <1>3, <1>5, OpenRefs
  <2>2. phase # "close"
    BY <1>1, <1>5 DEF ClosingAlone
  <2>3. ClosingAlone' /\ NothingLeftRegistered'
    BY <1>2, <2>2 DEF ClosingAlone, NothingLeftRegistered
  <2> QED  BY <1>2, <1>4, <2>1, <2>3 DEF WorkspaceInv, References, PhaseTypes, TypeOK
<1>6. CASE /\ j.op = "watch" /\ Set(Main, [Idle EXCEPT !.pc = "get", !.name = j.name])
           /\ UNCHANGED <<registry, handles, watchers>>
  <2> DEFINE r == [Idle EXCEPT !.pc = "get", !.name = j.name]
  <2>1. Sound(Main, r, Len(handles)) /\ r.arc = None
    <3>1. Idle \in TaskType /\ Idle.arc = None
      BY IdleSound, ReferenceTypes, <1>1 DEF Sound, Idle
    <3>2. r \in TaskType /\ r.pc = "get" /\ r.name = j.name /\ r.arc = None
      BY <1>3, <3>1 DEF TaskType
    <3> HIDE DEF r
    <3> QED  BY <1>3, <3>2 DEF Sound
  <2> HIDE DEF r
  <2>2. Set(Main, r)
    BY <1>6 DEF r
  <2>3. References' /\ (TokensLive => TokensLive')
    BY <1>1, <1>2, <1>6, <2>1, <2>2, OneTask
  <2>4. phase # "close"
    BY <1>1, <1>6 DEF ClosingAlone
  <2>5. ClosingAlone' /\ NothingLeftRegistered'
    BY <1>2, <2>4 DEF ClosingAlone, NothingLeftRegistered
  <2> QED  BY <1>2, <1>4, <2>3, <2>5 DEF WorkspaceInv, References, PhaseTypes, TypeOK
<1>7. CASE j.op = "remove" /\ Take(Main, j.name)
  <2>1. References' /\ (TokensLive => TokensLive')
    BY <1>1, <1>2, <1>3, <1>7, TakeRefs
  <2>2. NothingLeftRegistered'
    BY <1>2 DEF NothingLeftRegistered
  <2>3. ClosingAlone'
    <3> SUFFICES ASSUME phase = "close" PROVE ClosingAlone'
      BY <1>2 DEF ClosingAlone
    <3>1. /\ registry' = [registry EXCEPT ![j.name] = None] /\ registry \in [Name -> Handle \cup {None}]
          /\ task' = [task EXCEPT ![Main] = [Idle EXCEPT !.pc = "unwrap", !.name = j.name, !.arc = registry[j.name]]]
          /\ task \in [Task -> TaskType]
      BY <1>1, <1>7 DEF Take, Set, References
    <3>2. task'[Main].pc = "unwrap"
      BY <1>1, <3>1 DEF Idle
    <3>3. \A c \in Conn : task'[c] = task[c]
      BY <3>1 DEF Task
    <3>4. Drained'
      BY <1>1, <3>3 DEF ClosingAlone, Drained
    <3>5. \A n \in Names' : n \in Names /\ n # j.name
      BY <1>3, <3>1 DEF Names
    <3>6. \A n \in Names' : \E k \in jobs' : k.op = "remove" /\ k.name = n
      BY <1>1, <1>2, <3>5 DEF ClosingAlone
    <3>7. \A k \in jobs' : k.op = "remove"
      BY <1>1, <1>2 DEF ClosingAlone
    <3> QED  BY <3>2, <3>4, <3>6, <3>7 DEF ClosingAlone
  <2> QED  BY <1>2, <1>4, <2>1, <2>2, <2>3 DEF WorkspaceInv, References, PhaseTypes, TypeOK
<1>8. CASE (j.op = "remove" => registry[j.name] = None) /\ UNCHANGED <<registry, handles, watchers, task>>
  <2>1. References'
    BY <1>1, <1>8 DEF References, Handle, Watcher, Sound
  <2>2. TokensLive => TokensLive'
    BY <1>8 DEF TokensLive, WillCancel, Registered, Watcher
  <2>3. NothingLeftRegistered'
    BY <1>2 DEF NothingLeftRegistered
  <2>4. ClosingAlone'
    <3> SUFFICES ASSUME phase = "close" PROVE ClosingAlone'
      BY <1>2 DEF ClosingAlone
    <3>1. j.op = "remove" /\ registry[j.name] = None
      BY <1>1, <1>8 DEF ClosingAlone
    <3>2. \A n \in Names' : n \in Names /\ n # j.name
      BY <1>8, <3>1 DEF Names
    <3>3. \A n \in Names' : \E k \in jobs' : k.op = "remove" /\ k.name = n
      BY <1>1, <1>2, <3>2 DEF ClosingAlone
    <3> QED  BY <1>1, <1>2, <1>8, <3>3 DEF ClosingAlone, Drained
  <2> QED  BY <1>2, <1>4, <2>1, <2>2, <2>3, <2>4 DEF WorkspaceInv, References, PhaseTypes, TypeOK
<1> QED  BY <1>5, <1>6, <1>7, <1>8 DEF DoJob

-----------------------------------------------------------------------------
\* The next phase, with its jobs; before the closing loop nothing is said of them.
LEMMA PhaseInv ==
  ASSUME WorkspaceInv, UNCHANGED <<registry, handles, watchers, task>>,
         phase' \in {"start", "serve", "reload", "drain"}, phase \notin {"close", "stopped"},
         jobs' \in SUBSET Job, soft' \in BOOLEAN, reloads' \in 0 .. MaxReloads
  PROVE  WorkspaceInv'
<1>1. References'
  BY DEF WorkspaceInv, References, Handle, Watcher, Sound
<1>2. TokensLive'
  BY DEF WorkspaceInv, TokensLive, WillCancel, Registered, Watcher
<1>3. PhaseTypes' /\ ClosingAlone' /\ NothingLeftRegistered'
  BY DEF PhaseTypes, ClosingAlone, NothingLeftRegistered
<1> QED  BY <1>1, <1>2, <1>3 DEF WorkspaceInv, References, PhaseTypes, TypeOK

\* The jobs of a phase are jobs.
LEMMA JobTypes ==
  ASSUME NEW op \in {"open", "watch", "remove"}, NEW names \in SUBSET Name
  PROVE  [op : {op}, name : names] \in SUBSET Job
  BY DEF Job

\* Whatever daemon::run does between its jobs.
LEMMA RunInv ==
  ASSUME WorkspaceInv, phase # "stopped",
         Listen \/ Ready \/ Reload \/ Reloaded \/ Drain \/ CloseAll \/ Return
  PROVE  WorkspaceInv'
<1>1. PhaseTypes
  BY DEF WorkspaceInv, TypeOK, PhaseTypes
<1>2. Names \in SUBSET Name
  BY DEF Names
<1>3. UNCHANGED <<registry, handles, watchers, task>> /\ task[Main].pc = "idle" /\ jobs = {}
  BY DEF Listen, Ready, Reload, Reloaded, Drain, CloseAll, Return, Serving
<1>4. {} \in SUBSET Job
  OBVIOUS
<1>5. CASE Listen
  <2>1. jobs' \in SUBSET Job
    BY <1>5, JobTypes DEF Listen, Serving
  <2> QED  BY <1>1, <1>3, <1>5, <2>1, PhaseInv DEF Listen, Serving, PhaseTypes
<1>6. CASE Ready \/ Reloaded
  BY <1>1, <1>3, <1>4, <1>6, PhaseInv DEF Ready, Reloaded, Serving, PhaseTypes
<1>7. CASE Reload
  <2>1. PICK new \in SUBSET Name :
           jobs' = [op : {"remove"}, name : Names \ new] \cup [op : {"open"}, name : new \ Names]
    BY <1>7 DEF Reload, Serving
  <2>2. Names \ new \in SUBSET Name /\ new \ Names \in SUBSET Name
    BY <1>2
  <2>3. jobs' \in SUBSET Job
    BY <2>1, <2>2, JobTypes
  <2>4. reloads' \in 0 .. MaxReloads /\ soft' \in BOOLEAN /\ phase = "serve" /\ phase' = "reload"
    BY <1>1, <1>7 DEF Reload, Serving, PhaseTypes
  <2> QED  BY <1>3, <2>3, <2>4, PhaseInv
<1>8. CASE Drain
  <2>1. reloads' \in 0 .. MaxReloads /\ soft' \in BOOLEAN /\ phase = "serve" /\ phase' = "drain" /\ jobs' = {}
    BY <1>1, <1>8 DEF Drain, Serving, PhaseTypes
  <2> QED  BY <1>3, <1>4, <2>1, PhaseInv
<1>9. CASE CloseAll
  <2>1. /\ Drained /\ phase' = "close" /\ jobs' = [op : {"remove"}, name : Names]
        /\ UNCHANGED <<soft, reloads>>
    BY <1>9 DEF CloseAll, Serving
  <2>2. PhaseTypes'
    BY <1>1, <1>2, <2>1, JobTypes DEF PhaseTypes
  <2>3. References'
    BY <1>3 DEF WorkspaceInv, References, Handle, Watcher, Sound
  <2>4. Names' = Names /\ Drained'
    BY <1>3, <2>1 DEF Names, Drained
  <2>5. \A n \in Names : [op |-> "remove", name |-> n] \in jobs'
    BY <2>1
  <2>6. ClosingAlone'
    BY <1>3, <2>1, <2>4, <2>5 DEF ClosingAlone
  <2>7. NothingLeftRegistered'
    BY <2>1 DEF NothingLeftRegistered
  <2> QED  BY <2>1, <2>2, <2>3, <2>6, <2>7 DEF WorkspaceInv, References, PhaseTypes, TypeOK
<1>10. CASE Return
  <2>1. phase = "close" /\ phase' = "stopped" /\ jobs' = {} /\ UNCHANGED <<soft, reloads>>
    BY <1>10 DEF Return, Serving
  <2>2. PhaseTypes'
    BY <1>1, <2>1 DEF PhaseTypes
  <2>3. References'
    BY <1>3 DEF WorkspaceInv, References, Handle, Watcher, Sound
  <2>4. Names = {}
    BY <1>3, <2>1 DEF WorkspaceInv, ClosingAlone
  <2>5. Names' = {} /\ Drained'
    BY <1>3, <2>1, <2>4 DEF WorkspaceInv, ClosingAlone, Names, Drained
  <2>6. ClosingAlone' /\ NothingLeftRegistered'
    BY <1>3, <2>1, <2>5 DEF ClosingAlone, NothingLeftRegistered
  <2> QED  BY <2>1, <2>2, <2>3, <2>6 DEF WorkspaceInv, References, PhaseTypes, TypeOK
<1> QED  BY <1>5, <1>6, <1>7, <1>8, <1>9, <1>10

-----------------------------------------------------------------------------
\* No handle, no watcher, nothing registered.
LEMMA InitWorkspaces == Init => WorkspaceInv
<1> SUFFICES ASSUME Init PROVE WorkspaceInv
  OBVIOUS
<1>1. /\ Len(handles) = 0 /\ Len(watchers) = 0 /\ phase = "boot"
      /\ handles \in Seq(HandleType) /\ watchers \in Seq(WatcherType)
  BY EmptySeq DEF Init
<1>2. Idle \in TaskType /\ Idle.pc = "idle" /\ Idle.arc = None
  BY DEF Idle, TaskType
<1>3. References
  <2>1. registry \in [Name -> Handle \cup {None}] /\ task \in [Task -> TaskType]
    BY <1>2 DEF Init
  <2>2. \A t \in Task : task[t] = Idle
    BY DEF Init
  <2>3. \A t \in Task : Sound(t, task[t], Len(handles))
    BY <1>2, <2>2 DEF Sound
  <2> QED  BY <1>1, <2>1, <2>3 DEF References, Watcher
<1>4. PhaseTypes
  <2>1. jobs \in SUBSET Job
    BY JobTypes DEF Init
  <2>2. soft \in BOOLEAN
    BY DEF Init
  <2>3. reloads \in 0 .. MaxReloads
    BY DEF Init
  <2> QED  BY <1>1, <2>1, <2>2, <2>3 DEF PhaseTypes
<1>5. ClosingAlone /\ NothingLeftRegistered
  BY <1>1 DEF ClosingAlone, NothingLeftRegistered
<1>6. TokensLive
  <2>1. \A t \in Task : task[t].pc = "idle"
    BY <1>2 DEF Init
  <2> QED  BY <1>1, <2>1 DEF TokensLive, Watcher
<1> QED  BY <1>3, <1>4, <1>5, <1>6, TypeParts DEF WorkspaceInv

\* A step in which nothing changes.
LEMMA StutterWorkspaces == ASSUME WorkspaceInv, UNCHANGED vars PROVE WorkspaceInv'
<1>1. References'
  BY DEF WorkspaceInv, vars, References, Handle, Watcher, Sound
<1>2. PhaseTypes'
  BY DEF WorkspaceInv, vars, TypeOK, PhaseTypes
<1>3. TokensLive => TokensLive'
  BY DEF vars, TokensLive, WillCancel, Registered, Watcher
<1>4. ClosingAlone' /\ NothingLeftRegistered' /\ phase' = phase
  BY DEF WorkspaceInv, vars, ClosingAlone, NothingLeftRegistered, Names, Drained
<1> QED  BY <1>1, <1>2, <1>3, <1>4 DEF WorkspaceInv, References, PhaseTypes, TypeOK

\* Every step.
LEMMA NextWorkspaces == WorkspaceInv /\ [Next]_vars => WorkspaceInv'
<1> SUFFICES ASSUME WorkspaceInv, [Next]_vars PROVE WorkspaceInv'
  OBVIOUS
<1>1. CASE phase # "stopped" /\ Step
  BY <1>1, ConnectionInv, WatcherInv, FinishJobInv, DoJobInv, RunInv DEF Step, Run
<1>2. CASE Stopped \/ UNCHANGED vars
  BY <1>2, StutterWorkspaces DEF Stopped
<1> QED  BY <1>1, <1>2 DEF Next

\* The invariant of the workspaces.
THEOREM WorkspaceInvariance == Spec => []WorkspaceInv
  BY InitWorkspaces, NextWorkspaces, PTL DEF Spec

\* The registry, the handles, the watchers and the tasks have their types throughout, and
\* refer to handles that were opened.
THEOREM WorkspaceTypes == Spec => []TypeOK
<1>1. WorkspaceInv => TypeOK
  BY DEF WorkspaceInv
<1> QED  BY <1>1, WorkspaceInvariance, PTL

\* However requests, reloads and watchers interleave, each watcher has stopped, or its token
\* is cancelled, or will be found by the removal of a name, until the closing loop begins.
THEOREM EveryWatcherCanStop == Spec => []WatchersCanStop
<1>1. WorkspaceInv => WatchersCanStop
  BY DEF WorkspaceInv, TokensLive, WillCancel, WatchersCanStop
<1> QED  BY <1>1, WorkspaceInvariance, PTL

\* When daemon::run returns, nothing is registered: no connection can add a workspace after
\* the closing loop took its list of names.
THEOREM ClosingIsComplete == Spec => []NothingLeftRegistered
<1>1. WorkspaceInv => NothingLeftRegistered
  BY DEF WorkspaceInv
<1> QED  BY <1>1, WorkspaceInvariance, PTL
=============================================================================
