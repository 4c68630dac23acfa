----------------------------- MODULE Workspaces -----------------------------
(***************************************************************************)
(* The daemon's workspaces: the registry, the connections that add, remove *)
(* and use workspaces, the watchers, configuration reload and shutdown     *)
(* (daemon/registry.rs, workspace.rs, handler.rs, lifecycle.rs, mod.rs).   *)
(*                                                                         *)
(* A workspace handle is reference counted (Arc), and its runtime lives as *)
(* long as somebody refers to it: the registry, a task, or a watcher.  So  *)
(* there is no action that closes a runtime: Referenced tells.             *)
(***************************************************************************)
EXTENDS Naturals, Sequences, FiniteSets

CONSTANTS Name,        \* workspace names; a name stands for its data directory, too
          Conn,        \* connections
          Main,        \* the task of daemon::run
          Configured,  \* the workspaces of the configuration at start
          None,        \* no handle, no watcher
          MaxOpens,    \* bound on the handles opened in a run
          MaxReloads,  \* bound on SIGHUPs
          MaxBatch     \* bound on the paths in a watcher's batch

ASSUME BoundsAssumption == MaxOpens \in Nat /\ MaxReloads \in Nat /\ MaxBatch \in Nat \ {0}
ASSUME NamesAssumption  == Configured \subseteq Name /\ Main \notin Conn /\ None \notin Nat

VARIABLES
    registry,  \* name to registered handle
    handles,   \* every handle opened so far
    watchers,  \* every watcher spawned so far
    task,      \* what each connection, and daemon::run, is doing
    phase,     \* where daemon::run stands
    jobs,      \* what it still has to do in this phase
    soft,      \* the soft shutdown token
    reloads    \* SIGHUPs so far

vars == <<registry, handles, watchers, task, phase, jobs, soft, reloads>>

Task    == Conn \cup {Main}
Handle  == 1 .. Len(handles)
Watcher == 1 .. Len(watchers)

\* Who waits for a runtime's mutex, in order; the first has it (tokio::sync::Mutex).
Waiter == [kind : {"task"}, id : Task] \cup [kind : {"watcher"}, id : Nat]

HandleType  == [name : Name, cancelled : BOOLEAN, slot : Nat \cup {None}, queue : Seq(Waiter)]
WatcherType == [on : Nat, token : Nat, left : 0 .. MaxBatch, done : BOOLEAN]
TaskType    == [pc : {"idle", "insert", "get", "store", "queue", "unwrap", "await", "closed", "panicked"},
                name : Name \cup {None}, watch : BOOLEAN, arc : Nat \cup {None}, spawned : Nat \cup {None}]
Job         == [op : {"open", "watch", "remove"}, name : Name]
Idle        == [pc |-> "idle", name |-> None, watch |-> FALSE, arc |-> None, spawned |-> None]

TypeOK ==
    /\ registry \in [Name -> Handle \cup {None}]
    /\ handles \in Seq(HandleType)
    /\ watchers \in Seq(WatcherType)
    /\ \A w \in Watcher : watchers[w].on \in Handle /\ watchers[w].token \in Handle
    /\ task \in [Task -> TaskType]
    /\ phase \in {"boot", "start", "serve", "reload", "drain", "close", "stopped"}
    /\ jobs \in SUBSET Job
    /\ soft \in BOOLEAN
    /\ reloads \in 0 .. MaxReloads

Init ==
    /\ registry = [n \in Name |-> None]
    /\ handles = <<>> /\ watchers = <<>>
    /\ task = [t \in Task |-> Idle]
    /\ phase = "boot"
    /\ jobs = [op : {"open"}, name : Configured]
    /\ soft = FALSE /\ reloads = 0

(***************************************************************************)
(* References                                                              *)
(***************************************************************************)
Registered(h) == \E n \in Name : registry[n] = h
HeldBy(t, h)  == task[t].pc \in {"insert", "queue", "unwrap", "await"} /\ task[t].arc = h
Watching(w, h) == ~watchers[w].done /\ watchers[w].on = h
Referenced(h) == \/ Registered(h)
                 \/ \E t \in Task : HeldBy(t, h)
                 \/ \E w \in Watcher : Watching(w, h)

\* Arc::try_unwrap
SoleHolder(t, h) ==
    /\ ~Registered(h)
    /\ \A u \in Task : HeldBy(u, h) => u = t
    /\ \A w \in Watcher : ~Watching(w, h)

Set(t, r) == task' = [task EXCEPT ![t] = r]
\* A connection is ready for its next request, daemon::run for its next job.
Finish(t) == Set(t, Idle)

(***************************************************************************)
(* workspace_add, and the same in the loops of daemon::run and the reload  *)
(***************************************************************************)
\* WorkspaceHandle::open; whether the name is taken is looked at later.
Open(t, n, watch) ==
    /\ Len(handles) < MaxOpens
    /\ handles' = Append(handles, [name |-> n, cancelled |-> FALSE, slot |-> None, queue |-> <<>>])
    /\ Set(t, [Idle EXCEPT !.pc = "insert", !.name = n, !.watch = watch, !.arc = Len(handles) + 1])
    /\ UNCHANGED <<registry, watchers>>

Vacant(n) == registry[n] = None

\* A taken name: the new handle is dropped.
Insert(t) ==
    /\ task[t].pc = "insert"
    /\ \/ /\ ~Vacant(task[t].name)
          /\ Finish(t)
          /\ UNCHANGED registry
       \/ /\ Vacant(task[t].name)
          /\ registry' = [registry EXCEPT ![task[t].name] = task[t].arc]
          /\ IF task[t].watch THEN Set(t, [task[t] EXCEPT !.pc = "get"]) ELSE Finish(t)
    /\ UNCHANGED <<handles, watchers>>

\* A watcher on whatever handle the name has now, with the token of the handle the
\* task has inserted.
TokenOf(t, h) == IF task[t].arc = None THEN h ELSE task[t].arc
Spawn(t, h) ==
    watchers' = Append(watchers, [on |-> h, token |-> TokenOf(t, h), left |-> 0, done |-> FALSE])

\* registry.get(&name).unwrap() in a connection: None panics, and the task is gone.
GetAndSpawn(t) ==
    /\ task[t].pc = "get" /\ t \in Conn
    /\ LET h == registry[task[t].name]
       IN  IF h = None
           THEN Set(t, [Idle EXCEPT !.pc = "panicked"]) /\ UNCHANGED watchers
           ELSE /\ Spawn(t, h)
                /\ Set(t, [task[t] EXCEPT !.pc = "store", !.spawned = Len(watchers) + 1])
    /\ UNCHANGED <<registry, handles>>

\* The join handle goes to whatever handle the name has by then, or nowhere.
StoreWatcher(t) ==
    /\ task[t].pc = "store"
    /\ LET h == registry[task[t].name]
       IN  handles' = IF h = None THEN handles ELSE [handles EXCEPT ![h].slot = task[t].spawned]
    /\ Finish(t)
    /\ UNCHANGED <<registry, watchers>>

\* daemon::run and the reload keep one reference from the lookup to the store.
StartWatcher(n) ==
    /\ task[Main].pc = "get" /\ task[Main].name = n
    /\ LET h == registry[n]
       IN  IF h = None
           THEN UNCHANGED <<watchers, handles>>
           ELSE /\ Spawn(Main, h)
                /\ handles' = [handles EXCEPT ![h].slot = Len(watchers) + 1]
    /\ Finish(Main)
    /\ UNCHANGED registry

(***************************************************************************)
(* workspace_remove, and the same in the reload and at shutdown            *)
(***************************************************************************)
Take(t, n) ==
    /\ registry[n] # None
    /\ registry' = [registry EXCEPT ![n] = None]
    /\ Set(t, [Idle EXCEPT !.pc = "unwrap", !.name = n, !.arc = registry[n]])
    /\ UNCHANGED <<handles, watchers>>

\* The last reference: WorkspaceHandle::shutdown.  Otherwise cancel the token and let
\* go - but the loop after lifecycle.run() only logs.
SlipCancels(t) == FALSE
Cancels(t) == t # Main \/ phase # "close"

Unwrap(t) ==
    /\ task[t].pc = "unwrap"
    /\ LET h == task[t].arc
       IN  \/ /\ SoleHolder(t, h)
              /\ handles' = [handles EXCEPT ![h].cancelled = TRUE]
              /\ Set(t, [task[t] EXCEPT !.pc = "await"])
           \/ /\ ~SoleHolder(t, h)
              /\ handles' = IF Cancels(t) THEN [handles EXCEPT ![h].cancelled = TRUE] ELSE handles
              /\ Finish(t)
    /\ UNCHANGED <<registry, watchers>>

\* The watcher in the slot need not be one of this handle.
Await(t) ==
    /\ task[t].pc = "await"
    /\ LET w == handles[task[t].arc].slot IN w # None => watchers[w].done
    /\ Finish(t)
    /\ UNCHANGED <<registry, handles, watchers>>

(***************************************************************************)
(* Operations on the runtime: get the handle, wait for the mutex, work.    *)
(***************************************************************************)
Enqueue(h, x) == handles' = [handles EXCEPT ![h].queue = Append(@, x)]
Dequeue(h)    == handles' = [handles EXCEPT ![h].queue = Tail(@)]
HasMutex(h, x) == handles[h].queue # <<>> /\ Head(handles[h].queue) = x
TaskWaiter(t)    == [kind |-> "task", id |-> t]
WatcherWaiter(w) == [kind |-> "watcher", id |-> w]

Use(c, n) ==
    /\ registry[n] # None
    /\ Enqueue(registry[n], TaskWaiter(c))
    /\ Set(c, [Idle EXCEPT !.pc = "queue", !.name = n, !.arc = registry[n]])
    /\ UNCHANGED <<registry, watchers>>

Work(c) ==
    /\ task[c].pc = "queue"
    /\ HasMutex(task[c].arc, TaskWaiter(c))
    /\ Dequeue(task[c].arc)
    /\ Finish(c)
    /\ UNCHANGED <<registry, watchers>>

(***************************************************************************)
(* Connections                                                             *)
(***************************************************************************)
\* Requests that find no workspace, or a failing open, change nothing.  A request read
\* just before the token was cancelled counts as made before: what sees the difference
\* (Drain, Close) can wait for it, and CloseAll does.
Request(c) ==
    /\ task[c].pc = "idle" /\ ~soft /\ phase # "boot"
    /\ \E n \in Name : \/ Use(c, n) \/ Take(c, n)
                       \/ \E watch \in BOOLEAN : Open(c, n, watch)
    /\ UNCHANGED <<phase, jobs, soft, reloads>>

\* handle_shutdown
ShutdownRequest(c) ==
    /\ task[c].pc = "idle" /\ ~soft /\ phase # "boot"
    /\ soft' = TRUE
    /\ UNCHANGED <<registry, handles, watchers, task, phase, jobs, reloads>>

Continue(c) ==
    /\ Insert(c) \/ GetAndSpawn(c) \/ StoreWatcher(c) \/ Unwrap(c) \/ Await(c) \/ Work(c)
    /\ UNCHANGED <<phase, jobs, soft, reloads>>

\* The token is looked at between requests.
Close(c) ==
    /\ task[c].pc = "idle" /\ soft
    /\ Set(c, [Idle EXCEPT !.pc = "closed"])
    /\ UNCHANGED <<registry, handles, watchers, phase, jobs, soft, reloads>>

(***************************************************************************)
(* Watchers: one step for what module Watcher tells in detail.             *)
(***************************************************************************)
SlipStops(w) == LET h == registry[handles[watchers[w].on].name]
                IN  h # None /\ handles[h].cancelled
Stops(w) == handles[watchers[w].token].cancelled

\* A batch of paths is due; the token is looked at before, and not during it.
StartBatch(w) ==
    /\ ~watchers[w].done /\ watchers[w].left = 0 /\ ~Stops(w)
    /\ \E k \in 1 .. MaxBatch : watchers' = [watchers EXCEPT ![w].left = k]
    /\ Enqueue(watchers[w].on, WatcherWaiter(w))
    /\ UNCHANGED <<registry, task, phase, jobs, soft, reloads>>

\* One path ingested under the mutex; for the next one it queues again.
IngestPath(w) ==
    LET h == watchers[w].on
        x == WatcherWaiter(w)
    IN  /\ watchers[w].left > 0 /\ HasMutex(h, x)
        /\ watchers' = [watchers EXCEPT ![w].left = @ - 1]
        /\ IF watchers[w].left = 1
           THEN Dequeue(h)
           ELSE handles' = [handles EXCEPT ![h].queue = Append(Tail(@), x)]
        /\ UNCHANGED <<registry, task, phase, jobs, soft, reloads>>

StopWatcher(w) ==
    /\ ~watchers[w].done /\ watchers[w].left = 0 /\ Stops(w)
    /\ watchers' = [watchers EXCEPT ![w].done = TRUE]
    /\ UNCHANGED <<registry, handles, task, phase, jobs, soft, reloads>>

(***************************************************************************)
(* daemon::run                                                             *)
(***************************************************************************)
Names == {n \in Name : registry[n] # None}

\* One job of the phase, removals before openings.  An open may fail, a name may be
\* gone, a workspace may have no watch_dirs: then there is nothing to do.
DoJob(j) ==
    /\ task[Main].pc = "idle" /\ phase # "stopped"
    /\ j \in jobs /\ (j.op = "open" => \A k \in jobs : k.op # "remove")
    /\ jobs' = jobs \ {j}
    /\ \/ /\ j.op = "open"
          /\ \E watch \in IF phase = "boot" THEN {FALSE} ELSE BOOLEAN : Open(Main, j.name, watch)
       \/ /\ j.op = "watch"
          /\ Set(Main, [Idle EXCEPT !.pc = "get", !.name = j.name])
          /\ UNCHANGED <<registry, handles, watchers>>
       \/ j.op = "remove" /\ Take(Main, j.name)
       \/ (j.op = "remove" => registry[j.name] = None) /\ UNCHANGED <<registry, handles, watchers, task>>
    /\ UNCHANGED <<phase, soft, reloads>>

FinishJob ==
    /\ Insert(Main) \/ Unwrap(Main) \/ Await(Main) \/ \E n \in Name : StartWatcher(n)
    /\ UNCHANGED <<phase, jobs, soft, reloads>>

\* The socket is bound once all workspaces are open; then the watchers start.
Serving(from, to, todo) ==
    /\ phase = from /\ jobs = {} /\ task[Main].pc = "idle"
    /\ phase' = to /\ jobs' = todo
    /\ UNCHANGED <<registry, handles, watchers, task>>

Listen  == Serving("boot", "start", [op : {"watch"}, name : Configured]) /\ UNCHANGED <<soft, reloads>>
Ready   == Serving("start", "serve", {}) /\ UNCHANGED <<soft, reloads>>

\* reload_config: the difference of the new names and the registry's, taken once.
Reload ==
    /\ reloads < MaxReloads
    /\ \E new \in SUBSET Name :
          Serving("serve", "reload", [op : {"remove"}, name : Names \ new]
                                     \cup [op : {"open"}, name : new \ Names])
    /\ reloads' = reloads + 1
    /\ UNCHANGED soft
Reloaded == Serving("reload", "serve", {}) /\ UNCHANGED <<soft, reloads>>

\* A signal, or the token a connection has cancelled.
Drain ==
    /\ Serving("serve", "drain", {})
    /\ soft' = TRUE
    /\ UNCHANGED reloads

\* tasks.wait(): nobody listens to the hard token, so the end of the grace period
\* changes nothing.
SlipDrainedAtOnce == TRUE
Drained == \A c \in Conn : task[c].pc \in {"closed", "panicked"}
CloseAll == /\ Drained
            /\ Serving("drain", "close", [op : {"remove"}, name : Names])
            /\ UNCHANGED <<soft, reloads>>
Return == Serving("close", "stopped", {}) /\ UNCHANGED <<soft, reloads>>

Run == Listen \/ Ready \/ Reloaded \/ CloseAll \/ Return \/ FinishJob \/ \E j \in jobs : DoJob(j)

Step ==
    \/ Run \/ Reload \/ Drain
    \/ \E c \in Conn : Request(c) \/ ShutdownRequest(c) \/ Continue(c) \/ Close(c)
    \/ \E w \in Watcher : StartBatch(w) \/ IngestPath(w) \/ StopWatcher(w)

\* The process ends, and every task with it.
Stopped == phase = "stopped" /\ UNCHANGED vars

Next == (phase # "stopped" /\ Step) \/ Stopped

Spec == Init /\ [][Next]_vars

\* Tasks that can go on do: the executor polls each of them, the mutexes queue in
\* order, and an ingestion, which is loops over finite lists and calls of Pandoc,
\* ends.  Nothing is assumed about requests, signals and file events.
FairSpec ==
    /\ Spec
    /\ WF_vars(Run \/ (soft /\ Drain))
    /\ \A c \in Conn : WF_vars(Continue(c) \/ Close(c))
    /\ \A w \in 1 .. (MaxOpens + Cardinality(Configured)) :
          WF_vars(w \in Watcher /\ (IngestPath(w) \/ StopWatcher(w)))

(***************************************************************************)
(* Properties that hold                                                    *)
(***************************************************************************)
\* No watcher outlives its workspace for want of a signal: the token it looks at is
\* cancelled, or belongs to a handle that a later removal will find and cancel.  The
\* token may be another handle's than the one it watches, when a workspace is removed
\* and added again between the insertion and the lookup of workspace_add.  Only the
\* loop at shutdown takes workspaces away without a signal.
WatchersCanStop ==
    phase \notin {"close", "stopped"} =>
        \A w \in Watcher : LET k == watchers[w].token
                           IN  \/ watchers[w].done \/ handles[k].cancelled \/ Registered(k)
                               \/ \E t \in Task : task[t].pc = "unwrap" /\ task[t].arc = k

\* "the workspace cleans up when the last Arc drops": it does drop.  Once no more
\* workspaces are opened, only the registered ones stay open: neither a watcher that
\* nothing stops, nor a task that waits for ever, keeps the runtime of a removed one.
Lingering(h) == Referenced(h) /\ ~Registered(h)
RemovedIsReleased == <>[](phase \in {"close", "stopped"} \/ \A h \in Handle : ~Lingering(h))

\* A shutdown comes to its end, whatever was under way when it was requested: every
\* request is answered, for neither a mutex nor the wait for the watcher in the slot,
\* whichever that is, blocks for ever; a reload is finished; a connection whose task
\* has panicked is not waited for.  Neither soft nor the phase "stopped" is ever taken
\* back, so this is soft ~> phase = "stopped".
ShutdownCompletes == <>[](soft => phase = "stopped")

\* Nothing is registered behind the back of the closing loop, which has taken the
\* list of names once.
NothingLeftRegistered == phase = "stopped" => Names = {}
=============================================================================
