# text-runtime in TLA+

text-runtime turns documents into trees of nodes with permanent identities. Pandoc parses a file, the segmenter splits
it into blocks and sentences, every node gets a UUID v7, block ASTs go to content files and everything else to SQLite.
Annotations, transclusion edges and agents hold on to node UUIDs from outside, so the value of the whole system rests on
what ingesting a file *again* does to the UUIDs it already handed out. A daemon serves several such stores
("workspaces"), watches their files and ingests what changes.

This directory models that program. `src/` below stands for the repository, and all source paths without a directory
are under `text-runtime/src/`.

## 1. Inventory

| Component | State | Operations | Hard part | What makes it correct |
|---|---|---|---|---|
| Ingestion pipeline: `pipeline/ingest.rs`, `reingest.rs`, `pipeline/{uuid_assigner,content_writer,sqlite_writer,activity_logger}.rs` | the tree in memory, the rows it loaded | `run_pipeline` | some twenty separate commits, any of which may be the last one; greedy matching of old and new nodes | exact result when completed, identities kept, nothing of other documents touched |
| Store: `store/{db,content,types,mod}.rs` | five SQLite tables, one file per block | one statement or rename each | two stores without a common commit, foreign keys, upserts that revive rows | files before rows, parents before children |
| Transclusion: `transclusion.rs` | edges with the version they included | create, detect stale, refresh | staleness is seen through versions only | never ahead of the target |
| Runtime: `runtime.rs` | store, Pandoc server | ingest, read, annotate, search, transclude, toc | callers bring UUIDs from older projections | as for the store |
| Segmenter, inline mapping: `pipeline/{segmenter,inline_mapping}.rs` | none | AST to tree, text to spans | one position counter over a nested walk, texts joined per level, sentence boundaries inside atomic inlines | a tree that can be stored, every text once; spans that tile the text and cut no atom |
| Anchoring, reconciliation: `annotation/*.rs` | an annotation's selectors and status | reconcile, resolve, classify | two cascades of fallbacks over changed text, bytes against characters | the text alone decides; the context leads to the span that moved |
| Projection, queries, agent view: `projection.rs`, `store/queries.rs`, `agent.rs` | none | read, siblings, prev, next, toc, number sentences | rows of other documents and of half-finished ingestions; blocks stored twice | reading is the reverse of ingesting |
| Registry and handlers: `daemon/{registry,workspace,handler}.rs` | map of open workspaces, references to runtimes | add, remove, ingest, read, annotate, ... | connections, configuration reload and shutdown share the map | one runtime per path, closed once |
| Watcher: `daemon/watcher.rs` | pending events, stat and hash caches | event, debounce, process | events during processing, errors of reading and ingesting, cancellation | every saved change is eventually ingested, or met an error |
| Lifecycle: `daemon/{lifecycle,mod,config}.rs` | cancellation tokens, task tracker, shutdown phase | run, reload, two-phase shutdown | tasks that do not look at the token | all workspaces closed, and an end |
| Lock, socket: `daemon/{lock,socket}.rs` | lock, PID file, socket path | acquire, bind, accept, drop | two daemons starting and stopping at once | one daemon owns each of the three |
| Pandoc server: `pandoc_mgr.rs` | child process, port | start, health check, convert, shutdown | several runtimes, in several processes, on one port | no server left behind or stopped by somebody else's runtime |

How they interact: the watcher and the connection handlers reach a runtime through the registry and lock its mutex for
the whole of a call, an ingestion included; the runtime calls the pipeline, which calls the store. Shutdown and reload
cancel tokens that the watcher and the accept loop poll. Between processes there are only the lock, the PID file, the
socket path and Pandoc's port. The store outlives the process; everything else is lost with it.

The hazards, each at its line, are listed in `PROJECT.json` under `hazards`; those without a property say why.

## 2. Modules

| Module | What it is |
|---|---|
| `IdentityLedger` | abstract specification: what a node UUID goes through (published, revised, retired) |
| `Ingest` | the tables, the content directory, and every step of the pipeline and of the operations that hold UUIDs; its properties |
| `IngestInv` | the inductive invariant of `Ingest`, in named parts |
| `Readers` | what readers get of the store that `Ingest` writes, held against the source |
| `MCIngest` | small texts, sources and an edit-distance table for TLC |
| `PowerLoss`, `MCPowerLoss` | `Ingest` on a machine that may lose its power; the values of `MCIngest` for it |
| `Projection` | operators: the blocks a document reads back as, and the queries on the tree |
| `Segmenter`, `MCSegmenter` | the walk over the blocks of a document; the tree stored and read back |
| `Inlines` | the walk over the inlines of a paragraph, its sentences, and the lookup of an offset |
| `Anchoring` | an annotation on a text that is edited: its selectors, where it resolves to, its properties and inductive invariant |
| `PandocPort`, `MCPandocPort` | the Pandoc servers that runtimes start on one port; three runtimes for TLC |
| `Watcher` | the watcher of one workspace, the files it watches, and clients that ingest them too; its properties and inductive invariant |
| `Workspaces` | the registry, connections, watchers as holders of runtimes, reload and shutdown; its properties |
| `DaemonLock` | daemons that start, stop and crash over one state directory, on Linux: lock, PID file, socket file; its properties and inductive invariant |
| `PidFlock` | the lock of macOS, by itself |
| `Ingest_proofs` (with `PowerLoss` and the ledger), `Segmenter_proofs`, `Inlines_proofs`, `Anchoring_proofs`, `Watcher_proofs`, `Workspaces_proofs`, `DaemonLock_proofs`, `PandocPort_proofs` | the theorems |

`Ingest`, `Watcher` and `Workspaces` meet at `IngestFile`. To `Watcher` an ingestion is one step that stores the file's contents
or fails, because it runs under the runtime's mutex; `Ingest` tells what happens inside; `Workspaces` tells who waits
for that mutex, and why there may be two of them. `Workspaces` and `DaemonLock` meet at the end of `daemon::run`: what
the closing loop leaves open in the one is still open while the other releases the lock.

A document goes through `Inlines` (which sentences a paragraph can have), `Segmenter` (the tree), `Ingest` (the rows and
files) and `Projection` (back to blocks). `Segmenter` takes from `Inlines` what `SpansTile` says, sentences that tile
the text, and nothing more; `Ingest` takes from `Segmenter` the shape its `SourceAssumption` names: the root first and
without a fragment, parents before children, which is part of `Storable`. `MCSegmenter` and `Readers` both read the tree
back with `Projection`, the one over every small document, the other over stores with several documents and crashes.

### State of `Ingest`

| Variable | In the code |
|---|---|
| `docs` | table `documents`, in rowid order; a document is its index (the UUID stands for it) |
| `nodes` | table `nodes`: UUID to row; `pos` is the rank of `position`, which the segmenter counts over the whole document in preorder |
| `annos`, `edges`, `activities` | the other three tables |
| `content` | `content/xx/<uuid>.json` |
| `stage`, `job` | where `run_pipeline` stands, its arguments, and `existing_nodes` |
| `ids`, `at` | the UUID and version of each node of the new tree so far, and the node the current walk is at |
| `next` | UUID v7 values are allocated in increasing order; the next one |
| `ingests`, `aborts` | counters that bound a run |

A source is the tree the segmenter returns, in preorder, each node with the index of its parent. Texts are values: two
texts are the same element exactly if they are equal after trimming, that is, if their structural hashes are equal, and
`Ratio` gives the edit-distance ratio of any two. Titles, formats, hashes, timestamps, offsets and section numbers do not
influence the steps and are left out.

### Actions of `Ingest`

`Resume` and `Create` are `run_pipeline` up to the UUIDs (parse, segment, find the document by path, load its active
nodes). Then the stages, one node or one statement per step:

    match      MatchExact / MatchFuzzy / MatchNone      diff_recursive
    retire     RetireNode ... RetireDone                update_node_status
    orphan     OrphanAnnotations ... OrphanDone         update_orphaned_annotations
    assign     AssignUuid                               assign_uuids (new documents)
    content    WriteContent                             tmp file, fsync, rename
    document   UpsertDocument                           documents row
    rows       UpsertNode                               collect_and_insert_nodes
    activity   LogActivity                              activities row

`Abort` may end the pipeline between any two steps: it is a crash of the process as much as an error of a file or a
statement, because the pipeline undoes nothing. `Annotate`, `Transclude` and `Refresh` are single calls of the runtime;
they, like the next ingestion, wait for the runtime's mutex, so none runs inside an ingestion. `Refresh` may stop at an
error after some of its updates. `ResumeBlind` is the case of the code's second lookup failing where the first one
succeeded (`ingest.rs:125-128` swallows the error); only `LossyNext`, which `PowerLoss` runs, has it.

`PowerLoss` adds `durable`, the database and the files as of the commit the next loss will leave (`Sync`), and `powered`.
SQLite runs with `synchronous = NORMAL` (`db.rs:70`) and syncs its log when it likes, so a loss may leave any earlier
commit. A content file is synced before it is renamed (`content.rs:79-87`) and its directory is not, so of the renames
since that commit each may be lost or not; those before it are safe, as a journaling file system has them in the log
ahead of the database's sync. `Lose` ends the process, and nothing happens before `Reopen`.

### State and actions of `Watcher`

| Variable | In the code |
|---|---|
| `disk`, `clock` | the watched files; a stamp stands for (size, mtime), and each save gets a new one |
| `events` | notify's channel, and the events the system has raised but not delivered |
| `cancelled` | `watcher_token` |
| `pending`, `cache` | the maps `pending` and `stat_cache` |
| `batch`, `pc`, `path`, `seen` | the rest of the drained map, and the loop body's place and locals |
| `stored`, `missed` | what the runtime last ingested from each path, and (auxiliary) the version of it at whose reading or ingestion an error last occurred |
| `changed` | (auxiliary) the paths saved since the watch began |

`Stop`, `Receive` and `Fire` are the branches of the select. Receiving event by event covers the inner `try_recv` loop:
an event that is raised but not delivered is in `events` as well, so the timer may fire with `events` not empty. The
body of the loop over the batch is `ForgetRemoved`, `TakeModified`, `Stat`, `Hash`, `Ingest` and `Remember`, each one
access to the disk or the runtime, so that saves, removals and requests of clients fall between any two. An ingestion
may fail (`IngestFile`), and before it `is_file`, `metadata` and `hash_file`, also with a file that is there: a lack of
rights or of descriptors, a bad block. Each ends the path (`Miss`); `metadata` drops the cache entry, `hash_file` leaves
it as it is. A file system that raises more events than one per save only repeats what is in the map.

### State and actions of `Workspaces`

| Variable | In the code |
|---|---|
| `registry` | the `DashMap` from names to `Arc<WorkspaceHandle>` |
| `handles` | each handle's name, token, `watcher_task` slot, and the queue of its runtime's mutex |
| `watchers` | each watcher's handle, token (not always of that handle), and what is left of its batch |
| `task` | what each connection, and `daemon::run`, holds and is about to do |
| `phase`, `jobs` | the part of `daemon::run` under way, and what is left of its loop |
| `soft`, `reloads` | the soft shutdown token; the number of SIGHUPs, bounded |

Reference counts are not stored: `Referenced` and `SoleHolder` derive them from who holds what. A runtime lives as long
as its handle is `Referenced`. `workspace_add` is `Open`, `Insert`, `GetAndSpawn`, `StoreWatcher`, with other tasks in
between; `workspace_remove` is `Take`, `Unwrap`, `Await`; reading, ingesting, annotating and searching are `Use` and
`Work`. The loops of `daemon::run`, of the reload and of the shutdown are `DoJob` and `FinishJob` over `jobs`, with the
same `Open`, `Insert`, `Take`, `Unwrap` and `Await`. A SIGHUP, a signal, an IPC shutdown and a file event may come at
any time the code listens for them.

### State and actions of `DaemonLock` and `PidFlock`

| Variable | In the code |
|---|---|
| `pc` | how far each process has come in `daemon::run` |
| `held` | the bound name in the kernel's abstract socket namespace, which is the lock |
| `pid`, `socket` | the PID file and the socket file, by the daemon they belong to |
| `loops` | the daemons whose accept loop, and with it a reference to the guard of the socket file, is alive |
| `stores` | the daemons that have the stores of the workspaces open |
| `starts` | bounds a run |

`Acquire`, `WritePid` (its errors are ignored), `OpenStores`, `RemoveStale`, `Bind` are the start in the order of `run`;
`Refuse` is the drop of the lock that was not acquired, `Fail` an early return. `Shutdown`, `CloseAll`, `RemovePid`,
`Release`, `Exit` are the end: `drop(guard)`, `drop(lock)` with its `Drop` before its fields, and the executor, which
drops the tasks that are left. `LoopEnds` may come anywhere among them, because nobody waits for the accept loop; the
socket file is unlinked by whichever of `drop(guard)`, the loop and `Exit` comes last. In `Crash` the kernel closes what
the process held, and files stay. `PidFlock` numbers the files that have had the PID path one after the other: the lock
belongs to the file, and `RemovePath` comes before `CloseFile`.

### State and actions of `Inlines` and `Segmenter`

Both read their input as they walk it: a step meets any inline (block), or the end of the innermost list, so that the
behaviours are the walks over all inputs up to the bounds. The recursion of the code is a stack.

| Variable of `Inlines` | In the code |
|---|---|
| `flat`, `blank` | the length of `flat_text`, and whether trimming leaves nothing of it |
| `positions` | the position index; a path is `inline_stack` |
| `stack`, `here`, `atomic` | `container_stack` with the loop index and `inherited_atomic` of each level |
| `brk`, `spans` | the last breakpoint taken, and the sentence spans |
| `stage`, `count` | the part of `segment_paragraph` under way; bounds a run |

`Str`, `Blank`, `Atom`, `Container`, `Image` and `Note` are the arms of `walk_inlines`, `Leave` the end of a recursion;
`Segment` is the early return for blank texts, and `Window` one round of `map_sentence_boundaries`, whose breakpoints
the external sentence segmenter chooses. `Found` is `find_inline_position`.

| Variable of `Segmenter` | In the code |
|---|---|
| `out` | the nodes in preorder, which is the order `children` are pushed in; each with its parent's index |
| `open` | the recursion: the node whose children are walked, and the texts its loop has joined so far |
| `counter` | `position_counter`, in steps of 1000 |
| `loose`, `written` | (history) the blocks that stand in nothing but Divs and Figures, and all texts |
| `stage`, `count` | whether the walk is over; bounds a run |

Each arm of `walk_blocks` is an action; a text is the sequence of its bytes, each named by its block, so that a lost,
doubled or misplaced byte shows. `Close` gives a container its joined text, as the code does after its loop. `Collected`
is `collect_plain_text`, by which the ingestion sets the root's text.

### State and actions of `Anchoring`

`text` is the document's text in UTF-8 bytes with letters of one byte and of two, `anno` the selectors, `truth` (history)
where the annotated bytes are after the edits, `edits` a bound. `Annotate` is `reconcile_selectors`, or an annotation
made with one selector only; `Insert` and `Delete` edit one character. `Resolve` and `Classify` are the two cascades, and
slicing inside a character is the outcome `Panic`. A span is annotated only where making its context does not panic.

### State and actions of `PandocPort`

| Variable | In the code |
|---|---|
| `phase`, `child`, `attempts` | of each runtime: closed, in `start` or open; `PandocManager.process`; failed health checks |
| `server`, `port` | what became of each server process, and which one is bound to the port |
| `answered`, `orphans` | (history) who answered each runtime's health check; children of killed processes |
| `crashes` | bounds a run |

`Open` spawns a child, `Bind` is the child's attempt to get the port (it exits if the port is taken), `HealthCheckPasses`
takes the answer of whoever has the port, `HealthCheckFails` counts, and gives up after the last attempt, which drops
the manager. `Close` and the drop kill the child (`Kill`), and the kernel ends it later (`End`), so that a killed server
may still answer. `Crash` ends a process without drops: its children go on.

## 3. Properties

Properties of `Ingest` that hold:

- `CompletedIngestExact`: when an ingestion reaches its activity record, the active rows of its document are exactly the
  nodes of the source, each with its text, type, position and content file, whatever earlier ingestions were cut short.
  This is how the code recovers: there is no rollback, the next ingestion repairs.
- `ActiveBlocksReadable`: at any moment each active block has a content file.
- `ForeignKeysHold`: no statement meets a missing document or parent.
- `AnnotationsFollow`: after the diff, no annotation of a node it deleted is active.
- `ImplementsLedger`: the pipeline refines `IdentityLedger` under `LedgerView`.
- `IdentityKept`: a text found again keeps its UUID and version wherever it moved, unless something competes for it.
- `RepairedExact` (`PowerLoss`): a completed ingestion leaves the rows and the files of its source, and a diff no other
  row, also where the files are newer than the rows they belong to, or some newer and some older, and where lookups were
  lost before. It holds because every ingestion writes all files again; `SlipSkipUnchanged`, which saves those whose row
  is unchanged, breaks it.
- `EdgesNeverAhead`, `VersionTracksText`: what staleness detection relies on.
- `FirstReadExact` (`Readers`): a document ingested for the first time reads back as the blocks of its source, whatever else is in
  the store. For a re-ingested one this is false; see below.
- `QueriesExact` (`Readers`): the table of contents lists the headings in the order of the text, after re-ingestions that moved
  them too; siblings and neighbours of a first ingestion are those of the source.
- `AncestorsEnd` (`PowerLoss`): although a lost lookup writes one tree over another with the same UUIDs, and crashes leave parts of
  both, no row becomes its own ancestor (a reader following parents or children would not return).
- `OrphansStayDeleted`: the node of an orphaned annotation is deleted, and no later ingestion, completed or cut short,
  brings it back; nothing in the code makes an orphan active again. A diff that loads rows of any status
  (`SlipNodesAnyStatus`) breaks it.
- `OtherDocumentsUntouched`: an ingestion changes rows of its own document only.

Properties of `Watcher` that hold:

- `NothingForgotten`: while the watcher runs, a changed file whose contents the runtime does not have is announced: by
  an event, in `pending`, in the batch, or in hand before the ingestion reads it, unless an error occurred with this very
  version. A save that comes after the stat of an older version, whose hash or ingestion then fails, is not forgotten:
  its event comes behind. The code is right here against its own comment ("A Modified never overwrites a Removed", `watcher.rs:222`): honouring it is the
  mutant `SlipNoted`, which loses saves.
- `StatTellsContents`: a file with the remembered stat has been ingested as it is, or met an error. It needs the stat to be
  taken before the ingestion (`SlipStatAgain` takes it after).
- `Settles`: when editors come to rest, the runtime gets the last contents of every changed file, but for those an
  error occurred with.
- `StopsWhenCancelled`: whatever the batch and the queue hold.

Properties of `Workspaces` that hold:

- `WatchersCanStop`: the token a watcher looks at is cancelled, or belongs to a handle somebody will still cancel; this
  is not obvious, since an add that loses the race against a removal and another add pairs the token of its own handle
  with somebody else's workspace.
- `RemovedIsReleased`: in the end nobody holds a workspace that is not registered.
- `ShutdownCompletes`: a shutdown ends, although the wait has no effective timeout (`lifecycle.rs:159-160` waits again
  for the same tasks, and nobody listens to the hard token) and a removal may wait for another workspace's watcher.
- `NothingLeftRegistered`: the closing loop, which lists the names once, misses none.

Properties of `DaemonLock` that hold:

- `PidFileTrustworthy`: a PID file that names a running daemon names the holder of the lock. It needs the file to be
  removed before the lock is released (`SlipNext` has it the other way round).
- `StoresShared`: two daemons use the stores at a time only while one of them is exiting. More is not true: the lock is
  released while watchers, which nobody waits for, still hold their workspaces.
- `NoForeignSocket`: while a daemon serves, the socket file does not lead to another one.
- `StaleNeverBlocks`: whatever crashed daemons left, the path is free when the holder of the lock binds it.

Properties of `Inlines`:

- `SpansTile`: the sentences follow each other without gap or overlap and cover the text, although both ends of each
  are pushed on their own and sentences left empty are dropped. `SlipSentence` leaves the second test out.
- `AtomsUncut`: no sentence ends inside a run of code, mathematics, raw text or of an image's caption, however deep.
- `PathsInOrder`: paths grow from position to position, so each leads to its own run of text, although skipped and
  empty inlines and containers without text give no position.
- `OffsetsFound`: every offset is found at a position that touches it, next to empty runs and at the end of the text.

Properties of `Segmenter` and `MCSegmenter`:

- `Storable`: the tree can be stored as `Ingest` stores it, and positions alone put the rows back into preorder.
- `RootCollectsAll`: the root's text has the text of every block once and in order, although containers keep copies.
- `ContainersCollect`: a container's text has each text below it once, except what stands in a list.
- `ReadBack`: the stored tree reads back as the blocks of the document, although blocks in quotes and lists are stored
  both by themselves and inside their container.

Properties of `Anchoring`:

- `QuoteDecides`: an annotation with a quote is an orphan only if the quote is nowhere in the text, and else resolves to
  a span that reads as the quote, whatever its stale position says.
- `CascadesAgree`: the two cascades give the same span and the same verdict, and panic on nothing but a character of
  more than one byte.
- `FollowsContext`: a span that moved with its context is found among all other occurrences that have less of it, unless
  one of them has come to stand at the old position.

Properties of `PandocPort`:

- `NoStrayServer`: a running server is the child of a runtime, or of a process that was killed.
- `ServedByAnswerer`: an open runtime is served while the server that answered it runs, and for as long as it is open if
  that is its own child.
- `OpeningEnds`: an opening ends, with a server or an error.

Statements of the documents and comments that the code does not fulfil, each with the run that shows it:

| Run | Statement | What happens |
|---|---|---|
| `reread` | "The reverse of ingestion" (`projection.rs:3`) | a re-ingestion never sets `parent_uuid`, so every row of the document loses its parent (`schema.md:67` has NULL for the root only), and a read finds no block below the root |
| `macos` | "Ensures only one daemon instance runs at a time." (`lock.rs:3`) | whoever opened the PID file before its holder removed the path gets the lock of a file without a path; the next daemon creates another one and locks it too |

Further divergences, which the models have as actions, omissions or limits of their properties:

- "Exact hash match → Keep UUID" (`storage-architecture.md:456`): a paragraph and its only sentence have one text, and
  the root, empty during the diff, matches no row of its own, so re-ingesting an unchanged file can move UUIDs between
  nodes; `IdentityKept` is what holds.
- "The Mutex serialises all operations" (`workspace.rs:28`): a workspace removed while in use and added again has two
  runtimes, and two mutexes, on one store (`Open`, `Unwrap` of `Workspaces`).
- "Cancel watcher_token, await watcher_task join, Runtime.close()" (`daemon-architecture.md:864`): a watcher holds its
  workspace, so `try_unwrap` fails, the token is not cancelled and the workspace is not closed (`Unwrap`).
- "9. Unlink socket file", "10. Release PID file lock" (`daemon-architecture.md:871-872`): the accept loop may drop the
  last guard after the lock is released, and unlink the socket file of the next daemon, which then serves at no path
  (`LoopEnds`); `NoForeignSocket` is what holds.
- A boundary inside an Image is to be pushed out (`inline_mapping.rs:46-49`); a caption is atomic only run by run, and a
  boundary between two runs of one caption stays. `AtomsUncut` speaks of runs.
- An offset within an inline is to count within "that inline element" (`types.rs:31`); the offset of a leaf counts from
  the start of its parent (`PathTo`).
- A Figure's content file, which holds its caption, is never read ("block nodes (has_content=1): read content file",
  `projection.rs:45`): sections are read through (`ReadThrough`). The definitions of a definition list and the cells of
  a table are in no plain text.
- "then prefix-only, then suffix-only" (`anchoring.rs:138-139`): a prefix and a suffix give one point each, and the
  first of equals wins (`Score`, `Best`).
- "Find all occurrences" (`anchoring.rs:120`): `match_indices` skips those that overlap one it has found (`Matches`);
  `FollowsContext` leaves such quotes out.
- A resolved position may be empty where a classified one may not (`anchoring.rs:75,203`); annotations on empty spans
  are left out of `Anchoring`.
- A word boundary counted in characters is used as a byte offset (`reconcile.rs:100,142`): the prefix of the text
  "éé b" cannot be built without a panic, and other texts get a context that begins inside a word (`PrefixPanics`).
- "Returns error if server doesn't respond within 10s" (`pandoc_mgr.rs:43`): the delays of the ten attempts add up to
  31.9 s. "Sends SIGTERM" (`pandoc_mgr.rs:278`): `start_kill` is SIGKILL.
- A runtime whose health check was answered by another runtime's server is without one when that is closed, and nothing
  restarts it; `ServedByAnswerer` promises no more.
- Rows are not written "in a single transaction" (`sqlite_writer.rs:3`): every statement commits alone, and a crash
  leaves part of an ingestion (`Abort` between any two `UpsertNode`). `CompletedIngestExact` is what holds instead.
- "stat unchanged — skip (no content change possible)" (`watcher.rs:156`): a file moved away and back keeps its stat; if
  a client has ingested another version from its path meanwhile, that one stays. `Watcher` gives every save a stat of
  its own.
- A daemon that is refused the lock on Linux removes the PID file of the running one (`lock.rs:133-138`; the macOS
  `Drop` looks at `is_single` first); `Refuse` does the same.
- `root_node_uuid` is never updated by a re-ingestion, whatever `schema.md:49` says (`UpsertDocument`).
- Edges to deleted nodes stay live (`storage-architecture.md:472` has them orphaned; no action does so).
- A deleted node can be annotated, since `get_node` finds rows of any status (`runtime.rs:228`), and no later ingestion
  orphans that annotation (`storage-architecture.md:470` promises it).
- A root that took the row of a thematic break changes its text under the old version (`ingest.rs:160`), which is why
  `VersionTracksText` leaves roots out.
- A failed second lookup counts as not found, and a known document is ingested beside itself (`ResumeBlind`).
- The watcher computes a file's hash and compares it with nothing (`Hash`; `daemon-architecture.md:609` compares it with
  the import hash). It tries nothing again: after a failed ingestion (`Remember`), and after an error of `is_file`,
  `metadata` or `hash_file` on a file that is there (`TakeModified`, `Stat`, `Hash`; `watcher.rs:145,163-169,202`), the
  runtime keeps the older contents until an event of another change; no document promises a retry.
- `workspace_add` panics if its workspace is removed before it looks it up again (`GetAndSpawn`).

## 4. Runs

`MCIngest` gives `Ingest` its values; 20 percent is the code's default threshold.

| Run | Bounds | Question |
|---|---|---|
| `crash` | 1 path, 3 sources, 3 ingestions, 1 abort, 1 annotation | what survives and repairs a crash at every step; orphans |
| `edits` | 1 path, 6 sources, 3 ingestions, 1 edge | identities, versions and queries under all sequences of edits |
| `lossy` | 1 path, 2 sources, 3 ingestions, 2 aborts or lost lookups, 1 power loss, 1 annotation | independence of documents that share a path; what is left, and repaired, when the lookup fails and when the power is lost |
| `reread` | 1 path, 2 sources, 2 ingestions | the statement above |
| `spans` | 4 inlines, depth 2, texts of up to 3 bytes | position index and sentences of every paragraph and every segmentation |
| `blocks` | 4 blocks and items, texts of up to 2 bytes | tree, texts and reading back of every document |
| `anchors` | texts of up to 5 bytes, context of 2 bytes, 2 edits | what becomes of every annotation |
| `ports` | 2 runtimes of the daemon and 1 of another process, 4 servers, 2 health checks, 1 killed process | who has a server, and who stops it |
| `saves` | 2 files, 2 contents, 2 saves | whether a save can be lost, and whether the watcher settles and stops |
| `daemon` | 1 name (configured), 2 connections, 2 handles, 1 reload, batches of 1 | references, tokens, reload and shutdown |
| `instances` | 3 daemons, 4 starts | lock, PID file, socket and stores under starts, stops and crashes at every step |
| `macos` | 3 daemons, 3 files | the statement above |

Three ingestions are what the interesting histories need: one to create, one to be cut short, one to repair. The sources
contain a paragraph with one sentence (equal texts in two nodes), the same after a small edit (fuzzy match), a heading
and the paragraph, two headings in both orders (move, insertion, deletion), a thematic break (empty text), and a
section with the text of the paragraph in it. In `lossy` a power loss takes back the commits of one ingestion at most
(`Running`), which is enough for files that are newer than their rows, and for a tree without its newest nodes.
`MaxUuid = 12` is never reached: three ingestions of at most four nodes allocate no more. `Cardinality(annos)` is
bounded, and equal annotations are one element of a set; the code's annotations differ in their own UUIDs, but each
follows its target alike.

Two saves are what a lost update needs (one in hand, one racing with it), and the second file shows that batches are
processed path by path. Requests and failures are not bounded. In `daemon`, two handles of one name are a
workspace and its successor; with a second connection, one can overtake another anywhere in an add or a removal, and up
to three watchers come about (a `watch_dirs` of the configuration besides those of the adds). Batches of one path do not
reach the requeueing between two paths of a batch; the same properties hold with one connection and batches of two.
`MaxOpens` bounds a whole history, so `RemovedIsReleased` speaks of its end.

In `spans`, four inlines nested two deep are an image in a container with runs before or after it, or three runs in a
container, and three bytes let a boundary be nearer to either end of an atom. In `blocks`, four blocks are a list of two
items with a block in one, or a paragraph in a quote in a quote. In `anchors`, five bytes are two occurrences of a quote
with some context, a context of two bytes is shorter than what stands before most spans, and two edits can move a span
and spoil another occurrence. In `ports`, the fourth server lets a runtime come back; with two health checks an opening
may succeed at once, late, or not at all. The proofs of section 5, where there are any, hold without these bounds.

In `instances` three daemons are one that holds the lock, one that is refused and one that comes after; the fourth start
lets one of them come back. Deadlock is not checked where the system
may come to rest: `Watcher` after its stop, the locks when all starts, `PandocPort` when all servers, and `Anchoring`
when all edits are used up.

Fairness: `Ingest` has none; its stages are loops over rows and nodes that end by themselves. `Watcher!FairSpec` has
weak fairness of the watcher's task: its timer fires and the runtime's mutex, a FIFO queue held for single operations,
comes to it. In the code each event restarts the debounce timer, so an endless stream of events could hold it up for
ever; with bounded saves and removals there is no such stream, and `Settles` says as much: when editors come to rest.
`Workspaces!FairSpec` has weak fairness of `daemon::run`, of each connection with a request in hand or the token
cancelled, and of each watcher's ingestion and stopping. This takes for granted that a client reads its answer (a full
socket buffer would block the connection) and that an ingestion ends: it is loops over finite lists, and its calls of
Pandoc are assumed to return. Nothing is assumed about requests, signals, file events and failures.
`PandocPort!FairSpec` has weak fairness of the health checks, which are a loop with delays of its own, and of what the
kernel does: it runs a process that was started and ends one that was killed. Nobody is assumed to open or close.

Every property of a passing run comes with a mutant: a definition `Slip...` that a programmer might have written
instead. No specification uses them.

## 5. Proofs

Every safety and action property that `Ingest`, `PowerLoss` and `Readers` state and that holds is proved in `Ingest_proofs`, for
all sources, texts, paths, thresholds and bounds. The theorems about `Spec` have the second lookup of a document find
what the first one found; those about `PowerSpec` do not, and may lose the power at any moment. Assumptions are the
`ASSUME`s of `Ingest` and `PowerLoss`: the types of the constants and the shape of a segmented tree (the root comes
first with an empty text and no fragment, parents come before children). Nothing is assumed about `Ratio` but that its
values are naturals.

No property is inductive by itself; `IInv` (module `IngestInv`) is:

- `Walking`, `Numbering`, `RowsLoaded`: where the walk stands in each stage, typed;
- `FreshUuids`: rows and given UUIDs are below `next`, and no UUID is given twice;
- `LoadedRows`: the rows the diff loaded belong to the document, and are active until the last node is matched;
- `Decisions`: until its row is written, each given UUID is either unknown to the table, with version 1, or a loaded and
  still active row with the version the diff saw or the next one (the same version only for the same text); afterwards
  its row is the one of the source. This is the part that ties the diff, which reads once, to the writer, which writes
  later;
- `DiffCovers`: every active row of the document is among the loaded or the given ones, and the unmatched are deleted
  after the retire stage;
- `FilesFirst`: the content stage has written the files of the nodes behind it.

`ExactIngest` follows from `Decisions`, `DiffCovers` and `FilesFirst` at the stage `activity`; `KeepsTheLedger` maps
`UpsertNode` to `Publish` or `Revise` by `Decisions`, `RetireNode` to `Retire`, and all else to a stutter;
`IdentityForever` combines it with the theorem `Forever`, which is about the ledger alone. `IdentitySurvives` has an invariant of its own
(`KeptSoFar`): a row with no competitor is still free when the walk reaches its text. `OrphansForGood` holds because the
orphaning comes after the deletions and takes unmatched rows only, and because by `Decisions` a row that is written was
unknown or active until then.

`QueriesAnswer` and `FirstReadIsExact` need no further invariant: at `activity`, `ExactIngest` and `Decisions` say what the
rows of the document are, and the rest is about `Projection`, for any rows. A query lists a row at the rank of its
position (`ByPosition`), and giving rows their UUIDs renames them without changing a rank; that is `QueriesExact`. For
`FirstReadExact` the blocks below a node are a recursion from a row to its children. It is one function and no other
because rows stand behind their parents, which the last node without a value, or with two, would contradict. Read under
UUIDs or under the source's own numbers it is the same recursion. `BlocksOf` is thus a reading too; that what it gives
are the blocks of the document is what `ReadBack` of `MCSegmenter` says, proved in `Segmenter_proofs`.

With lost lookups and power losses most of `IInv` is false: a blind ingestion gives UUIDs that are in the table, and
the files may be ahead of the rows. `PowerInv` is what is left of it and enough. `Survivable` holds of the store as it
runs and of the commit the next loss will leave: rows and files are typed, documents and parents are there, active
blocks have files, and no row is its own ancestor. `OwnRows` and `WrittenRows` say that an ingestion has only taken over
rows of its document and that a row it has written is the one of the source; `DiffComplete` replaces `DiffCovers` where
there was a diff. A reopened store has the rows of that commit and its files or newer ones, so `Survivable` comes back
from the copy; it is this step that needs the files before the rows. That no row is its own ancestor is stated as: no
set of rows has all their parents in it (`NoCycle`). A row that is written gets a parent written in the same run or
none, and a set without a parent outside would already have been one before.

`Watcher_proofs` proves the safety properties of `Watcher` under `Spec`, for all files, contents and numbers of saves,
from the `ASSUME`s that keep the distinguished constants apart. `WatcherInv` adds to them:

- `StampsPast`: stamps on disk, in the cache and in hand are older than the next save's, so that a new save never has a
  remembered stat;
- `SeenTells`: between the ingestion and `Remember`, the stat in hand tells the contents as one in the cache does;
- `SavedSince`: from the stat to the end of the ingestion, a version on disk that is not the one of the stat has its event
  still in the channel, and the cache does not know the version on disk. This is why an error of the hash, which leaves
  the cache as it is, excuses only the version of the stat.

The proof of `NothingForgotten` has to follow the last event of a path from the queue through
`pending` and the batch into the watcher's hands.

`DaemonLock_proofs` proves the safety properties of `DaemonLock` for any number of daemons and starts, from the two
`ASSUME`s that `None` is no daemon and the bound is a natural number. `LockInv` adds to the properties: the lock is held
exactly between `Acquire` and `Release` (`HolderStandsBetween`), the PID file is gone when the lock is about to be
released (`PidRemoved`), and stores are used from their opening to the exit (`StoresInUse`). `StoresShared` follows from
it without being part of it: of two daemons that use the stores and do not exit, both would hold the lock.

`Inlines_proofs` proves all properties of `Inlines` for paragraphs of any size and depth and every answer of the sentence
segmenter; `PositionsTile`, the comment "entries are non-overlapping and cover the entire flat_text in order", is proved
as well. `InlineInv` adds `Geometry` (positions in order, none overlapping, every byte in one), `ImagesAtomic` and
`Marked` (what stands in an image is marked atomic), `CursorAhead` (the walk's own path is past the last position's),
`EndsSafe` and `Progress` (each end of a sentence is a moved boundary, and the last one is where the next begins). Two
lemmas carry the sentences: moving boundaries is monotone (`SafeMonotone`), so what is dropped was empty and nothing
overlaps, and a moved boundary is inside no atom (`SafeNotInside`). Both need that the first position to hold an offset
exists, which is the least number principle of the library (`FirstOfNumbers`).

`Anchoring_proofs` proves the properties of `Anchoring` for every alphabet, text length, context and number of edits.
Its invariant `AnchorInv` is `TypeOK` and `SpanTracked`: the span in `truth` still reads as the annotated bytes, or is
gone. `Matches` is a function that speaks of its own earlier values; `GreedyExists` shows that there is one, by a least
length without, so that an occurrence is taken exactly if it overlaps none taken before (`MatchesTaken`); a quote that
does not overlap itself is taken wherever it occurs (`OccurrencesMatch`). `QuoteDecided` and `CascadesAlwaysAgree` go
through the branches of the two cascades, and `ContextFollowed` through the scores: no other match has both the prefix
and the suffix.

`Segmenter_proofs` proves the three properties of `Segmenter`, and `ReadBack` of `MCSegmenter`, for documents of any
size and depth. For `Storable`,
`TreeInv` adds that the walk stands in nodes that may have children (`InsideHolders`) and that the counter is ahead of
the last position (`CounterAhead`).

For `ContainersCollect`, `CollectInv` says what the loops in progress have joined so far. They stand in each other
(`OpenChain`); no text has a byte twice, and no two loops have one in common (`BytesOnce`, `FramesApart`), since a
child's text goes to its parent's loop only when the child is left; a node that was left has the text of a block below
it if no list stands between (`LeftCollect`), and a loop has it if in addition no loop further in still holds it back
(`OpenCollect`, `Blocked`).

For `RootCollectsAll`, `GatherInv` says what `collect_plain_text` would return of the tree as it is: of the root, all
that was met; and the nodes the walk stands in have no text of their own yet, so that theirs are their children's. The
step that matters is `ChainGrows`: one more child of the innermost node adds its text to all nodes around it and to no
other, because each of them is the last child of the next. Leaving a node gives it a text its children have already, so
nothing that is collected changes (`ClosedGathers`). The recursion over the tree goes towards higher numbers, and that
over the children towards lower ones; existence and uniqueness of both functions (`GathersExists`, `GathersOnce`,
`UpToExists`) and all else about them are shown by a greatest or a least counterexample, where one would use induction:
the least number principle of the library takes a set, not an operator, and can be cited.

For `ReadBack`, `ReadInv` says what the tree has for a reader while it is built. A loop knows whether all it stands in is
a section or the document (`LooseFrames`); a node without a fragment of its own is a section, or stands in something that
is read as one piece (`BodiesKept`); and the outer nodes, those that stand in nothing but sections, taken as a tree
whose blocks have their fragment for a text (`OuterTree`), collect from the root the blocks the walk has noted outside
quotes and lists. The last part is about a tree of texts again, so `ChainGrows` serves it as well; a node inside a
quote or a list hangs on nothing there (`DetachedStay`). What remains is about a finished tree: rows listed by position
come in the order of the tree (`RowsInOrder`), what is flattened is what is joined (`FlattenJoins`, `JoinedInOrder`), the
reader's recursion exists (`ReadingExists`), and of every outer node it gives what is collected of it (`ReadsOuter`, by a
greatest counterexample).

`Workspaces_proofs` proves `WatchersCanStop` and `NothingLeftRegistered` for any number of names, connections, handles,
watchers and reloads. `WorkspaceInv` adds `References` (what a task, a watcher or the registry refers to exists, and a
task knows what its next step needs), `TokensLive` (the token of every watcher, and the one a task is about to hand to a
watcher, is cancelled, or registered, or in the hands of a removal that will cancel it) and `ClosingAlone` (when the
closing loop runs, all connections are closed, and each name still registered is before it). `TokensLive` is dropped when
the closing loop begins: from there on a watcher may live, which is the divergence of section 3, and `WatchersCanStop`
speaks of the time before.

`PandocPort_proofs` proves the safety properties of `PandocPort` for any number of runtimes, processes, servers and
health checks, and `OnlyOwnerStops`: a server stops serving only when the runtime that started it lets it go. `PortInv` adds that a serving server has the port (`PortHolder`), that no two runtimes have one child
(`OneEach`), that children were started and are not killed while they are children (`ChildrenStarted`,
`ChildrenNotKilled`) and that whoever answered has run (`AnswerersRan`).

Every one of these modules proves the type invariant of its component too, and no run repeats it.

Only model-checked: all liveness (`Settles`, `StopsWhenCancelled`, `RemovedIsReleased`,
`ShutdownCompletes`, `OpeningEnds`), which is out of the prover's reach.

## 6. Not modelled inside the modelled components

The FTS
index, which triggers keep in step with `nodes`; statements no caller runs (`insert_nodes`, `mark_nodes_deleted`,
`update_node_content`, `transaction`); the byte-level format of content files.

In `Segmenter`, `Inlines` and `Projection`: titles, structural hashes, section numbers and attributes; the separators
between joined texts; the rendering by Pandoc; `inject_sentence_markers`, which returns its input. In `Anchoring`: the
serialisation of selectors, and annotations on empty spans. In `PandocPort`: conversions,
which only fail when no server answers; a port held by a program that is no Pandoc server.

In `Watcher`: files changed before the watch begins, events the system drops, directories that cannot be watched, the
filter of file types, reads of a file that is being written, moved files. In `DaemonLock`: platforms without a lock,
and a PID that another program has got meanwhile. In `Workspaces`: the runtime's own work (that is `Ingest`),
a watcher that fails to start (it would only give up its reference earlier), connections that end by themselves (like
one that is idle until the end), two configured workspaces that share a data directory.

Components without a module: format detection and parsing (a table of extensions and a call of Pandoc, whose failures
are `Abort`); the edit distance (a pure function, the textbook recurrence; everything here holds for any ratio); the
agent view (one pass over a projection); the serialisation of the socket protocol, and its reading of lines (a
connection with an over-long line is closed); the command line, the MCP client and the deployment files, which have no
state of their own.

## 7. Plan

Left, in this order:

1. An abstract specification for `Watcher`, a register that converges to the file's contents, and the refinement.
2. `EditDistance` as a recursive function against a reference definition, and the lemmas on its row recurrence that need
   no induction.
3. A conversion that is under way when its server is closed (`PandocPort` with requests).
