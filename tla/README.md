# tinymemory: verification project

tinymemory is a memory layer for agents: a Rust workspace whose crates keep
documents, conversations, a knowledge graph, summary trees and synchronised
sources in a workspace directory, behind a provider contract with embedded and
remote drivers. This project models the parts of it that keep state or decide
between outcomes, checks them with TLC on small instances, and proves the
central invariants with TLAPS for every value of the constants.

Paths below are relative to `crates/`; `core` is `tinymemory-core/src`,
`conversations` is `tinymemory-conversations/src`, `engine` is
`tinymemory-tinycortex/src/engine`, `service` is
`tinymemory-module/src/service`.

## 1. Inventory

A host process opens a workspace through the global registry and gets a
`MemoryClient`. The client owns one `UnifiedMemory` (a SQLite connection behind
a mutex, plus markdown sidecar files) and an ingestion queue whose worker
extracts a knowledge graph from the documents written. Job workers over the
engine's queue build summary trees and embeddings from chunks; they share
process-wide health flags with every code path that can meet a damaged store.
Sources are synchronised into documents and from there into the tree. The
conversation store is separate: JSONL files and an in-memory search index, fed
by a bus subscriber. Above all this stands the provider contract: the facade
binds a driver, the module service puts its families on a bus, the conformance
suite tests it, and a migration copies one driver's records into another.

| part | source | what is hard | what makes it correct | module |
|---|---|---|---|---|
| document store | `core/store/namespace_store/documents.rs`, `helpers.rs` | id resolved under the key lock, sidecar written, then a transaction; deletes take no lock; crash or error between any two | a write lands on the row it addresses, no chunk is orphaned, sidecar = row | DocumentStore |
| query and ranking | `core/store/namespace_store/query.rs` | six reads one after the other, each may fail, writers in between | no echo of the asking session, a stable document is shown, scores follow signals | NamespaceQuery |
| knowledge graph | `core/store/namespace_store/graph.rs`, `core/ingestion/mod.rs` | removal reads, releases the connection and writes back the copy; read limited to 300 rows | deleting a document removes its evidence and nobody else's | KnowledgeGraph |
| recall | `core/store/memory_trait.rs`, `core/store/namespace_store/fts5.rs`, `core/store/recall_policy.rs` | documents, own turns and other sessions' turns read under three holds of the connection; two of the reads may fail | no echo, no turn twice, nothing better left out | SessionRecall |
| segments, events, profile | `core/store/namespace_store/{fts5,segments,events,profile}.rs` | an archivist's four calls per turn, an index that keeps the terms of replaced rows, a detector that writes back what it read | segments partition the log; a search hit is the row indexed; a merge keeps the strongest claim | SegmentStore, EventLog, ProfileFacets |
| ingestion queue | `core/ingestion/queue.rs`, `state.rs` | gauge, channel and lock are updated by different tasks; shutdown with jobs buffered; worker panic | gauge exact, one extraction at a time, accepted jobs extracted | IngestionQueue |
| tree pipeline | `engine/mod.rs`, `core/engine/queue_driver.rs`, `core/queue/` | read, wait for a model, write; resets and crashes between two transactions | no work stranded, no tree that nothing explains | TreePipeline |
| tree reads, entity index | `engine/mod.rs`, `core/store/entities.rs`, `core/sources/status.rs` | reads of several statements beside the pipeline | what is read is in scope, complete, and as it was while the read ran | TreeReads |
| embeddings and their flags | `core/engine/queue_driver.rs`, `core/tree/health/mod.rs`, `core/store/factories.rs` | atomics without a lock; a chain that always asks for more | the chain ends only when all is covered, only hopeless rows are skipped, failures are announced | EmbeddingWrites |
| worker loop, corruption, storage flag | `core/queue/worker.rs`, `core/corruption/mod.rs` | latch and flag are separate atomics, used by several tasks | one report per outage; the banner goes down after it | StorageHealth |
| connector funnel and backfill | `core/backfill.rs`, `core/engine/sync.rs` | document and tree written one after the other; resumable pass with a limit | forgotten sources stay forgotten, a backfill accounts for every document | ConnectorTree |
| source registry, dispatcher, scheduler | `tinymemory-sources/src/registry.rs`, `core/sources/`, `core/sync/workspace/` | other handles of the registry write the same file, detached runs, restarts | no acknowledged edit is lost, one run per source, the schedule is kept | SourceSync |
| connection budget | `tinymemory-bus/src/composio/state.rs` | the day changes under copies that nothing resets; runs die unsaved | a copy says what today's requests left; no saved id is forgotten | SyncBudget |
| search index | `conversations/inverted_index.rs`, `tokenize.rs` | slots that are emptied and never reused, n-grams of mixed scripts, candidates cut before they are verified | a search finds what a scan of all messages would | SearchIndex |
| conversation store | `conversations/store*.rs` | index built cold while appends go on; torn lines after a crash; repair loop in `list_threads` | acknowledged messages stay, removed ones stay away, index and listing agree with the files | ConversationStore |
| channel subscriber | `conversations/bus.rs` | redelivery, rebinding in the middle of a turn, legacy thread ids that collide | one row per event, in its own workspace and conversation | ChannelPersistence |
| global registry | `core/global.rs` | clients are built outside the locks | one client per workspace on every path | GlobalClient |
| facade | `tinymemory/src/{registry,factory,routing,sections}`, `tinymemory-bus/src/namespace.rs` | seven engines with different needs; a view that is one provider call per namespace | what is bound is what was chosen; a view sees its section only | DriverBinding, Sections, BusContract |
| remote drivers | `tinymemory-remote/src/` | lost, late and repeated requests; a log that answers before it indexes; ids looked up before they are written by | a store takes effect once; read after write; one record per key | CortexLog, KeyedStore, RemoteKeyed |
| migration | `tinymemory/src/migrate`, `tinymemory-api/src/{mandatory,provider}` | paging by offset over rows that change; cursors of a foreign driver | moves only what was read, loses only what was forgotten | Portability, MemoryMigration |
| contract, reference drivers, suite | `tinymemory-api`, `tinymemory-conformance` | a driver shared with others, a run that dies half-way | conforming drivers pass, broken ones do not, nothing is left | BusContract, ReferenceDrivers, ConformanceSuite |
| module service | `tinymemory-module/src/service/`, `host.rs` | 138 routes with defaults; shutdown hooks banked by several tasks | refused means nothing done, an acknowledged write was done, hooks run once and first | ServiceRoutes, ModuleService |

`PROJECT.json` lists every part with the reason where it is left out, and the
hazards at their lines.

## 2. Modules

A faulty variant of an action (`Faulty variant:` or `Mutant:` in its comment)
stands before the definition it is a variant of. It is not part of `Next`: it
records a plausible bug that the property named in `PROJECT.json` catches.

Several modules are checked in one run. The MC module of such a run has a
variable `focus`, chosen in the initial state, and each behaviour is a
behaviour of one of the modules (the others stand still), so a run explores
the sum of the state spaces and not their product.

### The namespace store

**DocumentStore.** A table is a set of records and a statement a set expression.
All that happens under one hold of the connection mutex is one step. `Put`
begins a write; `ResolveId` is `lock_key` and `resolve_document_identity`;
`WriteSidecar` the file; `Commit` the transaction, with the re-key of a row whose
id the caller requested; `CommitConflict` the primary-key conflict with another
namespace. `Delete`, `Forget`, `DeletePath`, `DeleteRows`, `Unlink`, `Clear`,
`RemoveDir` are the removals in the code's order, without the key lock, as in
the code. `DeleteTorn` is `delete_document` cut between its two autocommitted
statements, `Fail` an error at any step, `Crash` the death of the process;
either may cut a sidecar short (`Stop`). A batch is its documents one after
another, which is what `upsert_documents` writes. Assumed: one connection per
database, which is what GlobalClient shows; a process crash, not a power loss;
an injective digest in `derive_document_id` and random ids that do not repeat.

**NamespaceQuery.** A query or recall with one step per read, any of which may
fail, beside writers of documents and relations. The retrieval plan, chained
relations, the temporal filter, every signal and weight, ranking and truncation
are operators; relevances are in hundredths, scores in ten-thousandths. The text
of the rendered context is left out.

**KnowledgeGraph.** One namespace's relations with `document_id`,
`document_ids` and `chunk_ids`. `ReadRelations` and `WriteRelations` are the two
halves of `graph_remove_document_namespace`, shared by extraction and deletion.
`recent` is the order of the rows by `updated_at`, rows of one transaction being equal, so
the `LIMIT` of the read can cut any of them. Relations asserted by hand, the
global table and `evidence_count` are left out.

**SessionRecall.** `Memory::recall`: the ranked documents without the excluded
session (what the caller names, else the ambient thread), the turns of the
session asked for, the full-text hits of all other sessions, one step each, then
the stable sort and the cut, which are part of the last read. The first read
fails the recall, the others are tolerated. A text is a set of words; the index
compares stems over all columns and needs every token, the score compares
letters in the content and counts the terms as typed. bm25 may rank in any way.
How documents are scored is NamespaceQuery's.

**SegmentStore, EventLog, ProfileFacets.** Each function of the tables is one
statement and one step; the modules are about the order in which the callers take
them: an archivist per session that may die between any two calls and a
summariser that works on what it listed; re-insertion under an FTS index whose
delete trigger does not fire on `REPLACE`; a detector that writes whole rows
back. `claims` and `chosen` are what was claimed of a facet and what the user
chose for it since it was made; a write-back over a row that has changed since
the detector read it makes the facet anew.

### The engine's work

**IngestionQueue.** `submit` is the bump of the gauge, `try_send` and, when
refused, the undo. The worker's loop body is one action per await or shared
update; `ingest_doc` takes the same run lock. `WorkerDies` is a panic in
extraction, which drops the receiver; `DropClient` ends the senders.

**TreePipeline.** The queue delegates (extract, append, seal, seal a document,
flush stale buffers) for two workers, with `reset_derived_index`, `purge_all`,
`retry_failed`, `compact` and a crash between any two transactions. The job
table with its dedupe keys and leases is the engine crate's, which is not in the
repository; it is modelled from how it is called. Levels above the first are
left out.

**EmbeddingWrites.** The ladder that picks an embedder, the re-embed chain, the
embedding of a sealed summary, the semantic-recall flag with its cause and the
announcement latches, one step per atomic, and the Ollama gate of a store being
opened.

**TreeReads.** The summary forest, recent leaves, chunk pages and details,
source status and the entity index. A read that is one statement, or several
under one lock, is an operator over the tables; one that takes the lock again is
a process beside the engine that writes the tables (external: settle, seal, drop,
delete). `touch_entities` reads a counter in one step and writes it in the next.

**StorageHealth.** Each atomic operation on a latch or on the flag is a step. The
disk and the image are an environment that fails a bounded number of times.
Recovery is the engine's `recover_corrupt_db`, external: it succeeds, or fails
when disk or image is bad.

### Sources

**ConnectorTree.** `accept_source_items` (documents, then a tolerated tree
ingest), `forget_source` (documents first, chunks last), `forget_matching` and
the backfill with its limit, over one external ingest gate. Items may fail
always or for once. Each of the three may die between two of its steps; a
removal may also fail at any of its calls, and what it leaves in the tree after
`clear_namespace` is in `left`, what came into the tree from an older read in
`late`.

**SourceSync.** The registry file (load, change, validate, atomic rename under
the mutation guard) beside other handles of it, which take that guard and not the
write lock of the core crate, and beside the caps migration, which holds the
write lock only, reads in one step and writes in another. A read that fails
answers with `snapshot`, the list the process began with; the sources whose entry
the migration has not seen are in `exposed`. A host process that writes the file
between an edit's own read and rename is left out. Then `ACTIVE_SYNCS` and the detached run of a source; the periodic loop
with its fired-at map, the audit log, the gate's policy and its resume
notification. A restart keeps the registry and the audit log and nothing else.

**SyncBudget.** The synced ids and the daily request budget of a connection.
A run works on a copy that it loads and saves, or loses when it dies; `Midnight`
is an action of its own and no copy is told of it. Counters saturate at their
width. The cursor and the stamps are read by nothing here and left out.

### Conversations

**ConversationStore.** Durable state is the fold of the complete lines of
`threads.jsonl`, the rows of each message file, and what is left of each file's
last line. The metadata mutex is innermost and never held across two writes, so
it is held within an action; lifecycle, index-build and thread locks are state.
Append, patch, truncate, delete, purge, list and search are one action per
stretch between two writes, with an error variant for each write that can fail:
the row, the entry in the thread log after an append, truncation or recount, the
entries of ensure, retitle and delete, and the rewrite of a message file. An
append that fails may leave part of its line. `Crash` drops everything in memory and may tear the line being appended.

**SearchIndex.** The postings, slots and verification of the cross-thread index
under inserts, replacements and removals of threads, keyed by the n-grams of
folded text. Every call has the index to itself, so an operation is one action
and a search an operator.

**ChannelPersistence.** One handler run is `Handle`, `Choose` (thread id:
collision-safe, or a legacy thread that exists), `Ensure`, `Lookup` (dedup
read), `AppendTurn`, for any number of handlers at a time; the store is used
through its operations, each atomic. A turn that another delivery appended
between a handler's dedup read and its append is in `crossed`.
Registration is bind, check, subscribe, mark. Users label and delete threads at
any time.

### Process, facade and drivers

**GlobalClient.** `init`, `client_for_workspace` and `bind`, with a step per lock
acquisition, so that the construction of clients overlaps. Construction may fail.

**BusContract, DriverBinding, Sections.** The families of the contract with the
bodies their traits supply, member names, capability bits and the version rule; admission by the registry, what the factory builds for each engine,
endpoint, deployment and credential, the credential of each request, and the six
routed operations; names of sections as sequences of tokens, and the views' put,
forget, list and recall with one provider call per namespace.

**CortexLog, KeyedStore.** The append-only log of the CortexDB driver: requests
and answers lost, repeated or late (the net is a bag), retries under one claim, a
replayed ingest that is acknowledged at once, indexing that lags, a forget
that appends a tombstone and then removes what it had listed. `KeyedStore` is
what the driver promises: a request takes effect at one instant, at most once,
and nothing else changes what is held. `AppendsOnce` is the refinement.

**RemoteKeyed.** mem0, supermemory, cognee and agentmemory: look the id up, then
write by it; reads are retried, writes are sent once and may arrive late.
supermemory and agentmemory are looked through page by page, supermemory for at
most `WalkPages` pages, one step per page. `raced` are the keys two writers
worked on at once, `shifted` those looked for while a record was removed.

**Portability, MemoryMigration.** The paged copy with three kinds of source and
two of target while the source is written to; `MovesOnlyWhatWasRead` is the
refinement of the abstract migration.

**ReferenceDrivers, ConformanceSuite.** The reference drivers, and `assert_provider` as the
sequence of calls it makes, against conforming drivers and ones that break the
contract in one place, shared with other users, with a run that dies.

**ServiceRoutes, ModuleService.** The 138 routes with family check, call, size
check and error names; a driver may answer any class of error, and an error may
follow on part of the work. `setup` with the root's own engine, the worker pool
and the sync loops, `open_store` with the rules for names, `Shutdown` of the root
and of the objects it opened, and the hooks banked with the host.

## 3. Runs

| run | modules and instance | shows |
|---|---|---|
| `docs` | DocumentStore: 2 tasks, 2 namespaces, 2 keys, 1 requested and 1 random id, 2 bodies, 3 operations, 1 failure. NamespaceQuery: 2 documents, 2 bodies, 4 relations of which 3 at a time, 5 questions, 2 hits, 1 edit, 1 failed read | `RowsSound`, `StoreSound` |
| `engine` | KnowledgeGraph: 2 documents, 3 relations, limit 2, 2 deleters, 3 operations. TreePipeline: 2 workers, seal at 2, two chunks with one fault or one with two. EmbeddingWrites: 1 chunk, 1 summary, 2 tasks, batches of 2, 2 turns of the environment | `GraphSound`, `PipelineSound`, `EmbeddingsSound`, `ChainSound` |
| `families` | SegmentStore: 3 sessions, segments of 2 turns, 4 turns. EventLog: 2 events, 2 namespaces, 2 terms, 3 rowids. ProfileFacets: 2 ids, 2 types, 1 key, 2 values. SessionRecall: 2 sessions, 3 rows, 4 kinds of turn of which 2 are logged, 48 recalls with limits 1 and 2. ConformanceSuite: pages of 2 and 1, 8 export pages, two other namespaces, 1 death. ServiceRoutes: all 138 routes, 9 drivers. ModuleService: 2 setups, 5 names of which one is the root's, one is refused and one is too long, 2 stores, 2 callers with 3 requests, 2 hooks | `SegmentsSound`, `EventsSound`, `FacetsSound`, `RecallSound`, `ContractSound` (`SuiteSound` and `RoutesSound`), `ServiceSound` |
| `drivers` | Portability: 2 namespaces, 2 keys, pages of 1, 4 pages, 2 writes. CortexLog: 2 clients, 1 key, 1 value, 2 attempts, 3 calls. RemoteKeyed: 2 callers, 2 keys, pages of 1, walks of 3 pages, 3 attempts, 2 calls | `CopyComplete`, `LogSound`, `KeysSound`, `MovesOnlyWhatWasRead`, `AppendsOnce` |
| `global` | GlobalClient: 2 callers, 2 workspaces, 3 clients. DriverBinding: every engine, endpoint, deployment and credential, with registries that reserve all, some and none. Sections: 2 rows, 1 write, 2 namespaces, names of 4 tokens. TreeReads: 4 chunks, 2 trees, windows and limits of 2, 3 engine writes, 2 callers with 3 touches | `ClientsSound`, `CacheIsStable`, `FacadeSound` |
| `sources` | ConnectorTree: 1 connection, 3 items of which one always fails, limit 2, batches of 1, 2 events. SourceSync: 2 sources, interval 2, time to 2, 2 runs, 2 edits. SyncBudget: 2 ids, limit 2, counters to 3, 2 days, 4 requests a day | `TreeFollowsDocuments`, `BatchReachesTree`, `BackfillConverges`, `RegistryKeepsAcked`, `RunsSound`, `ScheduleKept`, `BudgetSound` |
| `ingestion_queue` | 3 submits, 2 `ingest_doc`, channel of 2 | `QueueSound`, `AcceptedIsExtracted`, `SyncCompletes` |
| `conv_store` | 2 callers, 2 threads, no failures | `ThreadStoreSound` (`IndexExact` and `HistoryKept`), `ListTruthful`, `OperationsReturn` |
| `conv_crash` | 2 callers, 1 thread, 2 crashes, 1 I/O error, both kinds of torn line | `CrashesLeaveNothing` |
| `chan_main` | 2 registrars, 2 workspaces, 4 conversations of which two collide and one imitates another, 3 deliveries one after the other; and 2 handlers with 2 deliveries at once, in one workspace. SearchIndex: 2 threads, 3 documents, limits 0, 1 and 3, a cut at 1 candidate | `ThreadsSound`, `SearchSound`, `UserLabelsKept` |
| `health` | 2 workers, 1 sink, 2 outages, 2 corruptions | `HealthSound` (`IoReportedOnce` and `DegradedHasLatch`), `FlagDiesUnlessStray` |
| `graph_ghost` | KnowledgeGraph: 2 documents, 1 relation, 3 operations | violation of `NothingOfDeleted` |

Why the bounds are enough. Every hazard in the list needs two actors at the
same key, thread, workspace or latch, and a third element to be mixed up with:
a second key and namespace for the documents (identity theft, equal ids in two
namespaces), a third relation beyond the limit for the graph, a full channel
while the worker waits behind a synchronous ingest for the queue, a thread
deleted and created again for the conversations, colliding legacy ids for the
channels, a third client for a workspace switched away from and back for the
registry, a second outage after the first recovery for the health flags, a key
besides the one looked up and pages of one record for the drivers, an item that
always fails besides two that can be filed and a limit that cannot take all of
them for the backfill, a turn of another session that the index matches and the
score does not for the recalls, a day that changes under a saved and a
held copy for the budget. Larger instances were explored once, without a violation:
graph with 4 operations (755,000 states), CortexLog with 2 values or 2 keys (2.3
and 2.5 million), queries with 3 bodies (2.0 million), ModuleService with 4
requests (440,000); and, not to the end, documents with 4 operations (6.8
million), the pipeline with two chunks and two faults (14 million), embeddings
with two chunks (12 million), sections with 3 rows (1 million).

Deadlock is checked in `ingestion_queue`, `conv_store`, `conv_crash` and
`health`. It is not in the others, where the bound on operations ends the
behaviour or all clients may be used up.

Fairness. `ingestion_queue`: the runtime polls runnable tasks (weak), tokio's
mutex is FIFO (strong for the two acquisitions), extraction returns; nobody is
obliged to call. `conv_store`: a thread inside an operation keeps running (weak),
parking_lot's locks are eventually fair (strong for waiting steps). `health`:
tasks not asleep run and timers fire (weak); a worker polling a healthy disk is
not refused by transient errors for ever (strong). `sources`: a call in flight
goes on (weak), and the operator repeats passes as long as they say that
something is pending, as `backfill.rs` tells them to (strong for a new pass).

## 4. Proofs

All are for arbitrary sets of tasks, keys, ids and arbitrary bounds, from the
named `ASSUME`s of the modules, which TLC evaluates in the runs. Each invariant
was checked by TLC on a run before it was proved.

- **DocumentStoreProofs**: `TypesHold`, `WritesHitTheirRow`
  (`LockedKeyIsResolved`), `NoOrphanChunks` (`ChunksAddressable`), and
  `RowsCorrect` for the three together. The inductive invariant adds the table's
  primary key, its unique (namespace, key) and the exclusion of the key locks:
  that a write meets only the row it resolved depends on no other task's re-key
  putting a row under the same key, and chunks stay addressable through a re-key
  because the row they are under is the only one with that id. `CommitRows` says
  what the transaction leaves in the table; the other steps only remove rows or
  leave them alone (`QuietStep`).
- **IngestionQueueProofs**: `TypeCorrect` (hence the unchecked counter never
  goes below zero), `GaugeCorrect`, `SingleExtraction`, `SnapshotCorrect`,
  `ShutdownDrains`, and `QueueCorrect` for the run's invariant. It adds that the
  lock is owned by exactly the party whose progress says so, and that the buffer
  holds accepted jobs, each once.
- **GlobalClientProofs**: `TypeCorrect`, `Convergence`, `SlotCorrect`,
  `HomeCorrect`, `ClientsCorrect` and the action property `CacheCorrect`. The
  invariant says of every call under way what it may still publish.
  `EmbeddingsCorrect` (`EmbeddingsSound`) and `ChainCorrect` (`ChainSound`) are
  over EmbeddingWrites, for finitely many rows: a task in the middle of a clear
  sees the flag down or a mark ran into it; a task about to raise the flag has
  left a cause; while the claim to report is taken, whoever built an embedder was
  told or someone is about to tell; the rows of a batch are to be embedded,
  embedded or skipped, and an empty batch means that nothing is uncovered.
- **StorageHealthProofs**: `TypeCorrect`, `ReportsBounded`, `FlagCorrect` and
  `HealthCorrect` (`HealthSound`) over StorageHealth and `PipelineCorrect`
  (`PipelineSound`) over TreePipeline.
  The latch stands for the one report that has no recovery edge yet; the storage
  flag is accounted for by a latch, damage, a stray failure or a task that is
  about to settle it. For the pipeline: jobs carry the number of times the
  tables were emptied before they were queued. A worker whose job is of the
  present count has its row to itself and works on the present tree; of any
  other worker all that is known is that its chunks count as in flight. A kept
  chunk is then in the tree, or its follow-up was refused, or it has a job of its
  own that no worker is about to finish without queueing the next one.
- **FamilyProofs**: `EventsCorrect`, `FacetsCorrect`, `SegmentsCorrect`,
  `GraphCorrect` (`GraphSound`), `RecallCorrect` (`RecallSound`). For
  events: the newest entry of the index for a rowid is the row's, and stale
  entries belong to rowids below the newest. For facets: the row of a key is among
  the claims made of it and none of them is stronger, its user state is what was
  chosen last, and a detector whose row is still the stored one writes back what
  is true. For segments: a turn that is
  logged and not yet placed is the newest of its session, the open segment is
  the session's last, and what an archivist or the summariser has read is still
  true of the part it will write. For the graph: for a relation nobody has
  written since a removal read it, the copy names every document whose evidence
  is expected and only documents merged into the row; a deletion that saw all
  rows has a copy of every relation its document alone supports, and none is
  left once it has written; a document with an extraction outstanding, or alone
  behind a relation, is stored or was deleted too early. For recalls: each entry
  is worth the least score and is from where it says; once the turns of the
  session are read none that was logged before the recall is missing. Turns are
  only appended, so this stays true while others write, and the two reads of
  turns are disjoint since the second leaves the session of the first out.
- **ConversationProofs**: `ThreadsSeparate`, `ThreadsCorrect` (`ThreadsSound`),
  `LabelsCorrect` (`UserLabelsKept`). A thread comes into being under a
  collision-safe id, or was there before the collision fix, although a handler
  chooses its thread in one step and creates it in a later one. All hold for any
  number of handlers. A handler between its dedup read and its append has either
  seen no row with its id, and there is none, or another delivery has appended it
  since and the turn is in `crossed`; hence a thread holds an id twice only if it
  crossed. `SearchCorrect`
  (`SearchSound`) is over SearchIndex, for any scripts, folds and messages: the
  slots of the present messages are in the postings of all their n-grams, a
  removed one in none, so a text that contains a term is among the candidates.
- **ConversationProofs**, over ConversationStore: `CrashesCorrect`
  (`CrashesLeaveNothing`) with any number of crashes, torn lines and failed
  writes; `AckedSurvives` (`AckedDurable`) with crashes and failures that tear no
  line; `StoreCorrect` (`ThreadStoreSound`) and `ListCorrect` (`ListTruthful`)
  without crashes and failures. With them the last two are false, which TLC
  shows: see section 5. The inductive invariant `StoreInv` has seven parts.
  `LocksOK`: an operation that writes a thread owns its lock, and exactly one
  search builds. `RowsOK`: rows are distinct, what a rewrite has read is still
  what the file holds, and what an append is about to write is not in it.
  `LifecycleOK`: a deletion or purge is alone. `AckedOK`: an acknowledged row is
  in its file unless its removal is under way. `LogOK`: the count in the log is
  the number of rows, or one less while the append that wrote the row has not
  written its entry, or someone is recounting. `PostingsOK`: for every thread the
  published index, or what a scan has built together with the journal, is what
  the file holds. `KindsOK` is the rest of the types. None of them is inductive
  alone: the count needs the thread lock, the lock needs the lifecycle, and the
  index needs that a row never appears twice.
- **DriverProofs**: `LogCorrect` (`LogSound`) and
  `CortexImplementsKeyedStore` (`AppendsOnce`). The invariant: one event per
  offset up to the last; a call's number names one request and its attempts; the
  event a call waits for, or a newer one of its key, is in the log; before a
  forget removes anything, an event as new as its tombstone is visible; the
  newest acknowledged event of a key is visible; offsets and outstanding
  requests together do not exceed the calls. Every step then is one that leaves
  what is held alone, one that begins a request, or one that applies it, which
  map to the abstract `Withdraw`, `Issue`, `Apply`. `KeysCorrect`
  (`KeysSound`) is over RemoteKeyed: a write on its way is awaited by the call
  with its number, or its key counts as unanswered; so a key nobody raced for,
  none of whose writes went unanswered, has one writer, and what is on its way
  for it is that writer's. What the lookup found is then still what is stored.
  For the paged listings of supermemory and agentmemory this rests on places in
  the listing being 1, 2, ... without a gap (`LastPageSeesAll`): a short page ends
  the listing, and until a record is removed the places already read do not move.
  A key for which one was removed is in `shifted`, and keeps what was acknowledged
  although a second record may have been added.
- **SourcesProofs**: `RegistryCorrect`, `RunsCorrect`, `ScheduleCorrect` over
  SourceSync, `TreeCorrect`, `BatchCorrect` over ConnectorTree, and
  `BudgetCorrect` (`BudgetSound`) over SyncBudget, where the counter of a copy is
  what was charged on the copy's day, capped, and nothing was charged on a later
  one. The
  registry's argument is that what the migration read is what callers were told,
  as long as it holds the lock, but for the entries in `exposed`: those a handle
  without the lock has written since, and those the list of a failed read has
  otherwise. The dispatcher's is that the active set is exactly the sources of the
  dispatched runs; the scheduler's that a source found due was not started within
  the interval by this process, whose fired-at map is what a restart loses. For
  the tree: a chunk without a document is one written from an older read, one that
  a removal cut short has left, or of the source whose removal is about to take
  it; a removal asked for again takes what was left; the items of a
  batch are still to be written, to be filed, in the tree, or counted; the
  documents a pass listed are counted or left.

Out of the prover's reach and left to TLC: liveness (`AcceptedIsExtracted`,
`SyncCompletes`, `OperationsReturn`, `FlagDiesUnlessStray`,
`BackfillConverges`).

Checked by TLC and not proved: `StoreSound` (`AckedStays`, `SidecarCurrent`,
queries), `CopyComplete`, `MovesOnlyWhatWasRead`, `FacadeSound` (bindings,
sections, tree reads), `ContractSound`, `ServiceSound`. `ContractSound` and the bindings of
`FacadeSound` are about tables that are in the modules in full, so that TLC
covers them; the scores of `StoreSound`'s queries and the pages of `CopyComplete`
and `MovesOnlyWhatWasRead` are folds over sequences and sorted listings, which
call for induction over data.

## 5. Where code and documents disagree

Shown by a run: `graph_ghost`. Deleting a document leaves its id in the singular
`document_id` of relations it shared, and the relation then outlives its last
document (`graph.rs:73`, against `documents.rs:784-785`).

Met while modelling. Where a property would fail because of one, the property
names the exception (the name of the history variable is given).

Conversations and channels:

- A truncation empties the thread in the warm search index although rows
  survive (`store_ops.rs:343`, against the comment at 297-299); one that falls
  between scan and publication is lost to the published index. `IndexExact`
  leaves truncated threads out.
- A crash between a message row and its stat entry leaves a count that no
  listing repairs (`store_ops.rs:164`). A crash between tombstone and
  `remove_file` leaves a transcript that a new thread of the same id adopts
  (`store_ops.rs:376`). `HistoryKept` and `ListTruthful` are checked without
  crashes.
- After a torn write the next row joins the broken line: it is acknowledged and
  never readable (`store.rs:312`, against `store.rs:256-257`).
- Two concurrent deliveries of an event both append it (`bus.rs:331`, against
  "redelivery of the same event is a no-op", `bus.rs:276-278`): `crossed`. Two registrations may both subscribe (`bus.rs:131`).
- A reply target that ends in `_thread:<ts>` makes the legacy id of one
  conversation the collision-safe id of another (`bus.rs:299-306`, `368-422`),
  and the two then share a thread: `Imitated`.
- The note at `store.rs:145-150` (audit TR-8) says that `persist_channel_turn`
  passes labels and resets a user's label to `["general"]` on every channel
  message. It is out of date: the subscriber passes `None` (`bus.rs:316-329`), and
  `UserLabelsKept` holds.

Documents, graph, queries:

- Putting k1, then k2 with k1's derived id requested, then k1 again takes the
  row away from k2 (`documents.rs:239`, against 56-59): ids a caller has chosen
  are in `claimed`. A requested id taken by another namespace between resolution
  and commit makes the write fail, which a retry repairs.
- A metadata-only write over an indexed document leaves its old chunks
  searchable (against `client.rs:253-254`).
- A delete or clear that overlaps a new write of the document may remove the
  new sidecar (`drifted`). `Memory::forget` may delete a document that was
  re-keyed after the lookup (`memory_trait.rs:653`). `delete_document` cut
  between its statements leaves chunks no row addresses (`torn`).
- A removal of graph evidence sees only the newest 300 relations (`late`), and
  writes back a copy that may be stale (`raced`). A stale copy written over a
  relation that was created again after a clear names the old documents, so the
  deletion of the new one does not take the relation away.
- A claim of equal confidence overwrites a facet's value (`profile.rs:293`, `>=`);
  the documentation says "only overwrites value if new confidence > existing
  confidence" (`profile.rs:262`, also `:6-8`). The stability detector writes whole
  rows back without comparing them with what it read (`profile.rs:362`, `:388`), so
  a merge or a choice of the user that came in between is lost; `FacetsSound`
  counts such a facet as made anew.
- A category given to a recall filters the documents and not the turns, which
  come back as conversation (`memory_trait.rs:134-137`). Terms are scored with
  the punctuation they were typed with, so "cat?" finds a turn about a cat in the
  index and drops it. With `cross_session` and no `session_id` the turns of the
  excluded session come back: the exclusion is applied to documents only. The
  search's LIMIT is applied before turns without a literal match are dropped.
- In a query, excluded and deleted documents still normalise the graph scores
  and switch off the fallback weights; `chunk_id.starts_with(document_id)` also
  cites chunks of a document whose id extends this one; episodic turns of the
  asking session are returned for "global"; `query_namespace_ranked` filters to
  documents after the limit.

Engine and health:

- A recovery that fails on an image another detector has just rebuilt leaves
  the storage flag set (`corruption/mod.rs:120-121`): `stray`. A late detector
  reports an episode twice, and a successful claim after an outage also clears
  the flag of a failed recovery.
- A crash between the two transactions of a reset strands chunks
  (`engine/mod.rs:2804`, against "Necessarily one operation",
  `records.rs:378-400`). A reset's re-extraction is refused while a job of the
  same key runs; an append is refused by a running append that had read a
  missing chunk; an append or seal older than a reset leaves a buffer or a
  summary of a tree that is gone; an append run again after a crash buffers a
  sealed chunk again.
- A clear that runs into a mark leaves the degraded flag without a cause
  (`health/mod.rs:180`): `mixed`. A tombstone that cannot be stored keeps the
  re-embed chain going (`queue_driver.rs:111`): `unsaved`.
- The comment at `recent_leaves` says that a leaf sealed between the two reads
  comes back unattached; the second read returns it attached. Concurrent
  `touch_entities` lose updates (`engine/mod.rs:1960`). The hotness key
  `{namespace}:{id}` is ambiguous, and `source_id_prefix` does not escape `_`.

Sources:

- A `forget_source` that fails or dies after `clear_namespace` leaves chunks whose
  documents are gone (`engine/mod.rs:2372-2406`) until it is asked again: `left`.
  An item that was read before its document was removed comes into the tree
  afterwards (`engine/mod.rs:2361`): `late`.
- When the registry file cannot be read or decoded, the caps migration gets the
  list the process began with (`engine/mod.rs:295-305`) and writes it over the
  file (`:313-317`); edits acknowledged since are lost. It also writes back what
  it read before another handle's edit, although "separate `SourceRegistry`
  handles cannot overwrite one another's in-process updates"
  (`tinymemory-sources/src/registry.rs:21-23`), which is true of single
  operations only. Both: `exposed`.
- The migration is said to run "once per `CURRENT_CAPS_MIGRATION_VERSION` bump"
  (`reconcile.rs:67-70`). The engine's config answers version 0 and stores nothing
  (`engine/mod.rs:322-325`), so in a module process it runs each time and switches
  a composio source without caps on again that the user had switched off.
- `tinymemory-module/src/config_loader.rs:146-150` says that the migration's writes
  go nowhere. They go to the host's registry file through
  `set_memory_sources_json`.
- Documents of the legacy namespace are filed under another connection when the
  registry changed between passes; the prefix of a forget is not lowercased; an
  item synchronised again keeps its old text in the tree; chunks `forget_matching`
  removed come back with the next backfill. `watcher.rs` is in no module and is
  not compiled.

Process, facade, drivers:

- Two clients, and two ingestion workers, of one workspace are alive while two
  callers build; only one is ever handed out.
- `build_provider`'s documentation says that cleartext HTTP with a credential is
  refused off loopback; only two of the engines ask for it (`build.rs:45-47`).
  The registry admits `null` and `namespace`, which the factory does not know.
  The cortex descriptor says that it needs no endpoint, self-hosting does.
- A scope that begins with `..` passes `validate_name`, since the segment is
  `section:..`.
- A forget during a copy may hide a row from its pages (Portability).
- "A target that recognises a record reports it as skipped rather than duplicating
  it" and "rerunning is safe because targets skip records they recognise"
  (`migrate/mod.rs:9-11`, `:60-61`). The drivers of this repository store a record
  under its key again and count it as imported; rerunning is safe because that
  overwrites it with the same content.
- A removal while supermemory's or agentmemory's listing is walked page by page can
  hide the key looked for, which is then stored a second time, or not forgotten
  (`supermemory.rs:314-374`): `shifted`. Two writers of a new key both create it
  (`mem0.rs:461`): `raced`.
- A replayed ingest is acknowledged without waiting (`cortex.rs:930-937`). Its
  comment takes the event to be indexed already, which a replay that follows
  quickly on the first attempt does not give.
- The suite refuses an empty first page with a cursor, which the contract allows
  (`tinymemory-api/src/provider/mandatory.rs:143-145`); a foreign forget during its paging hides its
  record, and more than 64 pages of 32 rows fail a conforming driver.
- `runtime_summarize` writes and is then refused as too large
  (`service/mod.rs:2166`). A second `Shutdown` overtakes the hooks of the first
  (`service/mod.rs:381`). `GraphMemoryProvider` passes on every capability and
  five accessors (`graph_provider.rs:131`).
- `OpenStore` with the name of the root's own subdirectory, `memory`, builds a
  second engine over the root's database: the map that is to prevent it
  (`service/mod.rs:431`) starts empty (`service/mod.rs:295`) and the root's engine
  is not in it. `OneEnginePerStore` excepts that directory.
- `tinymemory-module/src/lib.rs:285-297` says that the sync loops ignore the
  scheduler gate's pauses, `lib.rs:416-447` (and the warning it logs) that the
  queue pool runs unthrottled and that its shutdown hook is dropped. Both are out
  of date: the gate is proxied to the host and hooks are banked
  (`lib.rs:157-166`), which is what SourceSync and ModuleService model.
- The defaults of the maintenance
  trait answer Ok and do nothing.

## 6. Limits

- `StoreCorrect` and `ListCorrect` are for runs without crashes and failures;
  with them the code has the exceptions of section 5.
- DocumentStore and ConversationStore are checked against invariants, not
  against an abstract map or thread store. A refinement would have to except ids
  a caller has chosen, and crashes.
- The runs of `docs` and `engine` take most of the time TLC has; the larger
  instances of section 3 were explored once and are not part of the runs.

## 7. Not modelled

The vendored engine (job table, ingest pipeline, recovery, diff engine) is not
in the repository; where a module needs it, it is external and modelled from how
the code uses it. Extraction heuristics, text and format conversion, safety
patterns, the readers of folders and feeds and the wire types keep no shared
state. The key-value store, the candidate buffer, preferences, people and tool
memory are one statement or one critical section per operation. Schema
migrations run before any other operation. Power loss below the file system's
ordering, and several processes over one workspace, are outside every module.
The reason for each part is in `PROJECT.json`.
