# TLA+ models of nebu-ctx

nebu-ctx gives coding agents a project memory. A Rust **client** (an MCP server
process, short-lived shell and editor hooks, and a command line) runs next to
the agent; an ASP.NET **host** keeps the memory of all projects in PostgreSQL.
This directory holds TLA+ models of the parts of both whose correctness depends
on the order in which processes act, the TLC runs that check them, and TLAPS
proofs of the properties that matter most.

## 1. Inventory

| Component | State it keeps | Operations | What is hard about it | Correct when |
|---|---|---|---|---|
| **Offline delivery** `client/src/core/{sync_outbox,telemetry_queue}.rs`, `config_io.rs`, `queue_or_*` and `replay_*` of `server_client.rs` | one JSON file per entry (`id`, `kind`, `payload`, `attempts`, `created_at`); the in-memory channel of the MCP server | enqueue, load, replay, delete, mark failed; direct call; drain at start, by hooks, by `sync flush` | several processes drain the same directory without a lock; timeouts after the host applied a request; hooks that exit under their thread; a rename that is not atomic on Windows | nothing on disk is lost before it was applied; what the host can accept is delivered in the end; duplicates have a cause |
| **Journal and memory sync** `core/brain_memory.rs`, `sync_session_memory_to_server` | a JSONL journal per project; two marker files; the repo-memory state file | append, load, prune to 500, derive candidates, sync, debounce | read-modify-write from several hooks; markers that pass events never sent | an event is lost only by the retention bound; a marker covers only what was sent |
| **Hooks** `hook_handlers.rs` | none of their own | fire telemetry, record events, drain the outbox at stop, idle and compaction | the process must leave quickly | see offline delivery |
| **MCP server** `mcp_stdio.rs`, `mcp_server/`, `cli/dispatch.rs` | transport mode, session, caches | start, tool calls, exit | exit drops what is only in memory | see offline delivery |
| **Session state** `core/session.rs` | one JSON file per session, a pointer to the latest one; counters of unsaved changes | change, save in batches, adopt the newest session at start, load, reset, clean up | two servers adopt the same session; a load drops what is unsaved; one temporary file for all pointers | a kill or a load costs less than a batch; the pointer names a session that is there |
| **Agents and tasks** `core/agents.rs`, `core/a2a/task.rs` | `registry.json` with a lock file; `tasks.json` | register, post, share, read; create, move, cancel a task | load-change-save around a lock that covers the save alone, or without one | messages and reported results stay; a task's history is legal |
| **Workflow engine** `core/workflow/*`, `tools/ctx_workflow.rs` | `active.json`; the gate of each server; receipts in the session | start, transition, evidence, stop | several servers, one file, and a gate that is installed later | a run walks its workflow; the gate is the run |
| **Code index** `core/index_orchestrator.rs`, `core/graph_index.rs`, `core/property_graph/*` | per-root build states, `index.json`, edges | ensure, build, scan, sync to the host, search | a worker that panics; detached syncs; searches cut at a depth | an index never goes back to an older tree; a search finds what is within its depth |
| **Read cache** `core/cache.rs`, `tools/ctx_read.rs` | file versions with short names | read in ten modes, prefetch, evict, clear | what the agent holds is not what the cache holds | "unchanged" is true; a short name keeps its meaning; the limit holds |
| **Server locks** `tools/mod.rs`, `mcp_server/dispatch.rs` | ten read-write locks | every tool call | nested guards over fair locks | no circle of waiting calls |
| **Loop detection** `core/loop_detection.rs` | windows of calls and searches | record, throttle | thresholds against windows | a refusal has its cause within the window |
| **Statistics** `core/stats.rs` | a buffer and baseline per process, `stats.json`, a lock file | record, merge | a lock that is given up on, or broken | what was recorded is counted once |
| **Editor configuration** `core/editor_registry/*`, `uninstall.rs` | the editor's own file and copies of it | setup, uninstall, in six formats | the editor writes the same file; on Windows it is gone for a moment | the user's last edit is not lost |
| **Memories, budgets, learning, compression** | single-file or in-memory state of one process | sequential | little beyond arithmetic and text | unit-testable |
| **Host knowledge** `KnowledgeService.cs`, `PostgresKnowledgeStore.cs` | one row per fact, with history and counters; one row per candidate | remember, recall, upkeep, triage, remove, expire, ingest, review, promote | every operation reads rows, computes and upserts them whole, without a transaction; handlers are cancelled by a timeout | history is kept; counters are earned; review decisions hold |
| **Memory maintenance** `MemoryMaintenanceService.cs` | none | plan, repair, expire, upkeep | writes back rows it read long ago | as above |
| **Host brain** `BrainService.cs`, `PostgresBrainStore.cs` | one row per fact with a lifecycle status | store, supersede, project to knowledge, recall, delete | three kinds of writes without a transaction | at most one current fact per subject; history is kept |
| **Host sessions, project registry, telemetry** | rows; an in-memory store that is hydrated at start | load-change-save; find-or-create; persist behind the caller | lost updates; duplicate projects; loss at start and stop | no committed change disappears; one project per repository |
| **Request pipeline** middlewares, `ToolRegistry.cs` | token bucket, semaphore | limit, time out, dispatch | cancellation between two writes | limits hold |
| **Dashboard, analytics tools, diagnosis, data repair** | none | read-only pages, one-shot programs | none of the above | out of scope |

Interactions. A tool call or event goes from the client directly to the host
(`POST /v1/...`); when that fails the client writes it to the outbox, and some
later process replays it. On the host the call reaches a tool handler, which
calls one of the services; a brain fact is also projected to knowledge, and
candidates derived from the journal reach knowledge through the review queue.
Maintenance works on brain and knowledge rows while requests are served. The
client and the host share no state but the requests; the client's processes
share the data directory, and the host's requests share the database.

`PROJECT.json` lists every component with what is and is not modelled, and
under `hazards` the lines where this code is hard to test.

## 2. Plan

In this order; 1 to 6 are done, with the proofs of 9 that belong to them.

1. **OutboxSync** with the abstract specification **DurableDelivery**, which it
   implements. Theorems: type correctness, `NoDurableLoss`, `DoneMeansSafe`,
   `AttemptsNeverOvercount`, the two properties of a single drainer, and the safety
   part of the refinement.
2. **KnowledgeFacts**: the canonical facts.
3. **KnowledgeReview** = KnowledgeFacts + the review queue. Theorems: type
   correctness and the four safety invariants.
4. **BrainFacts** = KnowledgeFacts + brain rows and their projection. Theorems:
   type correctness, the two invariants of supersession and that of the projection.
5. **JournalSync** and **RepoMemorySync**: what the hooks send to the host.
   Theorems: what the journal keeps, its marker covers and is sent once, and the
   memories the host holds.
6. The stores of the client: **TempFile** and **FileLock**, which several of them
   use, and **TaskStore**, **AgentRegistry**, **StatsFlush**, **SessionStore**,
   **WorkflowRun**, **IndexBuild**, **GraphSearch**, **ReadCache**,
   **ServerLocks**, **LoopDetector**, **EditorConfig**. **ClientParts** composes them
   and those of 5. Theorems: type correctness of each, their
   independence, the safety of tasks, workflows, the registry's locks and messages, session pointers and kills, the cache, its limit and its short
   names, the index, the searches, the statistics, the loop detector, editor files,
   and the absence of deadlock.
7. **SessionSnapshots**, **ProjectRegistry**, **TelemetryStore** of the host: the
   load-change-save services, the check-then-create of a project with the
   cascade that deletes it, and hydration with persistence behind the caller.
8. The composition of OutboxSync with KnowledgeFacts: a replay that overtakes,
   or is overtaken by, a direct call on the same key.
9. Proofs beside each of these. Every safety property of the passing runs has its
   theorem.

## 3. The modules

### OutboxSync

One operation of the model is one piece of work: a telemetry event of the MCP
server (`ChanOps`), of a hook (`HookOps`), or a hosted tool call or index sync
(`CallOps`). Its `carrier` is its direct path: `new`, `chan` (in the tokio
channel), `post` (the request is out), `answered` (the host applied it, the
answer is on the way), `persist` (the request failed), `done`, `killed`.

| TLA+ | Code |
|---|---|
| `outbox`, `attempts`, `created` | the entry files and their fields |
| `drainer`, `current`, `todo`, `seen` | the loop variables of `drain_persisted`: the entry, the rest of the list, the loaded copies |
| `mcp` | the MCP server process: off, in its startup drain, reading its channel |
| `applied`, `late` | the host's side: how often an operation was applied, and requests whose sender is gone |
| `EnqueueOnChannel`, `ReceiveFromChannel`, `FireSync`, `CallDirectly` | `enqueue`, `start_drain_task`, `fire_sync`, `queue_or_call_tool`, `queue_or_sync_index` |
| `CarrierApplied`, `CarrierDone`, `CarrierRefused`, `CarrierTimesOut`, `CarrierPersists` | the outcomes of the direct request and the `enqueue` that follows a failure |
| `List`, `LoadFails`, `LoadEntries` | `load_entries`: `read_dir`, then reading every file, which fails as a whole |
| `Replay`, `ReplayApplied`, `ReplayRefused`, `ReplayTimesOut` | `replay_queued_*`, `deliver_request` |
| `DeleteEntry`; `MarkFailed`, `UnlinkTarget`, `RenameTemp` | `delete`; `mark_failed` through `write_atomic`, one step where `rename` replaces, two on Windows |
| `HookExits`, `KillCaller`, `KillDrainer`, `KillMcp`, `McpExits` | processes that end, by themselves or killed |

`filed`, `settled`, `failed` and `unknown` are history: no action's guard reads
them. Abstracted: payloads, error texts, and that `flush_pending` loads the
entries twice (the first load is only counted). Assumed: writing a file
succeeds (an `enqueue` that fails is reported to nobody the model could
follow), and entry ids are unique.

### DurableDelivery

What the outbox promises: what is `owed` stays owed until it was `applied`, and
what is acceptable is applied in the end. OutboxSync implements it under the
mapping `owed <- OnDisk` (entry files and the temporary file of an unfinished
`write_atomic`), `applied <- {o : applied[o] > 0}`.

### KnowledgeFacts and KnowledgeReview

`rows` is the table of facts. An operation is split where the code awaits the
database: its read half computes the rows it will write into `pending[h]`, and
`WriteBack` upserts them one at a time, each an unconditional whole-row upsert
that keeps only `created_at` of the existing row. Between the two anything may
happen to the rows. `outdated` records which pending rows were computed from a
row that has changed since, `lost` the facts such a row was written on.

| TLA+ | Code |
|---|---|
| `Remember`, `Remembered` | `RememberAsync` |
| `RecallReads` | `RecallAndRefreshAsync` |
| `UpkeepReads`, `Unused` | `UpkeepAsync` |
| `TriageReads` | `TriageAsync`: duplicates are merged, then junk is marked |
| `Upsert`, `WriteBack` | `UpsertFactAsync` and the loops around it |
| `Delete`, `Remove`, `RemoveExpired` | `RemoveFactAsync`, `RemoveExpiredFactsAsync` |
| `HandlerStops`, `Stop` | a handler cancelled by `RequestTimeoutMiddleware` or the end of the host |
| `IngestQueued`, `IngestConfident` | one candidate of `IngestCandidatesAsync`, below and above `AutoPromoteThreshold` |
| `Accept`, `Reject`, `RememberCandidate`, `MarkReviewed` | `ReviewCandidateAsync` |

Abstracted: confidences, scores, texts and ranking. Where the code ranks, the
model lets any choice be made (`S` in `RecallReads`, `Best` in `TriageReads`);
where it writes rows in a computed order, any order. The category is part of
the key; triage therefore groups by value alone. Junk detection is a set of
values. The clock counts units longer than a month.

### BrainFacts

Extends KnowledgeFacts by the brain's rows and by what each handler has to do for
the fact it is storing. A fact has a key (its row), a subject (`logical_key`)
and a promotion identity; `StoreFactAsync` is split at every statement.

| TLA+ | Code |
|---|---|
| `brain` | `brain_entries`: one row per key, `Admitted` for the unique index on the promotion identity |
| `task` | `entry` of `StoreFactAsync` and what is left of the list `ApplySupersessionAsync` loaded |
| `Ingest`, `Priors` | `ExecuteIngestAsync`, `StoreFactAsync` up to `ListAllAsync`, and the filter on the list |
| `Supersede`, `SupersededRow` | one turn of the loop of `ApplySupersessionAsync`: the *loaded* copy is written back |
| `StoreFact`, `NewRow` | the upsert of the fact itself |
| `Project`, `Projected` | `ProjectToKnowledgeAsync`: the read half of `RememberAsync`, whose write half is `WriteFact` |
| `Refused`, `Stop` | an upsert that violates the index ends the request; a timeout or the end of the host does too |
| `StorePlain`, `Forget` | `StoreAsync`, `DeleteAsync`; an import is a sequence of them |
| `Told`, `Recalled`, `Removed` | the callers of knowledge, who share its rows |

`contended`, `covered`, `loose` and `marked` are history. Abstracted: the category
of the projected fact, kinds (a correction is the flag `corrects`), the order in
which loaded rows are written back (any), confidences and evidence. The client
sends the statuses `current` and `timeline` only.

### The client's stores

Each of the following modules is a component by itself. They share no variable
in the code either, but for the session that WorkflowRun has its receipts from;
**ClientParts** therefore runs one of them per behaviour (`active`, chosen among
the constant `Parts`), and its `PartsTypeOK` is the type invariant of the one that
runs. What is proved of each by itself holds of what runs
(`PartsAreIndependent`). Variables under
"History" in a module are read by its properties only.

**TempFile** and **FileLock** are what several stores use. A TempFile is replaced
through one temporary file that all processes share: a process writes through the
handle it opened, so if another one renames the temporary file first, the
handle's text ends up in the file itself. A FileLock is a file created to
lock and removed to unlock; nobody owns it, and whoever finds it five seconds old
removes it in a second step. **Selection** holds what a `retain` or a filter
keeps of a list, which the journal and the loop detector share.

#### JournalSync

| TLA+ | Code |
|---|---|
| `journal`, `syncedTo`, `hostedAt` | the journal file and the two marker files |
| `HookFires` | the hooks of `hook_handlers.rs`; those of prompts, answers and activity differ only in whether a sync follows |
| `LoadJournal`, `CutJournal`, `WriteJournal` | `append_event`: load, retain, rewrite in place |
| `Debounced`, `HookSyncs`, `SessionSyncs`, `LoadRecent` | the start of `sync_session_memory_to_server`, by a hook or by the save of a session |
| `Post`, `MarkHosted`, `MarkJournal` | the calls it makes and the markers it writes, the second of them read from the journal again |

An event is its time. Which texts make a durable candidate is a set (`Durable`);
the facts of the session, posted together with the candidates, are a choice.

#### RepoMemorySync

| TLA+ | Code |
|---|---|
| `files`, `hostMemory`, `lastSync`, `queued` | the editor's memory files, the host's entries, the state file, waiting calls |
| `StartMemorySync`, `ImportRecords`, `RemoveEntry`, `WriteState` | `sync_copilot_repo_memories_to_server` |
| `Sends` | `queue_or_call_tool`: applied, queued or refused |
| `Effect`, `Outcomes` | `ExecuteImportAsync` and the removal on the host; an import that failed for an entry answers that it is done |
| `ReplayQueued` | a drain of the outbox, which goes on after an entry it could not deliver |
| `ReplayLate`, `BreakOff` | a request given up on, or a second drain, that delivers a call or puts it back; an error or kill half way |

A call that overtakes an older one is a cause of a difference (`disturbed`), whether it was
made directly or delivered by a drain that had passed the older one by.

#### TaskStore, AgentRegistry, StatsFlush

| TLA+ | Code |
|---|---|
| `LoadTasks`, `Results`, `OpenTemp`, `WriteTemp`, `RenameTemp`, `KillTaskProc` | one `ctx_task` call: `load`, the action, `save` |
| `Transitions`, `Moved` | `can_transition_to`, `transition` |
| `Loads`, `Call`, `ReadMessages`, `Changed`, `SharedFacts` | one `ctx_agent` call on the registry; `share_knowledge` pushes facts and does not cut the scratchpad, a post does |
| `GetRegistryLock`, `GiveUp`, `FindsStale`, `RemovesLock`, `RegistryLockGetsOld`, `UnlockRegistry` | `FileLock::acquire` and its drop |
| `CutRegistry`, `WriteRegistry` | `std::fs::write` under the lock |
| `Record`, `RecordScore`, `Flush` | the buffer of a process and when it is merged |
| `GetLock`, `LockTimesOut`, `ReadStats`, `Merged`, `WriteStats`, `Unlock` | `merge_and_save` |

Of a task the state and history are kept, of a message its number, addressee
and readers, of the statistics one counter and the list of scores. The other
counters are merged by the same difference.

#### SessionStore

| TLA+ | Code |
|---|---|
| `session`, `sessionFile`, `latest`, `latestTmp` | `SessionState` in a server, its file, the pointer and its temporary file |
| `StartServer`, `NewestSessions`, `LatestOf` | `load_latest_for_project_root`, without a root `load_latest`, or a new session |
| `CallTool`, `ShouldSave`, `SaveAnyway` | the setters of a session, the batch of five, the save at `initialize` and at checkpoints |
| `LoadSession`, `ResetSession` | `ctx_session`: the loaded session replaces that in memory, which is not saved; a reset saves first |
| `CleanUpSessions`, `RemoveSession` | `cleanup_old_sessions*`: a file found to be old, and its removal |
| `SaveFile`, `CutLatestTmp`, `FillLatestTmp`, `Followed`, `RenameLatest` | `save`; a handle on the shared temporary file follows it through the renames of others |

#### WorkflowRun

| TLA+ | Code |
|---|---|
| `runFile`, `gate`, `receipts` | `active.json`, the workflow each server holds, the evidence in its session |
| `StartRun`, `Transition`, `AddEvidence`, `StopRun`, `LookOnly` | the actions of `ctx_workflow` |
| `OpenRun`, `WriteRun`, `RenameRun` | `save_active` |
| `ReloadRun`, `InstallGate` | the dispatcher, which reads the run again after the session is released |
| `CallLocalTool` | the gate of `call_tool` and the receipt of the call |

#### IndexBuild, GraphSearch

| TLA+ | Code |
|---|---|
| `Ensure`, `StartGraph`, `LoadOrBuild`, `CutIndex`, `FinishGraph`, `GraphPanics`, `StartBm25`, `FinishBm25`, `EndWorker` | the worker of `ensure_all_background` |
| `KeepScan`; `ScanTree`, `CutScan`, `SaveScan` | the save `scan` makes itself, in the worker and in `ctx_graph build`; `fs::write` in two steps |
| `SyncIndex`, `ReplaySync` | the detached thread of `fire_sync_index`, which leaves what it cannot deliver in the outbox, and the replay |
| `MarkWhenFound`; `VisitFromQueue`; `VisitFromStack` | `impact_analysis`; `impact_from_index`; `get_related` and `get_reverse_deps` |

An index is the version of the tree it was built from. There is one project root, and
it is the working directory, so the fallbacks of `load_or_build` to an index filed under
another name are left out. The order in which a search meets the edges of a file is open.

#### ReadCache, ServerLocks, LoopDetector

| TLA+ | Code |
|---|---|
| `ReadMissing`, `ReadFullAgain`, `ReadDiffAgain`, `ReadCached` | the branches of `handle_with_options_resolved` |
| `With`, `Without`, `Surplus`, `Names` | `store`, `invalidate`, `evict_if_needed`, `get_file_ref` |
| `Prefetch`, `ListPrefetched`, `ClearIdle` | `ctx_prefetch`, file by file, and the listing that shows their short names; `clear` after a time without calls |
| `Scopes` and its parts, `EnterScope`, `TakeLock`, `LeaveScope` | the guards of `tools/mod.rs` and `mcp_server/*`, by the function that takes them |
| `waiting`, `AskLock` | tokio's fair queue (external) |
| `RecordRepeat`, `RecordSearch`, `Pruned`, `Remembered`, `SimilarCount` | `record_call`, `record_search`, with searches whose pattern is missing or empty |

The mode of a read was picked before the cache was locked, so any mode meets any
state of the cache. Which entry is evicted depends on a score and is left open.
Between two scopes a call holds no lock, so the order of its scopes does not
matter to deadlock and any scope may come next.

#### EditorConfig

| TLA+ | Code |
|---|---|
| `ReadForSetup`, `Upserted`, `Already`, `SetInvalidAside` | the writers of `writers.rs`, by the format they write: which entry is there already, and what becomes of the one under the former name |
| `CopyAside`, `RemoveTarget`, `Replace` | `write_atomic_with_backup`; on Windows the file is removed before the rename |
| `ReadForUninstall`, `CutConfig`, `FillConfig` | `remove_mcp_configs`, which writes in place |
| `EditConfig` | the editor or its user (external) |

## 4. The runs

| Run | Question | Result |
|---|---|---|
| `outbox_safety` | Does any order of a direct call, a channel event, a hook event, two drainers, a fault and a kill lose something or miscount? | holds |
| `outbox_single` | With one drainer, do delivered entries stay away, and is every duplicate explained by an unknown answer? | holds |
| `outbox_live` | Do fair drains deliver everything acceptable although a rejected entry is always first, on the Windows form of `write_atomic`; does the outbox implement DurableDelivery? | holds |
| `outbox_hook` | Is a hook's event "queued locally instead of being dropped" (`telemetry_queue.rs:70`)? | no |
| `outbox_revived` | Are "successful entries removed from the outbox" (`offline-sync/spec.md:20`) with two drainers? | no: a late `mark_failed` puts the file back |
| `outbox_windows` | Is a failed entry kept "available for future retries" (`offline-sync/spec.md:34`) when a process is killed on Windows? | no: remove and rename are two steps |
| `knowledge_safety` | Which interleavings of requests, maintenance and stops forget, revive or miscount, and do review decisions become knowledge? | only write-backs over a changed row forget; the rest holds |
| `knowledge_rejected` | Does rejecting "keep it out of canonical project knowledge" (`dashboard/spec.md:83`)? | no: a later ingest forgets the rejection |
| `brain_safety` | What do overlapping ingests, replays under another key, refusals, stops, plain entries and deletions leave of "one current fact per subject" and of the projection? | two current facts only after an overlap, none only after a stop or refusal; otherwise knowledge says what the brain says |
| `brain_history` | May "newer facts supersede older active facts without destroying historical state" (`brain-facts/spec.md:34`)? | no: with the same key and another identity the superseded row is overwritten |
| `client_stores` | What do two processes, or concurrent calls of one server, do to each of thirteen stores and structures of the client? | the 23 properties hold: every loss has one of the causes its property names. Calls or processes that overlap are such a cause in many (below) |
| `read_complete` | Does a full read give the "complete source" (`ctx_read.rs:13`) after a compressed one? | no: the cache answers that the agent has the file |

Bounds. Outbox: one operation per kind of carrier, since operations interact
only through the drainer's list, for which two suffice (one ahead of the
other; `outbox_live` has a poisoned and a good one); two drainers, since
every bad interleaving is between one that loads and one that deletes; one or
two faults and one kill, each able to strike at every step; `AttemptsLimit = 2`
stands for `u32::MAX`, so that saturation happens. `outbox_single` restarts
the MCP server three times, enough for a crash in one drain to be seen by the
next two. Knowledge: two handlers, two facts, two values and four requests,
which is what a lost update, a second value and a review of a candidate
derived twice need; three points in time, so that a fact becomes stale and
then expires. Brain: two handlers and four requests over five facts, chosen so
that a fact is corrected under another key, returns there under its first
identity (which the index refuses while the old row lives), loses its key to a
fact on another subject, and meets a timeline event; `brain_history` needs two
ingests and one handler. A plain entry has an identity of its own, so two
subjects and three identities are all that can compete.

Client parts: two processes in each, since every hazard listed is one process's
save, lock or sync across another's; three calls for the locks, since a circle
through a fair queue may need a holder, a writer that waits and a reader behind
it. Calls, events and edits are bounded to what the shortest way to the hazard
needs, most to one more (the theorems of section 5 hold at every bound), and each limit of the code (retention 3 of 500, two recent events of
six, one candidate, a scratchpad of two, a window of two, repetitions from the second
to the fourth, a batch of two, a cache of three tokens, three topics) to a value that is
reached and passed within them. The
events that are durable are two that one sync may have to choose between. The
searches run on every graph of four files without a loop and without an edge
back to the start, to depth two, which a file found at the limit and again on a shorter way
needs. The two hooks, servers or files are exchanged by no
behaviour that tells them apart, hence the symmetry over `p1` and `p2`; it is
sound for the two action properties, which are safety.

Two constraints bound these parts further, by where a behaviour is followed.
`MCUndisturbed`: an index until two of its writers overlap, the host's memories until
something disturbs them, scores until flushes collide; past these `IndexGoesForward`,
`HostMirrorsFiles` and `ScoresArrive` say nothing. `MCSharedBound`: when two servers
have one session, one change more; what they do to the pointer after that is covered
by the theorem `LatestStaysThere` only.

What overlapping calls do. The client's stores are loaded, changed and saved without
a transaction, so calls that overlap do lose each other's work, and no property
could say otherwise. These name it as a cause, and speak of calls one after another,
with kills between and within them: `JournalKeepsTheLast` (loads and writes that
cross), `MarkerCoversSent`, `SentOnce`, `HostMirrorsFiles`, `ReportedIsStored`,
`MessagesStay`, `ScoresArrive`, the second half of `EveryCommandCountsOnce`,
`IndexGoesForward`, `GateIsCurrent`, and `LastEditIsKept` for an edit during setup
or uninstall. These hold under any overlap: `TasksAreLegal`, `NothingCountsTwice` (a
part of `EveryCommandCountsOnce`), `WritersExclude`, `LatestIsThere`,
`RunsWalkTheWorkflow`, `NoCircularWait`. `DropsLoseABatch` excludes two servers with
one session and no other overlap.

`SettledStaysOut` and `DuplicatesOnlyAfterUnknown` are checked with a single
drainer because with two they do not hold: `outbox_revived` shows it for the
first, and two drainers that load the same entry both deliver it.

Deadlock is not checked in these runs: when the bounds are used up and no work
is left, the processes are idle, as the real ones are.

Fairness (`outbox_live`). Weak fairness of a carrier's and a drainer's own
steps: a process that is running goes on, and the host answers. Weak fairness
of `StartFlush`: `hook_handlers.rs:26-28` drains the outbox at every stop, idle
flush and compaction of an agent, so drains keep starting as long as the
client is used. Faults and kills are never forced, and bounded. No fairness is
assumed of the start of the MCP server, nor of a late request.

## 5. The proofs

`OutboxSync_proofs`, for every number of operations, drainers, faults, kills
and restarts:

- `TypeCorrect`. `TypeOK` is not inductive: the step that counts an applied
  replay needs `current[d]` to be an operation. The invariant `TypeInv` adds that
  a drainer between `sent` and `unlinked` holds one.
- `NothingDurableIsLost`, from `RenameReplaces`. `NoDurableLoss` alone is not
  inductive: the step that deletes an entry must know that the host has
  applied it. The invariant `SafetyInv` adds that whatever is `answered` was
  applied and that no drainer is ever `unlinked`. Every step is first reduced to
  its effect on `outbox`, `filed` and `applied` (`StepEffect`: it does nothing to
  them, writes, applies or removes an operation), which serves the refinement
  too. On Windows the theorem is false (`outbox_windows`); the
  theorem's assumption is the platform property it needs.
- `DirectPathIsSafe`: `answered` carriers hold applied operations.
- `AttemptsAreHonest`: loaded copies never exceed the failures, and a drainer in
  state `failed` or `unlinked` has one more failure than its copy says.
- `SafeRefinement`, from `RenameReplaces`: initial states map to initial
  states, and each step to `Record`, `Apply`, `Discharge` or a stutter.
- `SettledEntriesStayOut` and `DuplicatesNeedALostAnswer`, from
  `OneDrainer == Drainers = {McpDrain}`, the setting of `outbox_single`; with two
  drainers both are false (section 4). For both, `FiledInv` says that an
  operation is filed once, by a carrier that is then through with it. `Apart`: what was
  delivered and deleted is neither on disk nor in the list of the pass. `Counted`: the
  host applied an operation, or still may, at most once more than answers were lost, and
  not even that while somebody may send it again.

`KnowledgeReview_proofs`, for all keys, values, handlers and ages:

- `KnowledgeTypeCorrect`.
- `CountersEarned`: rows and *pending rows* never claim more than was earned.
  Pending rows have to be part of the invariant since a row computed long ago
  may be written at any time; the claim survives because calls only grow.
- `OnlyOverlapForgets`: `RecordInv` says of the rows a handler holds, unless they
  are outdated or their fact is lost already, that they record what the fact
  was told plus the one value they are about to store.
- `AcceptedKnown`, `PromotedKnown`: `MarkInv` says that a handler which has only
  the mark left, and is to mark `accepted`, has written the value or still holds
  the row with it; the row is written before the mark because the mark waits
  for the handler to hold nothing.

`KnowledgeFacts_proofs` holds what does not depend on the callers. The lemmas
`...IsRead` reduce each operation to a read step, which changes only the rows
its handler holds; the invariants of the table (`CountersStep`, `RecordStep`)
follow from `StoreStep`, a read step, a write-back, a stop or a deletion, and not
from what the operation was. Both KnowledgeReview and BrainFacts prove that their
steps are such steps, and have the invariants of the table from there.

`BrainFacts_proofs`, for all keys, facts, handlers and requests:

- `BrainTypeCorrect`, and `ProjectionKeepsKnowledge` from the lemmas above.
- `AtMostOneCurrentFact` and `CurrentFactIsKept`. Neither is inductive: the step
  that stores a fact must know that nothing current is left on its subject, and
  the step that supersedes a row that the row was not given to another subject
  in between. `SubjectInv` adds four parts: only a handler that stores a current
  fact has rows to supersede, all on its subject (`PriorsInv`); two handlers on
  one subject have made it contended (`OverlapInv`); the rows a handler has
  loaded include every other current fact on its subject (`LoadedInv`); and a
  loaded row that is now current on another subject was overwritten by a rival,
  which made that subject contended (`ForeignInv`). The unique index is what
  excludes a second row of the fact's own identity, which `Priors` passes over.
  `BrainStep` gives the six kinds of steps; the invariant has one lemma for each.
- `ProjectionsAgree`. That the current fact and its knowledge row agree does not survive
  a step by itself: between the two lie the handler that has stored the fact and not
  projected it, and the one that has the row in hand. `AgreeInv` says, for a key nobody
  disturbed, that the fact agrees with the row, or with the row a handler is about to
  write, or that the one handler at work on the key is still to project it.

Of the client's stores, for every number of processes and every bound:

`FileStores_proofs`, the stores that are one file for several processes:

- Tasks: `TaskTypeCorrect`; `TasksStayLegal`, from `TaskInv`: not only the file but the
  temporary file and every copy a process holds has a legal history, since any of
  them may become the file through a handle that was renamed under its writer;
  `ReportsHold`, from `AloneInv`: as long as no calls overlapped only one process is
  at work, its handle is on the temporary file, and the store is what was reported
  until the rename.
- Workflow: `WorkflowTypeCorrect`; `RunsAreWalks`, from `WalkInv`, which holds of the
  file, the temporary file, every copy and every gate; `GateIsTheRun`, from `GateInv`:
  what a call is about to install is what the file holds.
- Registry: `AgentTypeCorrect`; `SavesExclude`, from `LockInv`: unless a lock was broken, whoever is between
  lock and unlock is the owner of the lock file; `MessagesKept`, from `PadInv`: as long
  as no calls overlapped one process at most is at work, and what it is to save is
  the newest of what was pushed, or that with the push of its own call (`IsToSave`): a
  post appends and cuts to `MaxPad`, a shared fact appends.

`ClientSync_proofs`, what the client tells the host, its detector of loops and its
searches:

- `RepoMemoryIsTyped`; `HostHoldsTheFiles`, from `MirrorInv`: where the host is heading (`Leads`: its entries
  once every queued call is replayed in order) is the state file, or, while a sync is at
  work, the state file changed as far as that sync has come. A replay of the oldest
  call moves the host and shortens the queue, and leaves its end where it was; one that
  passes an older call by is among the causes the property names, as is a call that the
  host applied in part.
- `JournalIsTyped`; `JournalHoldsTheLast`, from `KeepInv`: the file is the last
  `MaxEvents` of what was appended, and the copy of a hook that is to write it is the
  last of that and its own event. That nobody else is at work follows from `HooksAloneInv`.
- `MarkerCovers`, from `CoverInv`: each durable event up to the marker, or up to
  what the hook at work will mark, is sent, about to be, or counted as cut by retention
  or by the room of a sync. `NothingIsSentTwice`, from `OnceInv`: what was sent was
  sent once and lies behind the marker, or the hook that sent it is still to move it.
- `DetectorIsTyped`; `RefusedCallsAreRecent`, an action property, from `RecallInv`: the
  times remembered of a call are different times at which it was made. The bound on a refused call then
  counts them: an injection maps their places to times within the window (`Places`).
- `SearchesAreTyped`; `SearchesAreExact`, for every finite graph and
  depth. `SoundInv`: what waits at a depth is reached by a walk no longer than that.
  `FoundInv` and `LeftInv`, for the searches over a queue that mark a file as they find it and as
  they look at it: the queue is sorted by depth and spans two depths at most, and each
  neighbour of a marked file short of the limit is marked one deeper at most, or waits
  there. When nothing waits the marked files are closed under edges up to the limit.

`ClientStores_proofs`, the rest:

- Editor and session: `EditorTypeCorrect`, `SessionTypeCorrect`; `LastEditStays`, from
  `EditInv`: what the one installer at work is to write comes from the last edit, or that edit is at risk; while
  the file is gone between removal and rename, the copy has it, and it still has it when
  that installer was killed there;
  `LatestStaysThere`, from `PointerInv`: a server that writes the pointer has written
  its session's file, and the shared temporary file names no session that never had one,
  through the renames that a handle follows;
  `DropsCostABatch`, from `LossInv`: unless servers shared a session, what its one
  server holds beyond the file is small at each step of a save (`StakeIsSmall`): less than
  a batch between calls, nothing once the file is written. So a kill loses less than
  that, and a session that is loaded over it too.
- Cache: `ReadTypeCorrect`; `RefsStayTrue`, from `RefInv`: every number the cache gave is below
  the next one; `SameStaysHeld`, from `HeldInv`: the agent has every version in the
  cache, or the file was cached without being shown whole; `CacheStaysSmall`, from
  `FitsInv`: the sum over the entries stays within the limit, since the entries that
  are evicted for a new one weigh at least what it lacks.
- Index and locks: `IndexTypeCorrect`, `LockTypeCorrect`; `IndexKeepsForward`, from
  `BuildInv`: unless writers overlapped one at most is at work, and neither what it found nor what it is to send is older than what
  is there (`WriterInv`); `CallsNeverDeadlock`: every scope takes its locks in the
  order cache, list of calls, session, and then what is taken inside them (`Rank`). In
  a set of calls that all wait, take those that wait for a lock of the highest rank, and
  of these the first in its queue: whom it waits for holds that lock and waits for a
  higher one, or is ahead of it.
- Statistics: `StatsTypeCorrect`; `CommandsCountOnce`, from `CountInv`: the file and the sum of what waits
  in the processes (`Pending`) are what was recorded; a merge moves its share from one
  side to the other, because the one that merges has read what the file still holds
  (`MergesAlone`). `ScoresReachTheFile`, from `ScoreInv`: the lengths of the file and of what
  is new add up to what was recorded, so nothing was cut below the limit, and the scores
  a merge takes as new are those behind what it read (`Follows`). With overlapping
  flushes, broken locks and kills, commands may be lost but none counts twice
  (`NothingCountsTwice`, a part of the same property), from `OverInv`, which bounds every total a flush may still
  write from (the file's, those that were read, those merged last) by what was recorded
  less what waits (`Past`).

`ClientParts_proofs`, the composition: `PartsAreIndependent` says that a behaviour of
the composition is, seen through the variables of any component, a behaviour of that
component, which makes every theorem above one about what the runs check; with it
`PartsAreTyped` combines the thirteen type theorems into `PartsTypeOK`.

Inductions over data are written out. The prover cannot use an induction principle that
takes a predicate, but what a recursive function or a sum does at every number can be shown
by its smallest counterexample: a nonempty set of numbers has a least element
(`LeastExists`, `LeastNat`), and a statement that holds at 0 and passes from n to
n + 1 has none (`SmallestBad`). The sums, the walks, the filters and the queues above are
treated so. The models use recursive functions, not RECURSIVE operators, for this.

Assumptions on constants. All are in the modules: junk and directly stored
values are values, ages and bounds are numbers, the candidates and facts that
are sent are well formed, a plain entry's identity is nobody else's, the
processes that write statistics, whose buffers are added up, are finitely many, the
lists of memory files and contents are finite sequences (a file is listed once, and
content may be empty), and `Parts` names components.
Two theorems have a hypothesis beside these: `RenameReplaces`, a platform, and
`OneDrainer`, a number of processes; each marks where the code's promise ends, and a
run shows the other side.

Only model-checked: everything that needs fairness (`OutboxEmpties` and the
liveness part of `ImplementsDurableDelivery`), which is out of the prover's reach,
and the disagreements, each of which is a trace.

## 6. What the models say about the code

- A hook whose event fails to be sent after 300 ms loses it.
- With two drainers, an entry that one delivered and deleted can be put back by
  the other's `mark_failed`; the operation is then delivered again.
- On Windows a kill between remove and rename loses an entry.
- A rejected candidate comes back when it is derived again.
- A brain fact that shares its key with the one it supersedes replaces it: no
  superseded row remains. The current task of two sessions is such a pair.
- A fact that returns under another key while its old row is there is refused
  by the index on its identity, after its rivals were superseded.
- Within these limits delivery is durable and at least once. It is not
  exactly once: `operation_id` of a tool call is always `None`, so the host
  has nothing to recognise a replay by (`McpContracts.cs:68-75`).
- "Superseded facts are preserved" (`memory-lifecycle/spec.md`) holds for calls
  that do not overlap (`OverlapAloneForgets`), and not for two concurrent
  `RememberAsync` on the same fact (`HistoryIsKept` is violated at once).
- A stale fact stays stale when it is remembered again, and is deleted by the
  date of its creation.
- A full read of a file that the cache holds from a compressed read or a
  prefetch answers "File already in context", and the agent never sees the file.
- `get_related` and `get_reverse_deps` search over a stack cut at a depth: a file
  reached at the limit first is not searched further when a shorter way leads
  to it, so files within the depth may be missing.
- `ctx_session load` replaces the session without saving it: up to a batch of
  changes is lost although nothing was killed.
- An import on the host that fails for an entry has removed it before, and answers that
  it is done. A drain delivers a later import before an earlier one that failed.
- `share_knowledge` leaves more entries in the scratchpad than posts may.
- Setup killed on Windows between removal and rename leaves no configuration; the
  last edit is in `.nebu-ctx.bak`, and the next setup begins a new file beside it.
- A session that two servers adopt is saved by both, whole, and a stopped
  workflow run is revived by the save of another server. A torn `active.json`
  lifts the gate, and tools answered by the host pass it in any case.
- The built-in workflow asks for the receipt of a tool that no call of it leaves
  (`tool:ctx_cost`); only manual evidence gets past that state.
- `ctx_agent read` shows messages as new that were read before
  (`ctx_agent.rs:91`).
- The statistics go on without the lock after 100 ms, and at 100 session
  scores no new one reaches the file.
- An index of any age that can be read is taken as current by `load_or_build`, and
  saved again over a newer scan.
- A save of the tasks that fails is ignored; the call reports success.
- Searches count towards their limit after they have left the window, and a search
  beyond it prunes nothing: it and every later one is refused until a call of another
  kind is made.
- Setup of Gemini and Hermes answers "already" where only the entry of the
  program's former name is there, and of JetBrains wherever there is any entry; uninstall writes in place and keeps no copy.
- The locks of the server cannot deadlock (proved), because every function that
  takes a second one does so in one order. Nothing but that order prevents it.

## 7. Not modelled

Text (compression, rewriting, formatting), scores and learning over floating
point, read-only queries and pages, detection of editors, rules files and
diagnosis, and the HTTP and SQL layers below the operations: PostgreSQL
executes one statement atomically, and a request is applied, refused or left
unanswered. Local disk writes succeed unless a process is killed in them.

Most of the source is of that kind: of the client, the compressors of shell
output, the parsers of source code, the formatting of every tool's answer, the
setup of two dozen editors and the dashboard. What is modelled is where steps
of several actors meet.

Known, and in no model: an outbox file that does not parse fails every later
load; two entries of one clock tick have one name (`sync_outbox.rs:126`); the
events in the channel of an MCP server that ends; the token bucket of the host's
rate limiter against the clock; the repairs of the maintenance plan; the
cascade that deletes a project while a request resolves it; hydration of the
telemetry store; load-change-save of the host's sessions; an index filed under "."
that `load_or_build` takes for any root (`graph_index.rs:175`); `CostStore`
(`a2a/cost_attribution.rs`) and the diaries of agents, which lose concurrent
saves as the tasks do. Components that are planned and not yet modelled are
marked so in `PROJECT.json`.
