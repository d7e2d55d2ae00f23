# TLA+ models of ohara

ohara indexes the history of a git repository into SQLite (`ohara index`) and
answers questions about it (`find_pattern`, `explain_change`), from the CLI, an
MCP server, or a long-lived daemon they share.  This directory holds TLA+
models of the parts whose correctness depends on order, concurrency and
failure, the TLC configurations that check them, and TLAPS proofs.

    tlc -workers 2 -config MCIndexPipeline.cfg MCIndexPipeline
    tlapm IndexPipeline_proofs.tla

`PROJECT.json` lists the components, the runs, for every checked property a
mutated definition that breaks it, the source lines of every definition, the
hazards of the code, and the theorems.  Paths below are relative to
`src/crates/`.

## 1. The system

| Component | Source | State | Operations | Hard because |
|---|---|---|---|---|
| Indexing pipeline | `ohara-core/src/indexer/coordinator/{mod,actor}.rs`, `stages/` | walk, bounded channel, per-worker result | walk from watermark, skip indexed, send, receive, chunk/attribute/embed, two transactions, join | N workers share a receiver; errors are swallowed; panics; process death between the two transactions |
| Tail of a run | `ohara-core/src/indexer.rs` | watermark, HEAD symbols, metadata | `put_head_symbols`, `set_last_indexed_commit`, `put_index_metadata` | three writes, each may fail; HEAD moves meanwhile |
| Storage | `ohara-storage/src` | commit, hunk, symbol, repo, metadata, embedding-cache tables | one transaction per call | mirrors without foreign keys, delete-then-insert, rowids that come again, two writing processes |
| Git | `ohara-git/src` | the repository | `list_commits(since)`, diffs against the first parent, renames, languages, blame | HEAD is the user's; commits may be collected; two tables of extensions |
| Batching embedder | `ohara-embed/src/batching.rs` | channel, pending rows, outstanding requests | `embed_batch`, enqueue, dispatch, fail, complete | rows of several callers share batches; failures; shutdown |
| Idle model slot | `ohara-embed/src/{idle_slot.rs,fastembed/lazy.rs}` | loaded model, last use | load, unload when idle | unload races with use, and with loads |
| Model providers | `ohara-embed/src/{fastembed.rs,fastembed/,coreml_fixed.rs,cache.rs}`, `ohara-cli/src/commands/provider.rs` | cached files, one session behind a lock | choose a provider, fetch, `embed_batch`, `rerank` | several processes fetch and die; a fixed shape; threads that outlive their task |
| Retrieval engine | `ohara-engine/src/{engine.rs,cache/}` | handle map, meta cache, blame cache | `find_pattern`, `index_status`, `explain_change`, `invalidate_repo` | caches race with invalidation and with a rebuild under open connections |
| Daemon registry, discovery | `ohara-engine/src/{registry,daemon}.rs`, `client/` | registry file, lock file, processes | register, heartbeat, prune, find-or-spawn, sweep | several processes, crashes, torn writes |
| Server and transport | `ohara-engine/src/{server.rs,client/,ipc/}` | connections, stop token | one request per connection, drain, call timeout | shutdown and timeouts race with answers |
| Front ends | `ohara-mcp/src/`, `ohara-cli/src/commands/{query,explain,status,daemon_client}.rs` | the MCP session's engine | daemon first, then an engine in process | what is kept of an answer when the daemon is lost half way; an engine nobody notifies |
| `ohara index` command | `ohara-cli/src/commands/{index.rs,index_wizard/}`, `ohara-cli/src/resources.rs` | the options of a run | parse, ask, print a command, size the run, rebuild, force, incremental, compatibility guard | a sequence of runs with crashes between; three ways to the same options |
| Compatibility verdict | `ohara-core/src/index_metadata.rs` | none | `assess` | a table of mismatches |
| Embed stage | `ohara-core/src/indexer/stages/embed.rs`, `ohara-storage/src/tables/embed_cache.rs` | embedding cache | de-duplicate, embed the misses, write back | one batch, three numberings of its places |
| Retrieval | `ohara-core/src/retriever/`, `ohara-storage/src/tables/` | none | lanes, RRF, rerank, recency | scores of different origins decide one order; truncation at every stage |
| Explain | `ohara-core/src/explain/`, `ohara-git/src/blame.rs` | none | blame, look up, hydrate, assemble | several reads beside an index run; truncation at two places |
| Attribution, chunking | `ohara-core/src/{hunk_attribution.rs,indexer/stages/attribute.rs}`, `ohara-parse` | none | symbols of a hunk, sibling merge | off-by-one; what "exact" means |
| Language parsers | `ohara-parse/src/{rust,python,java,kotlin,javascript,typescript}.rs` | none | symbols of one file | a declaration matched twice; a hash map's order |
| Ignore rules, `plan`, `init` | `ohara-core/src/ignore.rs`, `ohara-cli/src/commands/{plan,init}.rs` | `.oharaignore`, post-commit hook | layered verdict, merge of a marked block | the user edits the same files |

How they interact: the CLI's `index` runs the pipeline in process, with one
`SqliteStorage` whose single write connection serialises transactions, and one
embedder (perhaps the batching one) shared by the workers.  When the run is
over it looks up the live daemons in the registry and sends each an
`InvalidateRepo`, best effort.  A daemon serves each connection in a task of
its own over one shared engine; the engine opens one storage handle per
repository and reads the database file the index process writes.  Clients find
or spawn a daemon through the registry file, and fall back to an engine of
their own when that fails.

Correctness, per component:

- *Pipeline*: what the watermark hides from the next walk is in the index; a
  row without hunks is explained; one worker per commit; a run ends.
- *Batching embedder*: each caller gets the vectors of its own rows in order, or
  an error for which there is a cause, always.
- *Engine*: one handle per repository; no handle reads a deleted database once
  the engine has been told; cached verdicts and ranges describe what they are
  filed under; an answer is about what was asked.
- *Registry*: at most one spawn per cold start; a live daemon is found; the file
  survives crashes of its writers.
- *Command*: no vectors of two kinds in one index; nothing skipped that is stale; what
  runs is what was agreed to, at the prompts or on the command line.
- *Retrieval*: no stage puts a hit before one that everything it knows puts ahead.
- *Tables*: mirrors agree with what they mirror; a commit's hunks are all there or
  none is; a vector was made from the text it is stored with.
- *Idle slot*: one load at a time; every call is served; a quiet session goes.
- *Explain*: every line asked about is accounted for; the related commits are the
  nearest ones.
- *Git and the index's view of it*: the records tell what HEAD has; the language filter
  finds what it can.
- *Models*: a load fails for a reason only; an answer is in its text's place.
- *Parsers*: every declaration that is matched has a symbol, its best one, in the same
  place each time.
- *Files*: what a user has written decides and stays.
- *Front ends*: every door has the engine's guard, whichever engine answers; an answer
  is not half a daemon's and half the server's own; the daemon can be done without.

## 2. Modules

| Module | Models | Role |
|---|---|---|
| `IndexContract` | what a reader of the index relies on | abstract specification |
| `IndexPipeline` | pipeline, tail of the run, git walk, crashes | implements `IndexContract` |
| `IndexPipeline_proofs` | | invariants and refinement, proved |
| `EmbedService` | the promise of `EmbeddingProvider::embed_batch` | abstract specification |
| `BatchingEmbedder` | the coalescer and its callers | implements `EmbedService` |
| `EngineCache` | the daemon's engine, requests, caches, index runs | |
| `EngineCache_proofs` | `EngineCache` and `ModelCalls` | invariants, proved |
| `DaemonRegistry` | clients and daemons around the registry file and the socket | |
| `DaemonRegistry_proofs` | | invariants, proved |
| `Compatibility` | `CompatibilityStatus::assess` | the verdict, an operator |
| `IndexCommand` | `ohara index` runs, upgrades and HEAD over an index's life | |
| `IndexTables` | the tables and each writing call of `Storage` | the state of `CommitStages` |
| `Attribution` | hunk records, their symbols, chunks of symbols | operators |
| `HunkStore` | what a reader of the hunks relies on | abstract specification |
| `CommitStages` | two index runs, stage by stage, down to the tables, and a query | implements `HunkStore` |
| `Extraction` | the symbols a parser extracts from one file | |
| `CommitStages_proofs` | `CommitStages` and `Extraction` | invariants and refinement, proved |
| `IdleSlot` | the reranker's slot, its callers and the watchdog | |
| `Embedding_proofs` | `BatchingEmbedder` and `IdleSlot` | invariants and refinement, proved |
| `Ranking` | sets in an order: places, lists, limits | operators |
| `Ranking_proofs` | | lemmas about them, proved |
| `Retrieval` | one `find_pattern` query: intent, lanes, fusion, cross-encoder, recency | |
| `Explain` | one `explain_change` request beside an index run | |
| `Queries_proofs` | `Retrieval`, `Explain` and `FileHistory` | invariants, proved |
| `FileHistory` | what git shows of the files, their languages, and what the index tells of HEAD | |
| `ModelFiles` | choosing a provider, the model's files and their download | |
| `ModelCalls` | the calls of a loaded model: chunks, fixed shape, reranking | |
| `RepoFiles` | ignore rules, `ohara plan`, `ohara init`, and the user's editor | |
| `FrontEnds` | the commands and the MCP tools that ask, the daemon's engine and their own | |
| `IndexOptions` | the command line, the wizard, the command it prints, the size of a run | |
| `Commands_proofs` | `IndexCommand`, `IndexOptions`, `RepoFiles`, `ModelFiles` and `FrontEnds` | invariants, proved |
| `MC...` | constants for TLC | |

`MCEmbed`, `MCCommitStages`, `MCEngineCache`, `MCQueries` and `MCCommands` each check two to five
specifications that share nothing, side by side: a variable chosen at the start
(`shared`, `part`, `subject`) says which of them a behaviour is of, and the others keep
one initial state.

### IndexPipeline

One index process at a time.  `head` is the user's; `rows`, `hunks`,
`watermark`, `symbols` and `stamped` are the tables; `todo`, `held`, `queue`,
`at`, `job`, `failed` are the walker task, the channel and the workers of
`run_actor_pipeline`; `phase` is the statement of `Indexer::run`.

- `StartRun` computes the walk (`list_commits`): ancestors of HEAD minus the
  watermark and its ancestors.  `Oldest` takes it parents first; commits that are
  incomparable come in any order, a superset of git's topological order.
- `WalkerSkip`/`WalkerTake`/`WalkerTakeUnchecked` are the `commit_exists` check,
  the last one its `unwrap_or(false)` on a failing lookup.
- `WalkerSend`, `WorkerRecv`, `WorkerExit` are the channel, bounded by the number
  of workers.  `Prepare` is everything before the first write, including the
  exit of a fully ignored commit.  `PutCommit` and `PutHunks` are the two
  transactions of `PersistStage::run`; each is atomic because it is one SQLite
  transaction.
- `CommitFails` is the worker's `Err` arm.  `WorkerPanics` unwinds one task; its
  counters are lost because `if let Ok(wr)` ignores it.  `Join` awaits the tasks.
- `PutHeadSymbols`, `SetWatermark`, `PutMetadata` in that order, `TailFails` for
  an error in one of them.  Reading HEAD's tree and replacing the symbols are one
  action: nobody else touches the symbols, so only when HEAD is read matters.
- `Crash` ends the process anywhere; an open transaction is rolled back.
- `lost` is a history variable: the commits whose processing a fault cut short.

### BatchingEmbedder

A caller's `embed_batch` is `Call`, `Send` (or `SendFails` once the coalescer is
gone) and the reply.  The coalescer's loop is `DispatchFull` while a batch is
pending, otherwise `Enqueue`, `FlushPartial` when the channel is empty, `Stop`
when every sender has gone.  The inner call runs between `Dispatch` and
`InnerReturns`/`InnerFails`/`InnerPanics`; a wrong number of vectors is the
error case, as in the code.  A row stands for its vector, so a misplaced vector
is visible.

### EngineCache

Requests are one-shot tasks for one repository and one file.  `repos` is the
handle map, a handle being named by the request that opened it; `conns` are the
database files its read pool has connections to: deadpool connects lazily, so a
handle starts with none, and which idle connection a query gets is a
nondeterministic choice.  `gen` counts how often the database file was replaced
by `--rebuild`; `file[g]` is the run that completed file `g` and whether another
embedding model wrote it.  `at[r]` walks a request through `open_repo`,
`cached_meta`, retrieval, or hashing, blame and hydration, with every lock taken
and released between two steps.  `Rebuild`, `IndexDone`, `NotifyLost` are the
index process, `DropHandle`, `DropMeta`, `DropBlame` the three steps of
`invalidate_repo`.  `Fails` is any `?` on the way.  The two storage reads behind
a meta are one action, and the file's lines are sets, opaque to the cache.

### DaemonRegistry

A client is one process doing one thing, `find_or_spawn_daemon` and a call, or
`daemon stop`; a daemon is named by the client that spawned it.  `recs` and
`torn` are the registry file, `fresh` the daemons whose heartbeat is at most five
minutes old, `lock` the client holding the file's lock while it spawns; every
other use of the lock is one action, since it is held from the read to the
write.  `Spawn`, `Register`, `ReadinessTimeout` are `spawn_daemon` inside
`locked_update`; `Find`, `ListAlive` write the pruned list back.  `Connect`,
`GetReply`, `GetEof`, `CallTimeout` are `Client::call`, with the fallback of
`try_daemon_call`.  `Boot`, `Heartbeat`, `Accept`, `Answer`, `Cancel`, `IdleExit`,
`Exit`, `End` are the daemon: a draining one still has its socket, so connections
wait there until the drain is over.  `StartBlocking` and `FinishBlocking` are what a
handler does inside `spawn_blocking` (loading a model, embedding, blame, the
database); `blocked` are the requests that are there.  `Exit` is the end of the
drain, in which the handlers that are left are aborted and the socket and the files
removed; the threads they wait for are not, and the runtime that `#[tokio::main]`
drops when `main` returns waits for them without limit: the daemon is "leaving", and
`End` takes place once it is no longer `Busy`.

A killed client lets go of the lock; a process killed inside a registry write
leaves the empty file (`CutWrite`: `set_len(0)` and `write_all` are two calls).
`PidUnread`, `RegistryFails`, `UnregisterFails` and `HeartbeatFails` are the I/O errors:
the pid file of a child that is ready cannot be read, or an operation on the registry
fails before its write or within it.  `MaxFaults` bounds kills, I/O errors and sleeps
together.
A child that has exited is a zombie, which `kill(pid, 0)` finds, until its
spawner ends.  Time is the environment's: `Stale` once a daemon that no longer
runs, or that is leaving, has missed its heartbeats, `HostSleeps` for every daemon at
once.  `excused` is a history variable: the daemons a fault has cut off from the
registry, until a heartbeat finds their record again.

### CommitStages, IndexTables, Attribution

`IndexPipeline` knows of a commit only whether its row and its hunks are there;
here the rows are.  `IndexTables` has `commit_record`, `hunk`, `symbol` and their
vector and full-text mirrors, `hunk_symbol`, the embedding cache and the
watermark.  Each writing call is one operator and one step: one transaction on
the one write connection, and SQLite takes those of two processes one at a time.
`PutHunks` finds the rows to go through `hunk`, empties the mirrors by them, then
deletes the rows, whose `hunk_symbol` rows go with them (V4's ON DELETE CASCADE),
and inserts the new ones, whose rowids start one past the largest left: ids come
again.  Mirrors have no keys, so nothing but this order keeps them in step.

`CommitStages` runs two processes, each with one worker, a model of its own and
any `--embed-cache` mode: `Begin` computes the walk from the watermark, `Skip` and
`Take` are `commit_exists` (`Take` also when there is a row: the look-up may fail),
`Prepare` chunks, attributes and asks the cache, `Embed` is `EmbedStage::run` up to
the write-back, `WriteBack`, `StoreCommit`, `StoreHunks` are the three
transactions, `StoreSymbols` and `Finish` the tail.  A vector is the pair of its
model and the text it was made from, so that a misplaced one shows.  `Fail` is the
worker's `Err` arm, `Stop` a death or an error of the tail.  `Read` and `Hydrate`
are a query that reads a hit on one connection and its symbols on another.
`gaveUp` is history.

`Attribution` has what the stages compute: `Attributed` is the attribution a run
makes, `ExactSpans` the one `attribute_hunk` would, `ChunkSymbols` the merge of
siblings behind HEAD's symbols.

### Extraction

`extract_atoms` of the six languages, and `extract` of the dispatcher.  A file is its set
of declarations: what each is, where it is inside, its span and the names it gives.
`KindsOf` is what a language's patterns capture one as, and `Captures` the matches; they
come in any order (`NextMatch`), which asks less of tree-sitter than it gives.  `Insert` is
one turn of the loop over the hash map, `IntoValues` the map's values in any order,
`SortAtoms` the caller's stable sort.  `Unparsed` is the error that counts a file as one without
symbols.

What the code does, where a reader may expect another thing: rust.rs has no map, so a
method in a plain `impl` is indexed twice, as a Function and as a Method.  A method of a
generic type's `impl`, or one under a Python decorator, is a Function only.  Two functions that
one `const` statement binds share its span, and the map keeps one of them.  Kotlin's patterns
see no local function.  `kotlin.rs:3` promises "source-byte order": the sort that
gives it is the dispatcher's.

### IdleSlot

`doing[t]` is where the call of task `t` is in `get_or_try_init`, `lockQueue` the
holder of the slot's lock and who waits for it: tokio's RwLock is given in the
order it is asked for.  Readers hold it for one step, so that they are queued as
writers are.  The stamp is set before the lock is asked for, and the watchdog reads
it before it asks (`idle_slot.rs:52`) and not again: a session that was loaded or
asked for while it waited goes all the same, and the call that needs it next loads
it again.  `unused` is the stamp's age in ticks.  Only the reranker's slot has a
watchdog; the embedder's lazy provider is never unloaded.

### Explain

`Blame` clamps the lines to the file in the work tree while the lines are HEAD's;
`LookUp` is the one batch of commit rows, `ReadDiff` one commit's hunks of the
file, `ReadAnchor`, `ReadOlder` and `ReadNewer` the three statements of
`get_neighboring_file_commits` for one anchor, `Assemble` the order, the cut,
coverage and limitation.  An error refuses the request (`ExplainFails`), except that of
the first statement: `.ok()` takes it for a commit that is not indexed, and the
anchor has no neighbours (`AnchorUnread`, remembered in `unread`).  An owner need not have
hunks under the file's path, since blame follows renames and the index leaves out what
is ignored.  `IndexRow` and `IndexHunks` are the index run between
them.  Commits are numbered in the order of their names, `Dated` is their time.
What the code sorts, or has SQLite sort, is a set and an order here (`Ranking`): a
member's place in the list is how many come before it, and a limit keeps those of
which few enough do.
`early` is history: what was stored when the owners were looked up.

### RepoFiles

A file is a sequence of lines: markers, rules, hand-written lines.  `Ignored` is
`LayeredIgnore::is_ignored`: the first of the user's, .gitattributes' and the
built-in layer that has a verdict, each with the gitignore rule that the path and
then its parents are looked up, and that the last pattern wins.  `Commit` is what
`HotmapAggregator` records of one commit, `Suggestions` and `Section` the block;
`PlanWrites` replaces the block between the first opening marker and the first
closing one after it, refusing a file without one, `PlanReplaces` writes the file
anew.  `InstallHook` is `write_hook` with its three cases, `ReplaceHook` its
`--force`.  The user adds rules above and below, quotes a marker in a comment,
extends the hook and cuts its closing marker.  `top`, `bottom`, `script` and `cut`
are history: what was written by hand.

### IndexCommand

One `ohara index` process after another, over one index.  `run.step` is where
`run` of the command is: `delete` (`Delete`, the only step of `--rebuild` of its
own), `guard` (`Accept`, `Refuse`), `clear` (`--force`), `fast` (`--incremental`:
`UpToDate`, `Behind`), then the pipeline: `Walk`, one `IndexCommit` per commit,
`PutHeadSymbols`, `SetWatermark`, `PutMetadata`.  `Die` ends it before any step,
for a death and an error alike.  A release is what it records in the metadata;
`Upgrade` installs the next one, never an older one.  A row is the kind of its
vectors, model and mode; models that `embedding_models_equivalent` takes for one
are one here, and the dimension goes with the model.  History is a line, so a
walk is an interval.  `Verdict` is what a query of the installed release is
told, `RunVerdict` what the guard of a run sees; both are `Assess`.  Three history
variables name the ways the properties can fail: `switched`, a run went on over
rows whose kind was never recorded; `cleared`, a `--force` has dropped the
symbols and not got to put new ones; `strayed`, HEAD has moved back.

`--force` clears and re-extracts HEAD's symbols and nothing else: rows that have
a commit record are skipped, so a derived component other than the symbols is
recorded as current without having been made again.

### Retrieval

One query.  `Intent` is the order in which `classify_intent` asks its questions, of
which each is a cue here; the profile it picks disables lanes (`LaneEnabled`),
widens the pool, strengthens recency.  `Since` is the date asked for, or else the
one in the words.  `found[l]` is the ranking of lane `l`, each entry a hunk and the
similarity its lane gives it.  `join_all` awaits the lanes in any order; they share
nothing, so they are filled one after the other, `Gather` leaving those empty that the
profile disables.  How strongly a hunk matches
is the environment's choice; the order, the limit, the filter and the similarity
are the lane's.  `KnnLane` filters what its limit has left, as the virtual table
does; `AttributionLane`'s limit counts rows, and a hunk has one per symbol, so that
fewer hunks than that may be left; the three lanes over full text are of
`Bm25Lane`'s kind.  `FirstLane` is the lookup table of `coordinator::run`, whose
entries keep the similarity of the first lane; `RrfScore` and `SeenBefore` are the two
keys of `reciprocal_rank_fusion`'s sort; `Fuse`, `CrossEncode`, `Finish` are
`fuse_to_pool`, `cross_encode`, and `apply_recency` with the final cut.  `Fail` is
any `?`.  The symbols a hit is shown with are `CommitStages`' `Hydrate`.

Scores are integers in the order of the real ones: `Unit` stands for 1.0, the
logistic function is replaced by one as monotone and as bounded, the decay is a
constant `Recency` of which only its range and its order are assumed, and `RrfUnit`
is the 1.0 of which a reciprocal rank is the integer part.  The theorems hold for any
`RrfUnit`, one too small to tell two places apart included; the runs take a common
multiple of the denominators, so that there nothing is rounded.

### FileHistory

The user's side is `Commit` (a tree, perhaps with a merged branch), `Checkout` and
`Collect`, which drops what only other branches reached.  `Renames` is `find_similar`:
an addition may be paired with a deletion it is like, and with which of several is
libgit2's choice, so that `HunksForCommit` is the set of what a diff may be printed as.
A change of type, file to link, is a deletion and an addition.  `DetectLanguage` is the table of
`diff.rs`, `ParserLanguage` that of `ohara-parse`; `Upsert` is `upsert_file_path`, whose
COALESCE never puts NULL in the place of a language.  `Begin` fails for a watermark that
git has collected (`Listable`).  A content is in `Parsed` when parsing it gives symbols.  `gaveUp` is history: commits git no longer had when the
run came to them.

### ModelFiles

A load is one process wanting one model.  `DetectProvider`, `ResolveProvider` and `Provider` are
`auto` and the downgrade of a query; `Enabled` what the build has.  `CacheDir` is
`resolve_cache_dir`; `Place` is `Hub` for the INT8 reranker, which is fetched with
hf-hub's own default.  `Look`, `Fetch`, `Fetched`, `Open` are `ensure_fp32_snapshot` and
the loading behind it, file by file, with `NetworkFails`, `Leave` (the process dies, or
drops its session) and `ClearCache` anywhere.  `reasons` is history: what stood in an
attempt's way.

### ModelCalls

Every call is a blocking thread: `Ask` spawns it, `QueueUp` waits for the session's
mutex in tokio's order, `RunChunk`, `RunBatch`, `Rerank` use it, `Fail` is an error or a
panic, `Drop` the end of the task that asked, which does not end the thread.
`RunChunk` is one chunk of the CoreML session, filled up to `FixedBatch` rows by `PadRows` and
cut back to its own rows.  `FixGraphIoDims` is the rewriting of the model file, of which
only the dimensions are left: `ByRows` names the first two.  `Reranked` is what `rerank` may
return, best first, ties in any order; `AlignByIndex` puts it back in the candidates' order.
`shapes` is history: the shapes the session was run with.

### FrontEnds

A call goes through one of five doors: `query`, `explain`, `status`, or the MCP server's
`find_pattern` and `explain_change`.  `CallDaemon` and `StayInProcess` are the two ways to
begin, `DaemonLost` is `try_daemon_call` giving up on a call under way, `EngineFails` an
error the serving engine answers, of which `FallsBack` says who asks elsewhere.
`Daemons` are processes: one that replaces another is another member, and a call
reaches whichever is found when it looks.  `explain_change` looks twice: whatever
became of its first `daemon_call` (`AsksAgain`, stage "ask"), `AskStatus` is the second,
of a daemon of its own finding; the two answers together are the tool's, and with a
half missing (`Halved`, `StatusInVain`) it starts over in its own process.
`Guard`, `Retrieve`, `ExplainLines`, `IndexStatus` are the engine's part, one step per request
or half request: the races within one engine are `EngineCache`'s.  `files[e]` are the editions
of the database that engine `e` has connections to.  A command's engine is its own and
ends with the process (`CallAgain`); the MCP server's `Session` lives on and is told of no
rebuild, since the registry that `ohara index` notifies lists daemons only.
`DaemonHears` is an `InvalidateRepo` that reaches a daemon at any time, also during a rebuild,
when it is that of the run before.
`unheard` (engines that keep something from before the last rebuild), `calm` (calls
nothing has disturbed), `by` and `failedBy` are history.

### IndexOptions

`ParseFails`, `Parse` and `StartWizard` are clap and the first statements of `run`; a command line is
its switches, its options with their values, and its words.  The prompts come in the
order of `run_wizard_with`: `PickProvider`, `PickIntensity`, `PickMode`, `ConfirmRebuild` for a
rebuild, `Knobs`, then `PickKnob` for the four numbers and the cache, `PickSwitch`, and
`RunNow` or `PrintOnly`; `Cancel` at any of them.  A number that cannot be read is asked for
again, which is no step.  `Assembled` is `assemble_args`: of the command line behind `-i`
only the path is kept.  `Printed` is `args_to_command` as a shell would read it: `Paste` has
the user run it.  `Plan` is `merge_with_resource_plan` of `PickResources` and
`ApplyIntensity`, `Sized` all that `run` configures by it, `Texts` and `Tasks` what the pipeline makes of a zero.
The two ways to count the processors are one number, `cores`.  `confirmed` and `guided` are history.

## 3. Runs

| Run | Instance | Shows |
|---|---|---|
| `pipeline` | four commits with a branch and a merge, one of them fully ignored, one without hunks; two workers; one crash, one error, one panic; HEAD moves forward, to a merge and back behind it, also during runs | `IndexCoversWatermark`, `TornExplained`, `ReportAccountsForWalk`, `ImplementsContract`, `WatermarkNeverRewinds`, `RunEnds` |
| `pipeline_abort` | one crash | violates `AbortedCommitsAreRedone` |
| `commit_stages` | two commits to one file of two functions, and a file too large to attribute; two hunks of one text in the first, that text again in the second; two processes of two models in any mode; two runs, failing and dying anywhere. Or one of four files in any language, its declarations matching in any order | `MirrorsAgree`, `VectorsAreTheirs`, `HydratedSymbolsMatch`, `ImplementsHunkStore`; `EachByItsBestKind` |
| `exact_span` | one run | violates `ExactSpanIsTouched` |
| `embedding` | three callers, two calls each of 0, 1 or 3 rows, batches of two, channel of one, one failure; or three tasks and the watchdog at one slot, calls and loads failing without bound | `RowsConserved`, `ErrorsExplained`, `ImplementsService`, `EveryCallAnswered`; `CallsServed`, `SessionShed` |
| `engine_caches` | find with status, or two explains; two further index runs, in place or rebuilding; one run that dies or whose notification is lost; HEAD moves once among a version with one blob, one with another, one without the file. Or two tasks, two calls each, at one session of each kind; none, three or four texts, shorter and longer than fit; two rows of two tokens where the shape is fixed | `CurrentFile`, `CalmFindIsCurrent`, `BlameExplained`; `AnswersInPlace` |
| `engine_range` | two explains, two line ranges | violates `AnswersOwnRange` |
| `daemon_registry` | two calls and a stop; two faults, each a kill, an I/O error, a write cut short or a sleep of the host; blocking calls that may never return | `Discoverable`, `OneDaemon`, `CallsEnd`, `ToldDaemonsExit` |
| `commands` | three commits; releases with another chunker, then another model; any flags; unbounded runs, each dying anywhere; HEAD moves at will. Or three paths, two commits, three edits by hand, `plan` and `init` at will. Or two loads of models of two files, the first of any kind that matters, the second of four. Or two commands that ask, or one of the two tools, again and again, and one rebuild, by this model or another; two daemons, either of which a call may reach, lost, failing or notified at any time. Or one command line after another on three machines, every answer at the prompts | `OneKindOfVectors`, `CompatibleMeansCurrent`, `UpToDateIsTrue`; `HandWrittenRulesWin`; `FailsForAReason`; `FindsAreGuarded`, `ExplainIsUnmixed`, `DaemonIsOptional`; `RunsAsAgreed` |
| `queries` | five queries, one of each intent, over three hunks, one older, one in another language; five lanes of three hits, a pool of two or three, one or two hits asked for. Or five lines of four commits, one of them under another path, and one more commit of the file, indexed at any time; every range, count and switch, any read failing, that of an anchor's date unnoticed. Or up to three commits, each of five trees, of a Kotlin, a Rust and an ignored file | `FusionIsFair`, `RecencyOnlyNudges`; `AnswerAccountsForLines`, `RelatedAreNearest`; `HistoryTellsHead`, `FilterFindsKnown` |
| `retrieval_order` | the same queries, of which one is without the cross-encoder | violates `PostRrfOrder` |
| `language_filter` | commits of one file each, Kotlin or Rust | violates `LanguageFilterFindsAll` |

Some safety properties are proved and not checked again (section 4): the type
invariants, `OneWorkerPerCommit`, `WatermarkCovers`, `SymbolsCoverWatermark`, `LossBound`, `OneLoad`,
`QueueIsExact`, `OneHandle`, `MetaExplained`, `HookKeepsLines`, `OneSnapshot`, `OneShape`, `OncePerMachine` and `CallTypeOK`.  A type invariant is a theorem of
its own for `IndexPipeline`, `IndexCommand`, `IdleSlot`, `EngineCache`, `ModelCalls` and
`DaemonRegistry`, and part of the inductive invariant elsewhere.

Why the bounds are enough to be interesting.  Two workers and four commits are
the least with a full channel, two commits in flight at once and a merge that
depends on both; runs are unbounded in number, so every fault is followed by
runs that must live with it.  Three rows in batches of two make every request
span batches and every batch mix callers; three callers and a channel of one
make a sender wait.  Two requests give each race of the engine its two sides;
a status request does to the handle and the meta cache all that a find does, so
find with status stands for two finds as well.  Two runs give a rebuild before
and after an invalidation.  Three clients are a spawner, one that waits for its
lock or succeeds it, and one that stops the daemon under both.  Of commits the
command needs one the watermark covers, one ahead of it and one to move back
from; of releases one per verdict.  Three hunks in a pool of two make the
pool's cut choose, one hit asked for makes the last cut choose, and logits of
both signs and zero tie and cross.  Two processes are the interference there is
between index runs, whose pairs are independent; two hunks of one text make the
cache, the batch and the write-back each meet a duplicate, two commits make one
process replace rows with other ids than it found.  Three tasks at a slot are one
that loads, one behind it and one that comes once the watchdog has been.  Two
directories of one name at two depths, one of them inside a built-in pattern, are
the least for which nearness, order and layer of a rule all matter.  Of the file's
four commits around one place each way, one is cut on either side.  Three commits are
one before a change, the change, and one that comes back to it from a branch; two
paths that may be each other's renaming, and one that is out of sight, give every
kind of delta, and a link the change of type.  Two loads are a download that is cut short and the
one that finds what it left.  Three texts in chunks of two make the last chunk one that is filled up.
A declaration that two patterns match, one that no pattern does, and a statement of two names
are what the map, the sort and their absence tell apart.
Two calls of commands are one that leaves something in a shared engine and one that
meets it, and one rebuild tells an index from the one before it.  Two daemons are one for
each half of `explain_change`.  A tool is called again and again with nothing beside it
(`ToolAlone`): all that two calls share is what an engine keeps, which a call before them
may have left as well.  A machine of each tier of
`pick_resources`, one without a terminal, command lines that clap takes and refuses, a path
of one word and one of two, and a number that is zero are the cases of the options.

Deadlock is checked in `pipeline` and `commands`.  One panic is all that `pipeline` has of two
workers, because a run really hangs when every worker has panicked: the receiver
lives in the frame of `run_actor_pipeline`, so the walker waits for room in the
channel for ever.  The theorems have no such bound.  In the other runs calls, requests, runs, clients and queries are
finite and the system stops.

Fairness.  `IndexPipeline`: weak fairness of the walker, each worker, the join
and the tail: tokio polls every spawned task, and no task holds the receiver's
mutex across anything but `recv`.  Nothing is assumed of HEAD, of starting a
run, or of faults.  `BatchingEmbedder`: weak fairness of each caller once it has
called, of the coalescer, and of the inner call's return (in some way).  Calls
are finite in number, so that weak fairness is enough for a sender waiting on
the full channel, whose waiters tokio serves in turn.  `IdleSlot`: weak fairness of
each call's steps up to its session, which are tokio's polling and a load that comes
back in some way, of the watchdog, which looks once in every period, and of the
clock.  Nobody has to make a call, or to end its use of a session.  The other
modules state safety only.  `DaemonRegistry`: weak fairness of each client that has begun,
its timers included, and of a daemon's leaving its loop, ending its drain, which is
bounded by five seconds, and ending once nothing blocks it (`Cancel`, `Exit`, `End`); none for
booting, accepting, answering or the return of a blocking call, so that the clients'
ends rest on their own timeouts, and a daemon may be leaving for ever.

### What the violations say

- `pipeline_abort`: a process that dies between `put_commit` and `put_hunks`
  leaves a row without hunks.  The next walk meets it, `commit_exists` says yes,
  and it is skipped; the watermark then covers it.  The documentation
  (`docs-book/src/architecture/indexing.md`, "Abort-resume contract") says it is
  re-done.
- `engine_range`: the blame cache's key leaves out the line range.  Two explain
  requests for different lines of one unchanged file get the same lines.
- `exact_span`: `PersistStage` stores every atomic symbol of the file as an exact span
  of each of its hunks (`persist.rs:65`).  `attribute_hunk`, which intersects the
  lines, is called by no stage.  `tables/hunk_symbol.rs:5-8` and the comment of the V4
  migration say that a changed line is in the symbol's span; the historical-symbol
  lane ranks by the difference.
- `retrieval_order`: without the cross-encoder a hit keeps the similarity of the
  first lane that reported it, and `apply_recency` sorts by that, so the order RRF
  computed only decides which hits are in the pool.  `coordinator.rs` and
  `retrieval-pipeline.md` promise "post-RRF order".  The numbers are not even in
  the order of their own lane: `bm25()` is the more negative the stronger the
  match, and `1 / (1 + (-rank_score))` falls with it.
- `language_filter`: `detect_language` (`diff.rs`) knows neither Java nor Kotlin, so their
  hunks are stored without a language, and only `put_head_symbols` fills it in, for
  files with symbols at HEAD.  The hunks of a Kotlin file that is gone before a run
  gets to its tail are found by no `--language`; `find_pattern.md` and `query.md` name both
  languages.

The passing runs say how far these go: `TornExplained` and `IndexCoversWatermark`
that no other way leads to a hole, `LossBound` how many commits a fault costs,
`OneKindOfVectors` that no other way leads to vectors of two kinds,
`FusionIsFair` that the pool itself is what the lanes say,
`RecencyOnlyNudges` that the last step is what it should be given the scores, and
`FilterFindsKnown` that no other hunk is out of the filter's reach.

Worth knowing beside them, from the reading behind the models:

- Two index processes may move the watermark back, one of them having begun from an
  older one: the next run walks commits again and skips them, which is safe.
- After an error in one commit the watermark still moves past it, while
  `stages/persist.rs:36-37` says the coordinator should not advance it.
- A first run that dies before it records its metadata leaves rows whose mode nobody
  knows.  A second run with the other `--embed-cache` mode gets the verdict
  "unknown", which the guard lets pass, keeps those rows and records its own mode;
  `indexing.md:59-60` says that switching "requires `--rebuild`".
  `OneKindOfVectors` excepts it through `switched`.
- What `.oharaignore` ceases to hide is not indexed behind the watermark, short of
  `--rebuild`.
- The block of `plan` says `engine/`, which hides directories of that name at any
  depth; `HandWrittenRulesWin` is stated for paths of which a rule written by hand
  comes at least as near.
- A hook whose closing marker has been cut out gets a second block, and the next
  `init` replaces everything from the first opening marker to the only closing one,
  the lines between included; `plan` refuses such a file.  `HookKeepsLines` is stated
  while nobody has cut it.
- Each `plan --write` that merges adds the block's closing hint once more.
- The limitation of `explain_change` calls skipped commits older than the watermark;
  they may as well be newer.  A commit that is indexed between the look-up and the
  neighbours may appear as related though it owns a line.

- `auto` takes CUDA wherever `CUDA_VISIBLE_DEVICES` lists a device, also in a build without it
  (`provider.rs:71`), whose load then fails; `FailsForAReason` names that reason.
- The INT8 reranker is fetched to hf-hub's own cache and not to `FASTEMBED_CACHE_DIR`
  (`fastembed.rs:333`), which `cache.rs:13` says "always wins".
- `ohara status` names the newest row by ULID, not the watermark (`status.rs:113`), which is a
  row that an unfinished run has written.
- `explain --lines 5:0` does not become the file's last line, as the comment at
  `explain.rs:110` says of a 0; `5:` does.
- The command the wizard prints quotes nothing (`assemble.rs:232`): with a blank in the path it is
  refused by clap, or by a rebuild's missing path, and runs nothing else (`RunsAsAgreed`).
- Behind `-i` every other flag of the command line is dropped without a word.
- `--commit-batch` sizes nothing: `Indexer` keeps `batch_commits` and never reads it.
- An MCP server that answers in process keeps the index's verdict it began with, so
  that `find_pattern` goes on refusing after the `ohara index --rebuild` it asks for, until the server
  is started again: nobody tells it (`server.rs`).

- A daemon that has been told to stop, or is idle, while a blocking call hangs gives up
  its socket and keeps its process and its models in memory; its record is found until
  it is stale, and callers fall back meanwhile.  `server.rs:65-69` bounds the handlers by
  the drain; what `ToldDaemonsExit` says of the process is conditional.
- A pid file that cannot be read behind the readiness file (`spawn.rs:61`), or a registry
  that cannot be written then (`registry.rs:215`), leaves a daemon that nobody finds, until it
  is idle long enough: only the readiness timeout terminates its child.
- An error reading the date of an anchor (`tables/explain.rs:75-84`) is swallowed: the answer
  has none of that commit's neighbours, and says nothing of it.
- The halves of `explain_change` may come from two daemons, though the comment at
  `find_pattern.rs:236` says "both from the shared engine", and then of two indexes, if one
  of the daemons missed a rebuild.

A live daemon that a sleep of the host makes look stale is pruned, and the next
client spawns a second one beside it (`registry.rs:237`); `OneDaemon` excuses it
until a heartbeat finds its record again.

## 4. Proofs

Every safety property that a passing run checks, the action properties and the two
kinds of refinement among them, is a
theorem for every value of the constants, under the named assumptions of the module
that declares them.  Each follows from an inductive invariant, named below.
`Ranking_proofs` has the lemmas about orders, induction and lists that the others
share.

### IndexPipeline_proofs

For every history, every set of workers and any number of faults
(`HistoryAssumption`, `PipelineAssumption`):

| Theorem | Property |
|---|---|
| `TypeCorrect` | `TypeOK`, with the channel's bound |
| `CoverageHolds` | `IndexCoversWatermark` |
| `TornIsExplained` | `TornExplained` |
| `NoRewind` | `WatermarkNeverRewinds` |
| `PipelineImplementsContract` | `ImplementsContract` |
| `NoSharedCommit` | `OneWorkerPerCommit` |
| `SymbolsStayAhead` | `SymbolsCoverWatermark`, if HEAD only moves to descendants (`ForwardOnly`) |
| `ReportHolds` | `ReportAccountsForWalk` |
| `LossBoundHolds` | `LossBound` |

`IndexCoversWatermark` is not inductive: when the watermark moves, what makes the
new walk's commits settled is that each of them was somewhere on its way before.
`IndInv` says so.  `WalkAccounted`: each commit of the current walk is settled,
given up, or still in the walk, held by the walker, in the channel or with a
worker; `NothingInFlight`: past the join none is on its way, so each is settled or
given up, and the watermark may move.  `RowBeforeHunks` and `TornExplained` say
why skipping a commit with a row is sound: the row's hunks are there, or a worker
has it, or a fault is to blame.  `TargetIsNew` gives `NoRewind`: a walk that is
not empty ends at a commit the watermark does not cover.  Every action has its
step, and the steps that let go of a commit share one lemma (`LetGoKeeps`).
`NoSharedCommit` and `SymbolsStayAhead` have small inductive invariants of their
own.

`ReportHolds` and `LossBoundHolds` both need `ExitLeavesNothing`: a worker leaves
only when the walk and the channel are empty, so what is left in the channel at the
join is there because every worker panicked.  `ReportInv` is `WalkAccounted` with
the workers' counters in the place of `lost`.  `LossInv` counts: with every crash,
error and panic goes what it can cost, and `Wiped` pays for a channel that was
dropped whole with one panic per worker.

### CommitStages_proofs

For every history, every diff, any processes and runs (`StagesAssumption`;
`ListAssumption`: diffs, trees, sources and texts are lists):

| Theorem | Property |
|---|---|
| `MirrorsAgreeHolds` | `MirrorsAgree` |
| `WatermarkCoversHolds` | `WatermarkCovers` |
| `VectorsAreTheirsHolds` | `VectorsAreTheirs` |
| `OneSnapshotHolds` | `OneSnapshot` |
| `HydratedSymbolsMatchHolds` | `HydratedSymbolsMatch` |
| `ImplementsHunkStoreHolds` | `ImplementsHunkStore` |
| `ExtractionHolds` | `EachByItsBestKind` |

Rowids are what makes this hard: `put_hunks` gives the ids it has just freed again.
`BlockInv` says where a commit's hunks are: in a row behind some rowid, each the row
its diff gives, with its symbols; and when they are the last rows of the table, that
rowid is the largest of the others.  So a second `put_hunks` of the last commit
writes the same rows to the same ids, and of any other one writes to ids that have
never been given: which is why a reader between two statements finds its own hunk or
none (`ReaderInv`), and why the step is a step of `HunkStore`.  `CoverInv` follows a
commit from the walk to the watermark, across the two processes: one with a row is
stored, or given up, or some run is about to write its hunks.

`VectorsAreTheirs` is about three numberings of one batch: of the hunks, of the
misses behind the message, and of the places in the calls of the embedder.
`MissesAre`: what the cache has not is among the misses, since it has a first place;
`ChunksAre`: the calls give the vectors in the order of the texts; so each input gets
its own (`OutputIs`).  `HeldInv` carries that from the look-up to the tables, over
whatever the other process writes: `INSERT OR IGNORE` keeps what is there, which is
of the same text and model.

`OneSnapshot` is inductive, since `StoreSymbols` alone writes the symbols: what takes an
argument is that one write is a snapshot (`HeadNames`).  Each atom that `chunk_symbols`
takes adds its own name to the names of the chunks so far, whether it joins the last
one or starts another (`MergeNames`); so the names after all of them are the atoms', by
induction over the places of the list (`ChunkSymbolsAre`), and those of the files put
end to end are the tree's (`NamesConcat`, `AtomNamesConcat`).  The library's induction
theorems cannot be used here: `SetInduction` is induction for a set of numbers, from
the least number outside it, and that the recursive functions behind `ChunkSymbols` and
`FlattenSeq` exist is shown the same way (`MergedExists`, `FlattenedExists`).

`EachByItsBestKind` is of any files in which no two declarations start at one place
(`TextAssumption`).  `ExtractionInv` follows a capture: it is still to come, or it has been
pushed, or the map has a symbol of its span that is no worse; and the map has one symbol a
span.  `IntoValues` and the sort neither lose nor double any of them, because a list in an
order has each element once (`Listed`), and the order by start and place is total.

### Embedding_proofs

Of `BatchingEmbedder`, for any callers, calls, sizes, batch and capacity (`BatchingAssumption`;
`TokenAssumption`: an answer is never mistaken for the marks of an open or failed
call, nor a row for an empty slot):

| Theorem | Property |
|---|---|
| `RowsConservedHolds` | `RowsConserved` |
| `ErrorsExplainedHolds` | `ErrorsExplained` |
| `ImplementsServiceHolds` | `ImplementsService` |

The rows on their way are those in the inner call and those pending, in this order
(`Buffered`).  `RowInv`: each is the only one for its slot, which is empty, and carries
the text of that place of its caller's call; `SlotInv`: every empty slot has one.
`ChanInv` and `WaitInv` add that a call is in the channel or a request, never both,
and that whoever waits is owed an answer.  Each answer is then of the caller's own
rows in their order (`Answered`), which is `EmbedService`'s.

Of `IdleSlot`, for any number of tasks and any quiet time (`SlotAssumption`):

| Theorem | Property |
|---|---|
| `SlotTypes` | `SlotTypeOK` |
| `OneLoadHolds` | `OneLoad` |
| `QueueIsExactHolds` | `QueueIsExact`: in the lock's queue once, just while waiting or holding |

That at most one task loads rests on the queue: whoever loads is its head.
`IdleInv` adds to `OneLoad` that the queue has no one twice and exactly those in
line.  Every step either puts somebody who is not in line at the queue's end
(`JoinsQueue`, `AskKeepsInv`), or takes its head out (`LeavesQueue`,
`LeaveKeepsInv`), or leaves it alone.

### EngineCache_proofs

For any requests, index runs, rebuilds and lost notifications (`EngineAssumption`):

| Theorem | Property |
|---|---|
| `TypeCorrect` | `TypeOK` |
| `OneHandleHolds` | `OneHandle` |
| `CurrentFileHolds` | `CurrentFile` |
| `MetaExplainedHolds` | `MetaExplained` |
| `CalmFindHolds` | `CalmFindIsCurrent` |
| `BlameExplainedHolds` | `BlameExplained` |

`HandleInv` says that until a request inserts its handle nobody else has it and its
pool is unused.  `MetaInv` goes through an invalidation's three steps: while the
handle has been dropped and the metas have not, a request on the old handle is not
yet in `late`, and may put a meta that the next step drops.  `CalmInv` follows a
`find_pattern` that nothing has disturbed, `BlameInv` the ranges between hashing,
blame and the cache.

Of `ModelCalls`, for any users, texts, chunk and length, and any graph whose first two
dimensions are rows and tokens, whatever else it has (`CallAssumption`: a text has at least one token):

| Theorem | Property |
|---|---|
| `EachInItsPlace` | `AnswersInPlace` |
| `ShapesAgree` | `OneShape` |
| `CallTypes` | `CallTypeOK`: in the session's queue once, just while waiting or holding |

`CallInv`: what a thread has got so far are the vectors of the first of its texts
(`InFront`), which each chunk carries on, its added rows being cut off (`NextTexts`);
every answer that was given is of its texts (`AnswerInPlace`); and a CoreML session was run
with one shape only (`OneShapeRun`).  That one is what the rewritten graph has, for its
input and its output (`BakedIs`).  `AlignByIndex` undoes any order in which the places
are all there.  `QueueInv` is `CallTypeOK` with the lists' types: a thread joins at the end
when it is not in line, and the head alone leaves (`HeadGoes`).

### DaemonRegistry_proofs

For any clients and any bound on the faults, I/O errors among them (`RegistryAssumption`):

| Theorem | Property |
|---|---|
| `TypeCorrect` | `TypeOK` |
| `DiscoverableHolds` | `Discoverable` |
| `OneDaemonHolds` | `OneDaemon` |

`OneDaemon` follows from `Discoverable` and `RecordInv`: the file never has more than
one record, that of a daemon which serves and no fault has cut off is fresh, and whoever holds the lock has seen that there is no daemon in it to
share.  `StopInv` says why taking a record out by name is safe: only that of a daemon
which has been told to stop.

### Commands_proofs

Of `IndexCommand`, for every number of commits, every list of releases and any runs
(`CommandAssumption`, `NoneAssumption`):

| Theorem | Property |
|---|---|
| `TypeCorrect` | `TypeOK` |
| `OneKindHolds` | `OneKindOfVectors` |
| `UpToDateHolds` | `UpToDateIsTrue` |
| `CompatibleHolds` | `CompatibleMeansCurrent`, if no release takes up a chunker version that an earlier one has left (`ChunkersMoveOn`) |

`OneKindOfVectors` says nothing of a run under way, whose rows come before its
metadata.  `KindInv` adds that a run past the guard is of the recorded kind
(`GuardHolds`), and that whatever it will record is the kind of all rows
(`RowsMine`).  For `UpToDateIsTrue`, `RowsCovered` follows the rows from the walk
to the watermark, and `SymbolsAhead` orders the watermark, the symbols and HEAD:
symbols are put before the watermark moves.  For `CompatibleMeansCurrent`,
`ChunkerInv` orders the chunker that is recorded and the one that made the symbols:
a run puts its symbols first.

Of `RepoFiles`, for any paths, rules, commits, edits and commands (`FilesAssumption`, by which a
repository has finitely many paths):

| Theorem | Property |
|---|---|
| `HookKeepsLinesHolds` | `HookKeepsLines` |
| `HandWrittenRulesWinHolds` | `HandWrittenRulesWin` |
| `FilesInvAlways` | the invariant of the two files they follow from |

`HookInv`: the hook holds the hand-written lines in order and at most one block,
whose three lines lie together, so that what `init` replaces is the block.
`IgnoreInv`: the file is the rules written above, the block from its opening marker to
its closing one, and the rules written below, line for line; comments that quote the
closing marker are above the block, where `plan` does not look for it.  `SplicedIs`,
`KeptBehind` and the lemmas beside them say what each way to edit a list of lines
does to the places of its lines.  From the shape of the file to the verdict it is
`StacksAgree`: two lists in which the same rules stand above and below decide alike,
as long as what stands between them comes no nearer to the path.

Of `ModelFiles`, for any loads of any setups and any files (`LoadAssumption`: an
`ohara index` loads no reranker):

| Theorem | Property |
|---|---|
| `FailuresHaveReasons` | `FailsForAReason` |
| `OneCopyPerMachine` | `OncePerMachine` |

`LoadInv`: a load that reads has all its files or a cleared cache to blame, one that
failed has the network, a cleared cache or a missing provider (`LoadFine`); a file is where some
load that wants its model looks for it (`FilesPlaced`), and loads with a home look in
one place for each model.

Of `FrontEnds`, for any calls through any doors, any daemons and any number of rebuilds
(`DoorAssumption`):

| Theorem | Property |
|---|---|
| `FindsGuarded` | `FindsAreGuarded` |
| `ExplainedUnmixed` | `ExplainIsUnmixed` |
| `DaemonOptional` | `DaemonIsOptional` |

`DoorInv` has two parts beside the types.  `EnginesInStep`: a shared engine that has heard of
the last rebuild keeps nothing from before it (`InStep`), and no call is calm while a
rebuild is under way.  `CallInv`: where a call can be through its door (`InPlace`), a call
past the guard having found its meta fit, and what `explain_change` has so far being of
daemons only, or of the server's own engine (`Unmixed`); and a calm call has only seen
the current edition (`CalmInStep`).  Which steps move a call from one engine to another is
one lemma (`Served`): whatever it had is dropped, so that nothing has to be known of
the engine it had it from.

Of `IndexOptions`, for any machines, command lines, paths and numbers (`OptionAssumption`: a path has
at least one word; no value is mistaken for none):

| Theorem | Property |
|---|---|
| `AgreedHolds` | `RunsAsAgreed` |

`OptionsInv` has what a run goes by (`ArgsInv`: the options are those parsed from the line, or
assembled from the answers) and what the wizard has been told (`WizardInv`: a rebuild that
is still the mode was confirmed, the provider was offered).  What takes an argument is the
detour over the printed command: a line that is printed parses back to the options it was
printed from, unless the path has several words (`PrintedParses`), since what is left out
is the default, and what is given is given once.  `SizedIs` is the arithmetic of the plan: of the
sizes nobody gave, no text batch is larger than a commit batch in any tier or intensity.

### Queries_proofs

For any history, any lines asked about, any anchors and limits, while anything is
indexed (`ExplainAssumption`); for any hunks, matches, limits and weights
(`RetrievalAssumption`; `LogitsAssumption`: a sigmoid is positive); and for any paths,
contents, trees and number of commits (`FileAssumption`: an entry is a file, a link
or absent, and `None` is neither a commit nor a language):

| Theorem | Property |
|---|---|
| `AccountsHolds` | `AnswerAccountsForLines` |
| `RelatedHolds` | `RelatedAreNearest` |
| `FusionHolds` | `FusionIsFair` |
| `RecencyHolds` | `RecencyOnlyNudges` |
| `HistoryHolds` | `HistoryTellsHead` |
| `FilterHolds` | `FilterFindsKnown` |

The first four rest on what an order does to a finite set.  The places of its members are
0 up to its size, each taken once (`RankTaken`), so that a list has each member once
and in its place (`ListedIs`), and when a limit leaves somebody out, as many as the
limit says come before (`LimitReached`).  An order that sorts by scores and then by
what the list was before is such an order, whence what `sort_by` does (`SortedIs`).

*Explain.*  `OwnerInv`: the lines blamed are filed under the commits that own them;
with `LimitReached` that is what `Assemble` needs.  `RelatedInv`
holds between the reads, while the index grows: of the anchors that are done, those
that were stored in time and are among the nearest still are listed; whoever is
listed was near to an anchor; in both, an anchor whose date was read.  A commit's distance from an anchor only grows with the
index (`NearerGrows`), which is why both survive a commit that is added in between.

*Retrieval.*  `ListsInv`: each lane's ranking, the pool and the scored list name a
hunk at most once, and the scores are positive.  If `h` is before `g` in every lane
that has `g`, no term of `h`'s score is less than `g`'s (`DivideMore`: a quotient of
whole numbers does not grow with its divisor) and `h` was seen first, so that `h` is
before `g` in the fused order even when rounding makes them equal (`OutranksFused`);
the cut keeps what comes before.  `Nudged` is the arithmetic of the last step: of two
positive scores, each multiplied by a number between 1 and 1 + weight.

*FileHistory.*  `HistoryTellsHead` joins two histories that move apart, git's and the
index's.  `GitInv` is git's alone: a path that is in a commit's tree is as the
last commit along first parents left it that changed it (`PresentSince`), and one that is
not in it is gone since it last was (`GoneSince`).  `IndexInv` is the index's: a commit with a row
has the records of one of its possible diffs, less what is ignored (`Settled`), and so has
each at or before the watermark, unless git had lost it; `RunInv` carries that through a walk
in any order, `Die` and `Checkout` included.  Between them stands what a diff tells of its two trees
(`Tells`, `DiffTells`): what is in the new tree and was changed has a record that is no
deletion but for a change of type, and what is gone has one or a successor that has.  When nothing is behind, every
commit of HEAD's history is at or before the watermark, and the two meet.  `FilterFindsKnown`
needs `LanguageInv` and no history: a file with symbols is filed under its parser's
language, and no later `Upsert` changes that, because the two tables agree wherever both
know an extension (`TablesAgree`).

### Model-checked only

- The liveness properties (`RunEnds`, `EveryCallAnswered`, `CallsServed`, `SessionShed`,
  `CallsEnd`, `ToldDaemonsExit`): they need fairness and `ENABLED`, which the prover
  does not reason about.

## 5. Abstractions, and what is not modelled

- Two index processes at once are `CommitStages`'; `IndexPipeline` and `IndexCommand`
  have one at a time.
- Going back to an older release.  A failing commit in a run of `IndexCommand`:
  `IndexPipeline` has those.
- Commits collected by git under the watermark (rebase, then `gc`) stop every later run before it
  begins, until `--rebuild`: `FileHistory` has that step disabled and states no property of
  it, since the error is what the user sees.
- Submodules, paths that are not UTF-8, and copies, which `find_similar` is not asked for.
- What onnxruntime, fastembed and hf-hub do inside: `ModelFiles` and `ModelCalls` have them by
  what the code relies on, a file that appears whole and a vector per row.
- What a text, a vector or a score is: texts are sequences of pieces, a vector is
  where it came from, scores are small integers.  Of the rounding of scores, ages that
  differ are told apart by their recency, and no sigmoid is lost to zero.  SQLite's own atomicity and
  durability are assumed, as are tokio's channel and locks, the matching of the
  `ignore` crate and the syntax of its patterns.
- Of a query's words only the intent and the date are modelled, which are all of
  `ParsedQuery` that the code goes by.  Keyword tables, hints and reports are wording.
- The engine keeps handles per repository; one repository is modelled, since no
  state is shared between two.  The query-embedding cache is a memo of a pure
  function that no request goes through.
- Daemons of other versions, which a booting daemon sweeps, live in registries of
  their own.  A registry write cut short is modelled as the empty file it leaves
  after `set_len(0)`, not as a partly written one.
- `init` also merges a block into CLAUDE.md, by the functions the hook is merged by,
  but without `--force`; the hook stands for both.
- Of the front ends what they do with arguments, and wording.  A daemon's answer that does not
  decode is not modelled: discovery takes daemons of its own version only.
- Tree-sitter and its grammars: `Extraction` has what the queries capture of a declaration,
  and not how names are qualified.
- Migrations and output are data transformation or I/O.

## 6. Plan

The components with state or order of their own are modelled, and what their runs
check of safety is proved.  What is left is more of the code: the connection pool and
the codecs of the storage crate, the memo of query embeddings, the sweep of other
versions' daemons.
