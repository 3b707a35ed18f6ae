# TLA+ models of retro-doc

retro-doc analyzes a code base and lets its users explore, query and document it.
This directory holds TLA+ models of the parts of it that are hard to get right and hard
to test: the documents that several requests, two server processes, a durable
orchestration and a few background tasks write to without a transaction between them.
TLC checks the models on small instances; the theorems of the `...Proofs` modules are proved
with TLAPS for every value of the constants.

Paths below are relative to `src/`.

## 1. The system

```
 browser ──HTTP──> backend (FastAPI, 2 uvicorn processes, backend/Dockerfile:43)
                     │  │ └──> MongoDB / Cosmos DB   repos, user_repos, pipeline_runs,
                     │  │                            deep_analyses, chat threads and messages
                     │  └────> blob storage          uploaded archives
                     └─POST /api/pipeline, GET status, GET version──┐
                                                                    v
                     worker (Azure Functions, Durable orchestration "analyze")
                       activities: stamp version, clone or extract, batches of files,
                       repository summary ──> the same MongoDB, blob storage, AI Search
```

The backend and the worker share no memory. They meet in four documents (`RepoDocument`,
`UserRepoDocument`, `PipelineRunDocument`, `FileDocument`), in the blobs of one prefix, and
in the id of an orchestration instance, which is the id of the run document it works for.
MongoDB gives them atomic single-document updates and unique indexes, nothing more.

### Inventory

| Component | State | Operations | What makes it correct | Here |
|---|---|---|---|---|
| Pipeline runs (`backend/app/pipeline`, `backend/app/repos/service.py`, `worker/app/pipeline`) | one `PipelineRunDocument` per attempt; partial unique index on non-terminal ones; instances in the worker's task hub | create, join, relaunch, reconcile, claim, stamp `retried_at`, dispatch; stamp version, RUNNING, COMPLETED, FAILED | one live run; work only under its claim; one dispatch per id; outcomes final; no run wedged | `RepoRuns`, `RunClaim`, `RepoRunsProofs` |
| Repositories and holders (`backend/app/repos`, `backend/app/users`) | `RepoDocument.user_count`, versions, unique key; `UserRepoDocument` links | find by floor or key, create, acquire slot, join, relaunch at a new version, rename, delete | the counter bounds the links; keys unique among held rows; dead rows stay dead | `RepoLinks`, `RepoLinksProofs` |
| Deep analyses (`backend/app/deep_analysis`) | `DeepAnalysisDocument`; a task per launch in one process | launch, the task's five writes, list (which settles stale ones), delete | outcomes are shown; deletions hold; live analyses are not swept; none runs for ever | `DeepAnalysis`, `DeepAnalysisProofs` |
| Materializing a source (`worker/app/pipeline/utils.py`, `service.py`) | blobs of a prefix, its `.done` marker; `chunk_q`, `file_q`, three stages | reuse, download, extract or walk, upload, mark | marker and reports mean the whole tree; no stage hangs | `SourceUpload`, `SourcePrefix`, `SourceUploadProofs` |
| Chat threads and variants (`backend/app/chat`) | thread document, messages with `active`, checkpointer | create, resume, regenerate, persist turn, supersede, switch variant, rename, delete | the shown messages are one whole conversation; one question per turn; the flag for variants is up in time | `ChatThread`, `ChatThreadProofs` |
| Chat and deep-analysis agents, tools, prompts | none of their own | read-only queries, model calls | — | not modelled |
| Authentication (`backend/app/auth`) | JWKS cache | login, verify, refresh | a published key is accepted | the key set in `TimedCaches`, `TimedCachesProofs`; the checks of a token keep no state |
| Version, language and JWKS caches | value, expiry, retry-after, lock, per process | read through, forced refresh, cached failure | bounded staleness; what is published is accepted; one timeout per read | `TimedCaches`, `TimedCachesProofs` |
| File batches and persistence (`worker/app/pipeline/activities.py`, `orchestrators.py`, `core/database.py`, `graphs/service/persistence.py`) | documents of a file, counters | fan-out, per-file failure, throttled insert retries, integrity gate | what is counted is stored; each document is accounted for once; a completed run has a catalog | `FileBatches`, `FileBatchesProofs`; the orchestration's writes of the run are in `RepoRuns` |
| Java graph builders (`worker/app/graphs`) | none (a pass over a syntax tree) | AST, symbol table, CFG, DFG | edges match the language's control flow; definitions reach their uses | CFG and DFG in `JavaGraphs` |
| Git access (`backend/app/repos/git.py`, `worker/app/git`) | none | resolve a ref, clone at a commit | — | not modelled: calls of the remote; its failures are failures of the callers |
| Documentation, RAG (`worker/app/docs`, `worker/app/rag`) | one documentation per file, its chunks in the search index | look up, generate, store, index | the index has the stored text; a stored text is not generated again | `FileBatches`; prompts and chunking are not |
| Purge, health, version triggers | — | — | — | not modelled: purge removes only instances that completed over 30 days ago |
| Frontend | session, polled status | token refresh, polling, rendering | single-flight refresh | considered for later |

`PROJECT.json` has the same list with the sources of each component and, under `hazards`,
every place where the code is exposed to an order, a failure or a stale value that a test
would hardly produce, each with the property that covers it or the reason why none does.

## 2. Modules

### RepoRuns: the runs of one repository

State: for each run its status, `_id`, `retried_at`, whether `started_at` is past the
reconcile grace period, whether its POST was sent or is in flight, the phase of its
orchestration instance, and which run last stamped `ran_analyzer_version`; for each backend
request its next step and its local variables. A run is named by its rank of insertion,
which is *not* its sort order: an ObjectId orders by second, and ids minted by two processes
within one second sort either way (`FreshOids`), while `_find_latest_pipeline_run` sorts by
`_id`.

| Actions | Code |
|---|---|
| `CreateInsert`, `CreateCollides`, `CreateRefused` | `_start_new_analysis`'s last insert, and what `analyze_git` makes of its `DuplicateKeyError` |
| `BeginRelaunch`, `ReconcileRead`, `ProbeAnswer`, `ProbeOutage`, `Settle` | `relaunch_repo` down to `reconcile_pipeline_run` and `_probe_instance` |
| `BeginJoin`, `FindNone`, `FindLatest` | `_join_analysis`, `_relaunch_at_current_version` on the latest run |
| `Claim`, `ClaimLost`, `StampRetried` | `_claim_next_run`, `_retry_failed_run` |
| `Dispatch`, `DispatchAccepted`, `DispatchFails` | `_dispatch_run`, `start_orchestration` |
| `Crash` | the death of the server process between any two steps |
| `WorkerAccept`, `WorkerRejects` | the trigger `start_analysis` |
| `StampRunning`, `StampRefused`, `StampVersion` | the activity `stamp_analyzer_version` and its two writes |
| `WorkerComplete`, `WorkerCompleteUnacked`, `WorkerError`, `PatchFailed`, `PatchExhausted` | the rest of the orchestration `analyze` and its last writes |
| `GracePeriodEnds` | time passing for `started_at` |

The update of `stamp_analyzer_version` takes a FAILED run back to RUNNING if the index
admits it, as the code does; nothing guards it there.

`LostAnswers` says which effects may take place without their caller learning of it: the
dispatch (a read timeout after the worker started the instance) and the activity that writes
COMPLETED (which the orchestrator then runs again).

One timing assumption, in `HandedOver`: the grace period of 300 s
(`backend/app/pipeline/config.py`) outlasts the 30 s of a dispatch, so a run past it is not
still in a caller's hands.

### RunClaim: what the runs promise

The abstract specification: a claim that is acquired by a run that never held it, under
which the work starts at most once and stops, and which is released. `RepoRuns` implements
it: the holder is the non-terminal run, the stage the phase of its instance, the spent runs
those inserted.

### RepoLinks: the repositories of one source and their holders

State: rows in order of insertion with `analyzer_version` (key), `ran_analyzer_version`,
`user_count` and whether a run was inserted; a link id per user and row; the worker's
version; the requests. The two lookups (by version floor, by key), the three writes of a
create, the filtered increment and its undo, the unfiltered decrement, the delete of a link
by `_id` and the upserting `save` of a rename are actions of their own, with `Crash` between
any two. `Deploy` changes the worker's version, forwards or back. `Overlapping` says whether
a delete or a rename may overlap another request on the same link; without it, the model
is of callers that do one thing at a time to a link of theirs (see the finding below).
Git and zip sources differ in the fields of their key only; the model covers both.

### DeepAnalysis: the deep analyses of one user

State: status, heartbeat (unset, fresh, stale), content, error and progress of each
document; next step and counted model calls of each task. `Start`, `Flush`, `Complete` and
`Fail` are the writes of `_run_deep_analysis`, each a find-and-set that does nothing to a
deleted document and each able to raise with or without having been applied
(`StoreErrors`); `Restart` cancels tasks; `List` is the sweep of the list request; `Delete`
is either delete. `Stalls` names the analyses whose agent may be silent for the stale
threshold.

### SourceUpload: materializing a source

State: the blobs and the marker of one prefix; for each attempt the coroutine of the
activity, the download task, the extractor or walker thread, the upload task, and the
positions of the two bounded queues. A source is a sound archive, one with a corrupt member,
one that ends too early, or a checkout, and has any number of files, none included.

The lookup of the marker (`Look`), the listing (`List`) and the start of the stages
(`StartStages`) are calls of their own, so that another attempt may publish between them.
Any call may raise (`CallFails`: the writes of the progress before and after the streaming,
the lookup, the listing, the clone, the opening of the archive), before the prefix is
published or after; a write to the store that raises may have been applied. Every stage may
fail, a stage whose activity has failed goes on, and the process may die at any step.

### SourcePrefix: what materializing a source promises

The abstract specification: the files of a prefix, whether it is published, and the outcome
of each attempt, with `Start`, `Find`, `PutFile`, `Publish`, `Deliver` and `Fail`. Files only
come; a prefix is published only with the whole tree in it; an attempt that looks at a
published prefix with files is served and puts none; an attempt may fail until it has
delivered, and one that failed may go on putting files; a delivery is final. It does *not*
say that a published prefix is never written to: an attempt that looked before the
publication goes on and uploads the same files once more, and a source without files is
materialized again by every attempt (`worker/app/pipeline/utils.py:82`). `SourceUpload`
implements it: the files are its blobs, published is its marker, and an outcome says where
the coroutine of the attempt is (`OutcomeOf`).

### ChatThread: one conversation, its variants and its graph

State: the thread document and its `has_variants`; the messages in the order of their ids,
with the `active` ones; the agent graph's resting checkpoints (one per stream that came to
rest), whether a stream that was cut short wrote after the last of them, and the resting
checkpoint below the newest `input` one; one request on the conversation and one on the
title, each with the copy of `has_variants` it read.

| Actions | Code |
|---|---|
| `CreateThread` | `create_chat_stream` up to its first stream, `create_thread` |
| `BeginResume`, `BeginRetry`, `Touch` | the request's dependencies, `update_thread_timestamp` |
| `EnterTurn`, `EnterRetry`, `StreamEnds` | `_resolve_entry_point`, `_prepare_safe_stream`, `_active_leaf_checkpoint_id`, the stream |
| `InsertHuman`, `InsertAnswer` | `_persist_turn` |
| `Supersede`, `SetFlag` | `_supersede` |
| `BeginSelect`, `Hide`, `Show` | `select_variant`: the walk and the two range updates |
| `BeginRename`, `SaveTitle`, `Delete` | `update_thread_title`, `generate_title`, `delete_thread` |
| `Interrupt` | a lost client, an exception or the death of the process at any step |

`Interruptible` says what may be cut short (anything may before the graph writes) and
`Overlaps` whether requests on the document may overlap those on the conversation. The loop
by which `select_variant` walks down a branch is stated as what it reaches: `Walk` is the
least set of answers that has the chosen answer below each of its own.

### FileBatches: the files of an analysis

State: the run's status and phase; per catalog batch its bulk insert (pending, throttled,
round, the two counts it will return); per targeted file the place of its coroutine, the
documentation it holds and its `FileResult`; the stored documents (catalog, graphs,
documentation, search index, summary).

| Actions | Code |
|---|---|
| `InsertChunk`, `EndRound`, `RaiseInsert` | `mongodb_retry_insert_many` under `persist_file_docs`: one `insert_many` per chunk, throttled documents again in the next round |
| `Enter`, `PersistFile`, `Download`, `PersistGraphs` | `process_file_batch` and its semaphore, `compute_file_representations` down to the graphs |
| `LookupDocumentation`, `GenerateDocumentation`, `SaveDocumentation`, `IndexDocumentation` | `_document_file`, `index_file_documentation` |
| `StartAnalysis`, `FanIn`, `PersistSummary`, `Complete`, `PatchFailed` | the orchestration `analyze`, its gate, `process_holistic_analysis` |
| `CrashExecution`, `NewRun` | an activity execution that dies; a run that follows a failed one |

Each write may raise with or without having been applied. `Graphs` are the control-flow
graphs that are built for a file, `ScopeOf` the method key each is stored under, and `graphs`
the scopes that have a document. Two graphs may have one scope: `extract_method_keys` goes by
the simple name of a type (`worker/app/graphs/service/ast_parser/java.py:224`), so two nested
types of one simple name with like methods give theirs the same keys. Of two such graphs one
is stored and the other is a duplicate, which the bulk insert counts as a success
(`PersistGraphs`, `GraphOutcomes`, `CountGraphs`); the insert is one step here, its rounds
being those of `InsertChunk` and `EndRound`. A file whose graphs could not be built is
counted apart (`built`, `unbuilt`). The DFGs go through the same function under the same
keys, and the AST has one key, so the CFGs stand for all three. The model answers with any
text of `Contents`, so that a second answer is a different one.

### TimedCaches: version, languages and signing keys

State: the source's current value and when it stopped having the others; the cached value,
`expires_at`, `retry_after`; the queue of the lock; per request the place of its coroutine,
the time it read, whether its refresh is forced, the item it looks for. The three caches
are one module with a `policy`, because they differ in two things only: the version is
stored by the write path past the lock (`BeginWrite`) and remembers a failure, while
languages and keys are looked through for an item and refreshed by force when it is missing
(`Examine`). `Look` is the look before the lock, `LookAgain` the one under it, `Receive`,
`Store` and `Fail` the fetch.

### JavaGraphs: the control flow and the data flow of a method

State: the statements walked so far, the drawing of the CFG (edges with labels and open
ends), the DFG's nodes and edges with its last definitions. `NextStatement` is one turn of
`_process_block` and `_analyze_block` on the method's outer block, `Finish` the links to the
exit. Below them are the recursive operators of the two builders, one per `_process_*` and
`_analyze_*`. A graph's node is the path of its statement in the tree, so the drawing can be
compared with `Flow`, a definition of Java's order of execution that goes the other way: it
computes from what follows a statement (`Heads`, `FlowIn`), where the builder carries what
came before. Exceptions leave a try block at its start in both, which is the builder's
convention.

The statements of a method name what Java has in scope (`InScope`): parameters, fields, the
locals declared before them in their block or one around it, and the variable that the head
of a for, of a for-each or of a catch declares. javalang parses a for-each as a
`ForStatement`, and so do the builders. The DFG builder adds no node for the variables of
heads, for the update of a for, for the head of a for-each, or for a condition of a for that
is a bare name (`Analyze`, `Condition`; `dfg_builder/java.py:565-569`, `:578-582`, `:642-676`).

### MC modules

The `MC` modules declare the model values of the configurations and their symmetry sets
(`MCChatThread` needs none); `MCRepoLinks` and `MCFileBatches` also have the constraint of
their large runs and `MCJavaGraphs` the statements the methods are made of. No configuration replaces a definition.

Operators marked "Mutant" are plausible bugs, one for each property of each passing run:
with the mutant in the place of the definition that follows it, TLC finds the property
violated. They are used by no specification.

## 3. Runs

| Run | Shows |
|---|---|
| `RepoRuns_safety` | a creator and another request, three runs, crashes, outages, refused dispatches, no answer lost: types, `OneLiveRun`, `WorkUnderClaim`, `RetriedHasSuccessor`, `StampMatchesOutput`, `DispatchOnce`, `TerminalIsFinal`, and the refinement `ImplementsClaim` |
| `RepoRuns_faults` | the same code with answers lost, one caller, two runs, fairness: `EveryRunSettles` |
| `RepoRuns_lost_answer` | `WorkUnderClaim` is violated once the answer of a dispatch can be lost |
| `RepoLinks_safety` | two users, two requests at a time, two rows, two versions, crashes: `CountBoundsLinks`, `UniqueKey`, `ZeroIsFinal` |
| `RepoLinks_double_delete` | two deletes of one link take the counter below the holders |
| `DeepAnalysis_lifecycle` | two analyses, one of which may go silent: `OutcomeIsShown`, `DeletedStaysDeleted`, `OnlyStalledAreSwept`, `EveryRunEnds` |
| `SourceUpload_stages` | two attempts on one prefix: `MarkedIsComplete`, `ReportedIsComplete`, `EveryAttemptEnds`, and the refinement `ImplementsPrefix` |
| `SourceUpload_truncated` | an archive that ends too early hangs the activity |
| `ChatThread_branches` | six streams in one thread, turns cut short before they are stored, any mix of regenerating and switching: `OneConversation`, `BranchRunsToItsEnd`, `OneQuestionPerTurn`, `FlagCoversVariants` |
| `FileBatches_reruns` | two targeted and two other files over two runs, one execution that dies, inserts that are throttled, refused or cut short: `CountedIsStored`, `CompletedIsBrowsable`, `IndexMatchesDocumentation`, `PaidOnce` |
| `TimedCaches_refresh` | three requests on either kind of cache, two changes of the source, failures at any time: `BoundedStaleness`, `PublishedIsAccepted`, `OneTimeoutPerRead` |
| `JavaGraphs_methods` | every method of one or two statements out of some six hundred: `FlowIsDrawn`, `DrawnIsFlow`, `DefUseReaches` |

### Bounds

- `MaxRuns`, `MaxOid`, `IdsPerSecond`: two runs are what any race on the claim needs; the
  third allows a retry of a retry and an old attempt beside a newer one. With two ids a
  second, runs of one second are ordered either way and runs of two seconds are not.
- `MaxRows`, `MaxVersion`: two rows give a row and its replacement, at one version or two.
  `MaxCount` caps a counter that crashes drive up; it limits `AcquireSlot` only, not the
  decrements, which the properties are about.
- `Scope` (the constraint of `RepoLinks_safety`): a behaviour has two users in play while
  only the first version was seen, or one user in play across both versions. Two users at
  two versions is left out for its size; two requests run at a time in both cases.
- `MaxCalls`: two model calls, so that a flush falls before, between and after them.
- `Sizes`, queue sizes: two files through queues of one slot, the tightest that still lets
  every stage wait for every other; and a tree without files, which is published but never
  found.
- `MaxStreams`: six streams make a conversation of three turns with a regeneration at each
  depth, or a branch and its rival of two turns each with two answers at the fork.
- `FileBatches_reruns`: two catalog files in one batch and chunks of one, so that a round can
  throttle one document and refuse the other and a crash falls between two chunks; two
  rounds, the fewest with a retry; two targeted files in one batch with one at a time in it;
  two graphs of one scope; two tries, two runs, two texts. The texts are symmetric. `OneIsBuilt`
  (the constraint) has the graphs of the first file only built and stored, for the size: no
  step reads the graphs of another file, and the sums are proved for any number of files.
  Without the constraint TLC found no violation either with one other file, nor with no
  execution that dies.
- `TimedCaches_refresh`: three requests, so that two queue behind one; a fetch of one tick,
  lifetimes of two and a clock of four, so that a value can be stored, outlive a change,
  expire and be replaced.
- `JavaGraphs_methods`: two outer statements make every pair of neighbours; blocks nest two
  deep with one or two statements each. Names are a parameter, a field, a local of the method
  and one of a block, and the variables of a for and of a catch.
- `Interruptible = {"turn"}` and `Overlaps = FALSE` in `ChatThread_branches`: none of its
  properties but the types survives a regeneration that is cut short (below) or a failure between two
  writes of one turn, and `OneConversation` and `FlagCoversVariants` do not survive a rename
  that overlaps a regeneration; the code repairs none of these. The page itself sends one
  request on a conversation at a time
  (`frontend/src/app/features/analysis/analysis.ts:640`, `:732`, `:799`). The other two
  properties are proved for any overlap, and TLC agrees at the bounds of this run with
  `Overlaps = TRUE`.

Deadlock is checked in the runs of `RepoRuns` and `RepoLinks`, where requests keep coming. It
is not in those of `DeepAnalysis` (all analyses may be over or deleted), `SourceUpload`
(all attempts may have ended), `ChatThread` (the thread may be deleted), `FileBatches` (the
last run has ended), `TimedCaches` (the bound of the clock) and `JavaGraphs` (the method is
over). In the first two, liveness properties say that nothing stops half way.

### Fairness

- `RepoRuns`: steps of a request and of an instance are weakly fair (the server and the
  Durable runtime keep running what they have). The path of a relaunch up to the settling
  update is strongly fair: holders keep asking, because nothing sweeps in the background,
  and not every attempt of theirs dies or misses the worker. `EveryRunSettles` is false
  without that, and the code says so ("the next call is the retry"). An activity ends,
  with success or with an error, as the orchestrator's retries are limited.
- `DeepAnalysis`: the event loop runs its tasks, an agent's stream ends (its calls are
  limited), time passes for a heartbeat without a task, and the user keeps listing.
- `SourceUpload`: stages run when they can. No failure is counted on to end a wait: calls
  that raise and crashes are not fair, and a failing stage is no part of what is.

### What the violating runs found

1. `start_orchestration` sets a run FAILED on any httpx error, a read timeout included. The
   worker may have started the instance all the same; the run is then out of the unique
   index while its instance works, and the next relaunch starts a second analysis beside it
   (`backend/app/pipeline/service.py:340`). This is why four of the theorems
   assume that no answer to a dispatch gets lost.
2. `delete_repo` decrements `user_count` whether or not its own delete removed the link, so
   two overlapping deletes release two slots for one link
   (`backend/app/repos/service.py:1106`). A rename that overlaps a delete has the same
   effect: its `save` is an upsert.
3. If `stream_unzip` raises after the end of its input, the handler of `stream_extract`
   waits for a second `None` that nobody puts, `file_q` is not closed, and the activity
   hangs (`worker/app/pipeline/utils.py:139`).

### Other disagreements

The models show these too, with the named formula and constants; no run is kept for them.

- The creator's link *can* collide, with a link that another request of the same user made
  to the new row. The creator then takes the error for a lost race on the row and answers
  409; the run is never inserted (`backend/app/repos/service.py:765`, which its comment at
  `:735` rules out). A relaunch repairs it. `RunlessIsMidCreate` of `RepoLinks`, with one
  version, two rows, `Overlapping = {}` and no crashes.
- An analysis that was swept as stale while its task was silent completes afterwards and
  keeps the error message (`backend/app/deep_analysis/service.py:263`). `ErrorOnlyIfFailed`
  of `DeepAnalysis`, with one analysis in `Stalls`.
- A regeneration that fails or loses its client before it is stored leaves the graph's
  newest input checkpoint at its fork point. In a thread that has no variants yet, the next
  message is streamed from there and stored as a second question beside the one that was to
  be answered again (`backend/app/chat/service.py:835`). `OneQuestionPerTurn` of
  `ChatThread`, with `Interruptible = {"turn", "retry"}`.
- The bulk insert takes a duplicate key for a document that is "already inserted
  (idempotent)" (`worker/app/core/database.py:225`). The graph of a method whose key another
  method of the same file has is counted as persisted and is in no document; the summary
  then shows more graphs than there are. `CountedIsStored` of `FileBatches` therefore bounds
  the count of graphs by those that have a document of their scope; with
  `Cardinality(graphs[f])` as the bound it is violated as soon as two graphs have one scope.
- `get_analyzer_version` says that a write closes the window in which readers see an old
  version; a fetch that began earlier and ends later stores the older version again
  (`backend/app/pipeline/service.py:128`). `BoundedStaleness` bounds it.

What the CFG builder draws differently from Java is excluded by a named formula each, and
the properties fail without it: a block or try after an if, a switch or a try is linked to
the first of the open ends only (`EnteredOnce`; `cfg_builder/java.py:396`, `:577`); a return
under a finally goes straight to the exit (`NoReturnUnderFinally`); no edge goes around a
switch without a default case, and one does around a switch whose cases all return
(`SwitchFallsOut`; `:688`). The "true" and "false" edges go to the *last* node of a branch
(`:443`), so a branch of two statements has an edge too many; `DrawnIsFlow` leaves those
edges out.

The DFG builder keeps the textually last definition, so a use may be linked to one in a
sibling branch or behind an early return: `DefUseReaches` excuses definitions in an
alternative to the use (`Alternative`) and variables assigned in a switch, which the builder
does not enter (`AssignedInSwitch`). It leaves out the variables of heads
(`HeadVariables`): a use of a loop variable or of a catch parameter has no definition to be
linked to, unless the body assigns it, and then a use before that assignment, or in a second
loop with a variable of the same name, may be linked wrongly or not at all. What it does say
is that a use of a parameter or of a declared local is linked to exactly one definition,
never to one after it in its own statement, and never past one that every path between them
passes.

## 4. Proofs

Each component but `JavaGraphs` has a module of proofs about it, which extends the module of
the component and holds its inductive invariants, the lemma of each step, and the theorems.
A theorem is about all values of the constants: any set of requests, attempts, analyses or
users, any number of runs, rows, files and streams, any size of a queue or a batch.

| Module | Theorems, and the properties they state |
|---|---|
| `RepoRunsProofs` | `TypeCorrect` (`TypeOK`), `OneLiveRunAlways`, `RetriedHasSuccessorAlways`, `DispatchedOnce` (`DispatchOnce`); under `"dispatch" \notin LostAnswers` `StampIsOfOutput` (`StampMatchesOutput`), `RunsImplementClaim` (`ImplementsClaim`); under `LostAnswers = {}` `WorkStaysUnderClaim` (`WorkUnderClaim`), `TerminalStaysFinal` (`TerminalIsFinal`) |
| `RepoLinksProofs` | `TypeAlways` (`TypeOK`), `OneRowPerKey` (`UniqueKey`), `ZeroStaysFinal` (`ZeroIsFinal`); under `Overlapping = {}` `CounterBoundsHolders` (`CountBoundsLinks`) |
| `DeepAnalysisProofs` | `AnalysisTypes` (`TypeOK`), `OutcomeAlwaysShown`, `DeletedForGood` (`DeletedStaysDeleted`), `SweepSparesTheLiving` (`OnlyStalledAreSwept`) |
| `SourceUploadProofs` | `UploadTypes` (`TypeOK`), `MarkerIsSound` (`MarkedIsComplete`), `ReportIsComplete` (`ReportedIsComplete`), `UploadImplementsPrefix` (`ImplementsPrefix`) |
| `FileBatchesProofs` | `BatchTypes` (`TypeOK`), `CountersAreSound` (`CountedIsStored`), `CompletedCanBeShown` (`CompletedIsBrowsable`), `IndexFollowsStore` (`IndexMatchesDocumentation`), `NeverPaidTwice` (`PaidOnce`) |
| `ChatThreadProofs` | `ThreadTypes` (`TypeOK`); under `TurnsOnly` `TurnHasOneQuestion` (`OneQuestionPerTurn`), `BranchIsShownToItsEnd` (`BranchRunsToItsEnd`); under `Sheltered` `ShownIsOneConversation` (`OneConversation`), `FlagIsUpInTime` (`FlagCoversVariants`) |
| `TimedCachesProofs` | `CacheTypes` (`TypeOK`), `AnswersAreYoung` (`BoundedStaleness`), `OneTimeoutAtMost` (`OneTimeoutPerRead`), `PublishedIsNeverRefused` (`PublishedIsAccepted`) |

### Hypotheses

Some theorems have a hypothesis about what the environment does. Each is as weak as the
property allows: without it TLC finds a counterexample, at the bounds of the run or below.

- `"dispatch" \notin LostAnswers`: a dispatch that took place is known to its caller
  (finding 1). `StampMatchesOutput` and `ImplementsClaim` need no more; the activity that
  completes a run may be executed again after its answer got lost.
- `LostAnswers = {}`: that answer is not lost either. `WorkUnderClaim` and `TerminalIsFinal`
  fail otherwise, as a repeated activity works on, and may fail, under a completed run.
- `Overlapping = {}`: no delete or rename overlaps another on the same link (finding 2).
- `TurnsOnly`, that is `Interruptible \subseteq {"turn"}`: a stream of an ordinary turn may
  be cut short, a regeneration or a half-stored turn may not. Renames and deletions may
  overlap whatever they like.
- `Sheltered`, that is `TurnsOnly` and `Overlaps = FALSE`: a rename or a deletion waits for
  the request on the conversation. `OneConversation` and `FlagCoversVariants` fail without,
  as a rename puts back a document whose flag was not up yet.

The assumptions on the constants are named where the constants are declared; TLC evaluates
them in every run. Those that say more than a range:
`FinitelyManyAssumption` (users and requests are finite sets, so that links and queued
requests can be counted), `NoneAssumption` (the absence of a text, a result or a
summary is none of them), and `WaitAssumption` (the requests that queue at one cache do not
together wait longer than a value lives; the queue is one process's, a value lives for
minutes or hours and a fetch for seconds: at 300 s and 5 s for the version, no more than 61
requests of one process may wait together). Only
`AnswersAreYoung` uses the last one: whoever is served from the cache after a wait goes by a
time read before it, and without a bound on the queue the answer can be as old as the queue
is long.

### RepoRuns

**`Structure`** holds whatever answers get lost. To `TypeOK`, `OneLiveRun` and
`RetriedHasSuccessor` it adds

- `LocalsInv`: what a request remembers was inserted, and the run it inserted is newer than
  the one it is about to stamp (which is what makes `RetriedHasSuccessor` inductive);
- `SentInv`: on the wire ⊆ sent ⊆ inserted, and an instance exists only for a sent run;
- `DispatcherInv`: a run that is about to go out has not, and one request only will send it
  (which gives `DispatchOnce`).

**`Held`** adds, under `"dispatch" \notin LostAnswers`,

- `GraceInv`: a run past the grace period is handed over, so its instance either exists for
  good or never will, and the verdict of a probe is still right when it is acted on;
- `HeldInv`: from the insert to the end of its instance a run is non-terminal, or its
  instance has completed it and does not know. `CompletedIsOver` draws from it that, where
  no answer is lost, a completed run's instance is over; the two stricter theorems need
  that.

`RunsImplementClaim` needs `Held` because the abstract `Release` ends the work: a run that
turns FAILED under a working instance would leave the claim free with the work going on. An
activity that is executed again after it completed its run is no work of the abstract claim.
`ClaimStep` shows that each step maps to one step of `RunClaim` or to a stutter.

**`StampInv`** is inductive under `Held`: a live run is the newest, and the instance that
works was the last to stamp the version, so its completion finds its own stamp.

### RepoLinks

`TypeOK` had to say which row a request at each step is on (`RequestTypes`); with that it is
inductive, and `UniqueKey` and `ZeroIsFinal` follow from it and from the guards of single
steps, whatever overlaps or crashes. `CountBoundsLinks` is not inductive: between the
increment and the link the counter counts a slot that nobody shows, and an undo must not
take back another's. **`Slots`** accounts for them: the counter of a row is at least the
number of its links *and* of the requests that claimed a slot without having linked yet, or
unlinked without having released yet (`SlotInv`); a row that was not inserted has no links;
and the link that a request is about to remove or save is the one it read, which nobody
else is about to remove (`LeaverInv`, where `Overlapping = {}` is used). A crash only loses
slots.

### DeepAnalysis

**`Settled`** adds to the types and to `OutcomeIsShown` that a heartbeat goes stale only
where no task beats, or where its agent may stall. The sweep's filter then excludes live
tasks, and a task that goes on after a sweep finds a document whose fields still agree.

### SourceUpload

**`Materializing`** follows an attempt from stage to stage: what its extractor has made is
as many files as it has taken chunks, what its uploader took is a prefix of that and is in
the store, and the coroutine reaches the marker only when both ended. Other attempts only add
blobs and markers, so nothing of this is lost to an interleaving. The proof is for any
number of attempts on one prefix.

`CoroutineStep` treats the steps that leave the stages alone together.

`UploadImplementsPrefix` needs three more facts of it: an attempt that lists has seen the
marker, so that what it finds is the whole tree, or a tree without files; an attempt that
reports has no stage that still writes, since its uploader ended or was never started; and
an attempt that marks has uploaded the tree (`MarkingIsWhole`), also where the write of the
marker raises after it was applied. `PrefixStep` takes the steps one by one: the coroutine's
change an outcome (`OutcomeStep`) or stutter, the uploader's put a file, whether or not its
attempt has failed, and the other stages' stutter.

### FileBatches

**`Persisting`** has, for a bulk insert, that its counters are bounded by the documents it
has *dealt with*: a duplicate is counted as stored, and without this bound it could be
counted on top of itself in a later round. For the graphs of a file it says that the
counted ones have a graph of their scope in the store (`GraphsCounted`: a duplicate has the
scope of one stored before it or beside it), and that successes and failures add up to the
graphs that were built. For a file it says that a coroutine about to
generate or to save has no stored documentation, and one about to index holds the stored one.
`Totals` sums over files; the sum is the size of a set of pairs, so that its bounds follow
from theorems on finite sets (`SumIsBounded`; `GraphTotals` for the graphs), and the batches are shown to partition the files
(`SlicesPartition`).

### ChatThread

**`Typed`** (a stream rests at a checkpoint later than its place) makes `TypeOK` inductive.
Three more invariants lead to the properties, under hypotheses that get weaker.

**`Branching`** (under `Sheltered`) is about the tree: later messages lie at later
checkpoints and each place but the start is an answer's (`TreeInv`); every stream that
rested is stored, but the one in hand (`RestInv`); the document's copies and flag agree
(`DocumentInv`); a turn is going to lie at a leaf, at the end of the branch (`LeafInv`); a
thread without variants ends where the graph's own place is (`SafeInv`); the branch is a
path from the start to a leaf (`BranchInv`); and what `select_variant` keeps is one from the
chosen answer on (`SelectInv`). A path is stated by order: of two answers on it, the later
follows at or below the checkpoint of the earlier. `OneConversation` alone is not inductive,
as nothing in it keeps a new turn from being stored at a place that already has answers.
`WalkIsPath` shows that the walk of `select_variant` is such a path, for a tree of any
depth, from its being the least set that goes on: no induction on its length is needed.

Without `Overlaps = FALSE` much of this is false. A rename that puts an old document back
lowers the flag, or brings a deleted thread back without it, and the next turn then follows
the graph's own place, wherever the shown branch ends.

**`Growing`** (under `TurnsOnly`) says what is left. The place of a turn, the place where one
restarts after another was cut short (`RestartInv`), and the end of what is shown (`EndInv`)
are the start or an answer's checkpoint, and no answer follows them yet. That is enough for
`OneQuestionPerTurn`: the graph's own place may be the wrong one, but it is always a free
one, being what came to rest last or the place of a turn that was cut short.

**`Running`** (beside `Growing`) is for `BranchRunsToItsEnd`. The shown answers are then no
path; but each still comes before all that follows the place of a later one (`OrderInv`,
with `Ahead`), and a turn is the newest of what is shown (`LastInv`). A supersede hides what
is later than the answer it replaces, so whatever had a shown follow-up and loses it is
hidden too, and only the place of the replaced answer needs care; it gets the new one
(`RunsOnInv`, `SwitchInv`).

### TimedCaches

**`Refreshing`** has the line of the lock (only its head works, in the order of arrival), the
times (a fetch began at most `Timeout` ago), and for each value on its way or in the cache a
bound on when the source last had it. `QueueInv` is what `BoundedStaleness` lacks to be
inductive: whoever will be served from the cache by the time it read *before* its wait sees
a value that gets older by a fetch at most for each request served before it.
`OneTimeoutPerRead` needs `ReadInv`: who waits behind a fetch came after it began, and finds
at its end a value or a remembered failure.

### Not proved

- Liveness (`EveryRunSettles`, `EveryRunEnds`, `EveryAttemptEnds`): the prover has neither
  fairness nor ENABLED. TLC checks it.
- `JavaGraphs`: its builders are recursive operators over trees, and induction over data is
  out of the prover's reach. TLC compares them with the order of execution over all methods
  of the run.

## 5. Assumptions about code outside the repository

- Beanie's `save()` upserts by `_id`; `update` and `set` through a query do nothing if it
  matches nothing.
- A unique index is enforced on updates as well as on inserts.
- `start_new` with an id whose instance exists is not reached (ids go out once).
- `stream_unzip` raises on a truncated archive after its input is exhausted.
- Tasks of a server process die with it.
- The agent graph writes an `input` checkpoint when a message is sent and a resting one when
  a stream ends; without a checkpoint id it continues from the newest; a replay from an
  `input` checkpoint writes no new one.
- Ids of the messages of one thread sort in the order of their inserts: the two of a turn are
  minted by one process, and a stream lies between those of different turns.

- The Durable runtime executes an activity at least once. Executions of one activity do not
  overlap in `FileBatches`; finding 1 can make two runs of one repository overlap, and then a
  text that lost the race for the unique index would still be indexed.
- A write to MongoDB or to the search index that raises may have been applied; documents
  whose index no write error names were stored.
- An `asyncio.Lock` is granted in the order of the requests. A whole fetch is taken to end
  within its `timeout` (httpx applies it to each phase of a request), and coroutines that can
  run do so before time passes; requests are not cancelled while they wait.
- A provider publishes an item for the time of one changeover after it was replaced.
- `javalang` trees: a `break` ends each case that does not return, and case labels that
  share their statements are one case.

## 6. Limits

- `RepoRuns` keeps the repository at the worker's version; the decision to move to a new one
  is in `RepoLinks`, which in turn reduces runs to "has one". The two are not composed.
- A relaunch that judges staleness by a row read earlier may answer 409 where a retry was
  due; it writes nothing, so no property is about it.
- An analysis left PENDING by a crash between its insert and its first write has no way out
  in the code; `EveryRunEnds` is about running ones.
- Threads that stay blocked on `file_q` after an upload failed are in the model, but nothing
  in the code ends them, so nothing is claimed of them.
- `ChatThread` offers the switch to answers of questions that are shown, as the page does;
  the endpoint takes any answer of the thread, and would then show it without its ancestors.
- Switching back shows the newest answer of each follow-up, not the one that was last
  selected there: the code does not record it.
- `FileBatches` takes the listing and the partition of the files as given; statistics are
  kept as files, failures, graphs stored, lost and not built, documentations and indexed
  files, not per kind of graph. The graphs of a file are the same in every run of it.
- `TimedCaches` is one process. A forced refresh does not look at what the one before it in
  the queue has just stored, so forced refreshes that queue each fetch; readers of languages
  and keys that queue behind an outage each wait out a timeout. Only the version's readers
  are promised otherwise.
- `JavaGraphs` has no break or continue of a loop, throw, do-while, lambda, `+=`, or `i++` as
  a statement, and no resources of a try: the CFG builder treats the first four and a lambda
  as plain statements and does not look into the resources; the DFG builder treats `+=` as an
  assignment and records nothing of the others. A field with the name of a parameter or a local is resolved to the field by the code; the
  model rules shadowing out. Labels, positions and the cyclomatic number are left out, as
  are the AST and the symbol table, which transcribe declarations, and the pairing of methods
  with their keys by simple class name and position; what comes of two methods with one key
  is in `FileBatches`.
- Purging of instances is left out: it removes only completed ones, after 30 days.

## 7. Plan

Order, most important first; all but the last are done.

1. `RepoRuns` with `RunClaim` and `RepoRunsProofs`.
2. `RepoLinks`.
3. `DeepAnalysis`.
4. `SourceUpload`.
5. `ChatThread`.
6. `FileBatches`.
7. `TimedCaches`.
8. `JavaGraphs`.
9. Proofs, a module per component: every safety invariant and action property of the runs
   but those of `JavaGraphs`.
10. Weaker hypotheses: `TurnHasOneQuestion` and `BranchIsShownToItsEnd` for any overlap,
    `StampIsOfOutput` and `RunsImplementClaim` with an activity's answer lost.
11. `SourcePrefix`, the abstract specification of `SourceUpload`, with the refinement.
12. The composition of `RepoRuns` and `RepoLinks` (a relaunch at a new version), and the
    pairing of methods with keys in the graph builders; an abstract register, read late, for
    `TimedCaches`.

## 8. Running

```
tlc -workers 2 -config RepoRuns_safety.cfg MCRepoRuns      # about a minute
tlc -workers 2 -config RepoLinks_safety.cfg MCRepoLinks    # about a minute
tlc -workers 2 -config FileBatches_reruns.cfg MCFileBatches  # about two minutes
tlc -workers 2 -config TimedCaches_refresh.cfg MCTimedCaches # about a minute
tlapm RepoRunsProofs.tla                                   # about a minute, as each of the others:
                                                           # RepoLinksProofs, DeepAnalysisProofs,
                                                           # SourceUploadProofs, FileBatchesProofs,
                                                           # ChatThreadProofs, TimedCachesProofs
```
