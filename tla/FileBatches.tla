----------------------------- MODULE FileBatches -----------------------------
(***************************************************************************)
(* What an analysis does with the files of a materialized source: the      *)
(* orchestration catalogs the files that are not analyzed in bulk, fans    *)
(* out over batches of the others, sums up what the activities report,     *)
(* refuses a run that stored no file, writes the repository's summary and  *)
(* completes.                                                              *)
(*                                                                         *)
(* Every activity is executed at least once: an execution that dies is     *)
(* started again from its beginning, one that raises is tried MaxTries     *)
(* times, and a failed run is followed by another on the same repository.  *)
(* A write that raises may have been applied.  Executions of one file do   *)
(* not overlap.                                                            *)
(***************************************************************************)
EXTENDS Naturals, FiniteSets, FiniteSetsExt

CONSTANTS
    Targeted,         \* number of files whose language is analyzed
    Others,           \* number of files that are only cataloged
    BatchSize,        \* ANALYZE_BATCH_SIZE
    FileConcurrency,  \* ANALYZE_FILE_CONCURRENCY
    ChunkSize,        \* MONGODB_INSERT_CHUNK_SIZE
    MaxRounds,        \* MONGODB_RETRY_MAX_ATTEMPTS of a bulk insert
    MaxTries,         \* attempts of an activity that raises
    Graphs,           \* the control-flow graphs built for a file
    ScopeOf,          \* graph -> the method key it is stored under
    Contents,         \* texts the language model may answer with
    None,             \* no document, no result
    MaxRuns,          \* bound on the runs of the repository
    MaxCrashes        \* bound on the executions that die

ASSUME CountsAssumption ==
    /\ Targeted \in Nat /\ Others \in Nat
    /\ {BatchSize, FileConcurrency, ChunkSize, MaxRounds, MaxTries} \subseteq Nat \ {0}
    /\ MaxRuns \in Nat \ {0} /\ MaxCrashes \in Nat
ASSUME GraphsAssumption == IsFiniteSet(Graphs) /\ DOMAIN ScopeOf = Graphs

VARIABLES
    run,            \* the number of the current run
    status,         \* its status document
    phase,          \* where its orchestration is
    tries,          \* attempts of the current activity that raised
    crashes,        \* executions that died so far
    bulk,           \* batch of other files -> its bulk insert
    at,             \* targeted file -> where its coroutine is
    holds,          \* targeted file -> the documentation its coroutine has
    result,         \* targeted file -> its FileResult
    stats,          \* what the orchestration summed up
    catalog,        \* files with a FileDocument
    graphs,         \* targeted file -> the scopes of its stored graphs
    documentation,  \* targeted file -> its stored documentation
    index,          \* targeted file -> the documentation in the search index
    summary         \* the stored RepoMetaDocument

orchestration == <<run, status, phase, tries, stats>>
coroutines == <<at, holds, result>>
artifacts == <<graphs, documentation, index>>
vars == <<orchestration, crashes, bulk, coroutines, catalog, artifacts, summary>>

TargetedFiles == 1..Targeted
OtherFiles == Targeted + 1 .. Targeted + Others

\* `paths[i : i + batch_size] for i in range(0, len(paths), batch_size)`; the
\* targeted files are of one language.
Slices(files) ==
    {{g \in files : i <= g /\ g < i + BatchSize} :
        i \in {g \in files : (g - Min(files)) % BatchSize = 0}}

AnalyzeBatches == Slices(TargetedFiles)
CatalogBatches == Slices(OtherFiles)

Steps == {"waiting", "file", "download", "graphs", "lookup", "generate", "save", "index", "done"}
Phases == {"catalog", "analyze", "summarize", "complete", "failing", "ended"}
BulkStates == [todo : SUBSET OtherFiles, throttled : SUBSET OtherFiles,
               round : 1..MaxRounds, ok : Nat, bad : Nat]
FileResults == [file : BOOLEAN, built : BOOLEAN, graphs : Nat, lost : Nat,
                doc : BOOLEAN, rag : BOOLEAN]
StatsRecords == [files : Nat, failed : Nat, graphs : Nat, lost : Nat,
                 unbuilt : Nat, docs : Nat, rags : Nat]

ASSUME NoneAssumption ==
    None \notin Contents /\ None \notin FileResults /\ None \notin StatsRecords

\* Methods of nested types of one simple name have the same keys.
Scopes(gs) == {ScopeOf[g] : g \in gs}

Skipped == [file |-> FALSE, built |-> FALSE, graphs |-> 0, lost |-> 0,
            doc |-> FALSE, rag |-> FALSE]
NewBulk(b) == [todo |-> b, throttled |-> {}, round |-> 1, ok |-> 0, bad |-> 0]

Init ==
    /\ run = 1
    /\ status = "running"
    /\ phase = "catalog"
    /\ tries = 0
    /\ stats = None
    /\ bulk = [b \in CatalogBatches |-> NewBulk(b)]
    /\ at = [f \in TargetedFiles |-> "waiting"]
    /\ holds = [f \in TargetedFiles |-> None]
    /\ result = [f \in TargetedFiles |-> None]
    /\ crashes = 0
    /\ catalog = {}
    /\ graphs = [f \in TargetedFiles |-> {}]
    /\ documentation = [f \in TargetedFiles |-> None]
    /\ index = [f \in TargetedFiles |-> None]
    /\ summary = None

-----------------------------------------------------------------------------
(* Bulk insert of the files that are only cataloged.                       *)

\* The first ChunkSize documents that are pending.
Chunk(todo) == {d \in todo : Cardinality({e \in todo : e < d}) < ChunkSize}

\* One `insert_many(chunk, ordered=False)`: each document goes in, is already
\* there, is throttled, or is refused for good.
InsertOutcomes(chunk) ==
    {o \in [chunk -> {"stored", "duplicate", "throttled", "refused"}] :
        \A d \in chunk : /\ o[d] = "stored" => d \notin catalog
                         /\ o[d] = "duplicate" => d \in catalog}

With(outcome, code) == {d \in DOMAIN outcome : outcome[d] = code}

\* Mutant: only a refused document is taken for an error.
TallyRefused(state, outcome) ==
    LET chunk == DOMAIN outcome
    IN  [state EXCEPT
            !.todo = @ \ chunk,
            !.throttled = @ \cup With(outcome, "throttled"),
            !.ok = @ + Cardinality(chunk \ With(outcome, "refused")),
            !.bad = @ + Cardinality(With(outcome, "refused"))]

\* What the counters become: duplicates are successes, and so is every document
\* that no write error names.
Tally(state, outcome) ==
    LET chunk == DOMAIN outcome
        errored == chunk \ With(outcome, "stored")
    IN  [state EXCEPT
            !.todo = @ \ chunk,
            !.throttled = @ \cup With(outcome, "throttled"),
            !.ok = @ + Cardinality(With(outcome, "duplicate"))
                     + (Cardinality(chunk) - Cardinality(errored)),
            !.bad = @ + Cardinality(With(outcome, "refused"))]

InsertChunk(b) ==
    /\ phase = "catalog"
    /\ bulk[b].todo # {}
    /\ \E o \in InsertOutcomes(Chunk(bulk[b].todo)) :
        /\ bulk' = [bulk EXCEPT ![b] = Tally(@, o)]
        /\ catalog' = catalog \cup With(o, "stored")
    /\ UNCHANGED <<orchestration, crashes, coroutines, artifacts, summary>>

\* Mutant: the throttled documents are tried again without end.
RequeuedForever(state) ==
    [state EXCEPT !.todo = state.throttled, !.throttled = {}, !.round = @ + 1]

\* The throttled documents are tried again, or given up after the last round.
Requeued(state) ==
    IF state.round < MaxRounds
    THEN [state EXCEPT !.todo = state.throttled, !.throttled = {}, !.round = @ + 1]
    ELSE [state EXCEPT !.throttled = {}, !.bad = @ + Cardinality(state.throttled)]

EndRound(b) ==
    /\ phase = "catalog"
    /\ bulk[b].todo = {}
    /\ bulk[b].throttled # {}
    /\ bulk' = [bulk EXCEPT ![b] = Requeued(@)]
    /\ UNCHANGED <<orchestration, crashes, coroutines, catalog, artifacts, summary>>

Returned(b) == bulk[b].todo = {} /\ bulk[b].throttled = {}

-----------------------------------------------------------------------------
(* An activity that raises is tried again; after the last attempt the      *)
(* orchestration gives the run up.                                         *)

Retry(retryPhase) ==
    /\ tries' = IF tries + 1 < MaxTries THEN tries + 1 ELSE 0
    /\ phase' = IF tries + 1 < MaxTries THEN retryPhase ELSE "failing"
    /\ UNCHANGED <<run, status, stats>>

\* The connection is lost: `insert_many` raises something else than a
\* BulkWriteError, whatever it has stored by then.
RaiseInsert(b) ==
    /\ phase = "catalog"
    /\ bulk[b].todo # {}
    /\ \E applied \in SUBSET Chunk(bulk[b].todo) : catalog' = catalog \cup applied
    /\ bulk' = [bulk EXCEPT ![b] = NewBulk(b)]
    /\ Retry("catalog")
    /\ UNCHANGED <<crashes, coroutines, artifacts, summary>>

\* The analyze tasks are yielded, and so scheduled, when the catalog tasks are over.
StartAnalysis ==
    /\ phase = "catalog"
    /\ \A b \in CatalogBatches : Returned(b)
    /\ phase' = "analyze"
    /\ tries' = 0
    /\ UNCHANGED <<run, status, stats, crashes, bulk, coroutines, catalog, artifacts, summary>>

-----------------------------------------------------------------------------
(* compute_file_representations, one coroutine per file of a batch.        *)

BatchOf(f) == CHOOSE b \in AnalyzeBatches : f \in b
Active(b) == {g \in b : at[g] \notin {"waiting", "done"}}

Step(f, from, to) ==
    /\ phase = "analyze"
    /\ at[f] = from
    /\ at' = [at EXCEPT ![f] = to]
    /\ UNCHANGED <<orchestration, crashes, bulk, summary>>

\* The semaphore of the batch lets the file in.
Enter(f) ==
    /\ Cardinality(Active(BatchOf(f))) < FileConcurrency
    /\ Step(f, "waiting", "file")
    /\ UNCHANGED <<holds, result, catalog, artifacts>>

\* The exception leaves the coroutine, or its FileDocument did not persist.
Skip(f, from) ==
    /\ Step(f, from, "done")
    /\ result' = [result EXCEPT ![f] = Skipped]
    /\ UNCHANGED <<holds, artifacts>>

PersistFile(f) ==
    \/ /\ Step(f, "file", "download")
       /\ catalog' = catalog \cup {f}
       /\ result' = [result EXCEPT ![f] = [Skipped EXCEPT !.file = TRUE]]
       /\ UNCHANGED <<holds, artifacts>>
    \/ /\ Skip(f, "file")
       /\ catalog' \in {catalog, catalog \cup {f}}

Download(f) ==
    \/ /\ Step(f, "download", "graphs")
       /\ UNCHANGED <<holds, result, catalog, artifacts>>
    \/ /\ Skip(f, "download")
       /\ UNCHANGED catalog

\* The bulk insert of the graphs of a file, over all its rounds: of those with
\* one scope the first goes in and the others are duplicates, as is one whose
\* scope an earlier execution stored.
GraphOutcomes(f) ==
    {o \in [Graphs -> {"stored", "duplicate", "failed"}] :
        /\ \A g \in With(o, "stored") : ScopeOf[g] \notin graphs[f]
        /\ \A g, h \in With(o, "stored") : ScopeOf[g] = ScopeOf[h] => g = h
        /\ Scopes(With(o, "duplicate")) \subseteq graphs[f] \cup Scopes(With(o, "stored"))}

Counting(r, ok, bad) == [r EXCEPT !.built = TRUE, !.graphs = ok, !.lost = bad]

\* Duplicates are successes here as well.
CountGraphs(r, o) ==
    Counting(r, Cardinality(Graphs \ With(o, "failed")), Cardinality(With(o, "failed")))

\* persist_scoped_graphs: the builder failed, the insert returned, or it raised,
\* whatever it has stored by then.
PersistGraphs(f) ==
    /\ Step(f, "graphs", "lookup")
    /\ \/ UNCHANGED <<graphs, result>>
       \/ \E o \in GraphOutcomes(f) :
            /\ graphs' = [graphs EXCEPT ![f] = @ \cup Scopes(With(o, "stored"))]
            /\ result' = [result EXCEPT ![f] = CountGraphs(@, o)]
       \/ \E applied \in SUBSET Graphs :
            /\ graphs' = [graphs EXCEPT ![f] = @ \cup Scopes(applied)]
            /\ result' = [result EXCEPT ![f] = Counting(@, 0, Cardinality(Graphs))]
    /\ UNCHANGED <<holds, catalog, documentation, index>>

\* The coroutine ends without documentation to index.
Undocumented(f, from) ==
    /\ Step(f, from, "done")
    /\ holds' = [holds EXCEPT ![f] = None]
    /\ UNCHANGED <<result, catalog, graphs, index>>

\* Mutant: documentation is generated whether or not there is one.
LookupNothing(f) ==
    /\ Step(f, "lookup", "generate")
    /\ UNCHANGED <<holds, result, catalog, artifacts>>

\* find_one: documentation that is stored is reused.
LookupDocumentation(f) ==
    \/ /\ documentation[f] # None
       /\ Step(f, "lookup", "index")
       /\ holds' = [holds EXCEPT ![f] = documentation[f]]
       /\ result' = [result EXCEPT ![f].doc = TRUE]
       /\ UNCHANGED <<catalog, artifacts>>
    \/ /\ documentation[f] = None
       /\ Step(f, "lookup", "generate")
       /\ UNCHANGED <<holds, result, catalog, artifacts>>
    \/ /\ Undocumented(f, "lookup")
       /\ UNCHANGED documentation

\* The model answers, with an empty text or an error in the second case.
GenerateDocumentation(f) ==
    \/ /\ Step(f, "generate", "save")
       /\ \E text \in Contents : holds' = [holds EXCEPT ![f] = text]
       /\ UNCHANGED <<result, catalog, artifacts>>
    \/ /\ Undocumented(f, "generate")
       /\ UNCHANGED documentation

\* The unique index keeps the first text; a duplicate is taken for success.
FirstText(f) == IF documentation[f] = None THEN holds[f] ELSE documentation[f]

\* Mutant: a failed insert is logged and the text is indexed all the same.
SaveUnchecked(f) ==
    /\ Step(f, "save", "index")
    /\ documentation' \in {documentation, [documentation EXCEPT ![f] = FirstText(f)]}
    /\ result' = [result EXCEPT ![f].doc = TRUE]
    /\ UNCHANGED <<holds, catalog, graphs, index>>

SaveDocumentation(f) ==
    \/ /\ Step(f, "save", "index")
       /\ documentation' = [documentation EXCEPT ![f] = FirstText(f)]
       /\ result' = [result EXCEPT ![f].doc = TRUE]
       /\ UNCHANGED <<holds, catalog, graphs, index>>
    \/ /\ Undocumented(f, "save")
       /\ documentation' \in {documentation, [documentation EXCEPT ![f] = FirstText(f)]}

IndexDocumentation(f) ==
    /\ Step(f, "index", "done")
    /\ holds' = [holds EXCEPT ![f] = None]
    /\ \/ /\ index' = [index EXCEPT ![f] = holds[f]]
          /\ result' = [result EXCEPT ![f].rag = TRUE]
       \/ /\ index' \in {index, [index EXCEPT ![f] = holds[f]]}
          /\ UNCHANGED result
    /\ UNCHANGED <<catalog, graphs, documentation>>

-----------------------------------------------------------------------------
(* Fan-in, integrity gate and holistic analysis.                           *)

Results(field) == {f \in TargetedFiles : result[f][field]}

\* A counter summed up over batches or files: the number of pairs of one of
\* them and one of the documents it counted.
Summed(counters, field) ==
    Cardinality(UNION {{i} \X (1..counters[i][field]) : i \in DOMAIN counters})

Totals ==
    [files   |-> Summed(bulk, "ok") + Cardinality(Results("file")),
     failed  |-> Summed(bulk, "bad") + Cardinality(TargetedFiles \ Results("file")),
     graphs  |-> Summed(result, "graphs"),
     lost    |-> Summed(result, "lost"),
     unbuilt |-> Cardinality(TargetedFiles \ Results("built")),
     docs    |-> Cardinality(Results("doc")),
     rags    |-> Cardinality({f \in Results("doc") : result[f].rag})]

\* Mutant: no integrity gate.
GateOpen(totals) == FALSE

\* A run that detected files but persisted none is failed.
GateRefuses(totals) == Targeted + Others > 0 /\ totals.files = 0

FanIn ==
    /\ phase = "analyze"
    /\ \A f \in TargetedFiles : at[f] = "done"
    /\ stats' = Totals
    /\ phase' = IF GateRefuses(Totals) THEN "failing" ELSE "summarize"
    /\ bulk' = [b \in CatalogBatches |-> NewBulk(b)]
    /\ result' = [f \in TargetedFiles |-> None]
    /\ UNCHANGED <<run, status, tries, crashes, at, holds, catalog, artifacts, summary>>

\* persist_repo_meta passes over a summary that is already there.
FirstSummary == IF summary = None THEN stats ELSE summary

PersistSummary ==
    /\ phase = "summarize"
    /\ \/ /\ summary' = FirstSummary
          /\ phase' = "complete"
          /\ UNCHANGED <<run, status, tries, stats>>
       \/ /\ summary' \in {summary, FirstSummary}
          /\ Retry("summarize")
    /\ UNCHANGED <<crashes, bulk, coroutines, catalog, artifacts>>

Complete ==
    /\ phase = "complete"
    /\ \/ /\ status' = "completed"
          /\ phase' = "ended"
          /\ UNCHANGED <<run, tries, stats>>
       \/ Retry("summarize")
    /\ UNCHANGED <<crashes, bulk, coroutines, catalog, artifacts, summary>>

\* The `except` of the orchestration; it re-raises, so the instance ends.
\* (What becomes of the run when this write fails too is in RepoRuns.)
PatchFailed ==
    /\ phase = "failing"
    /\ status' = "failed"
    /\ phase' = "ended"
    /\ UNCHANGED <<run, tries, stats, crashes, bulk, coroutines, catalog, artifacts, summary>>

-----------------------------------------------------------------------------
(* Executions that die, and runs that follow.                              *)

\* The host of a batch goes down: its insert starts over.
CrashCatalog(b) ==
    /\ phase = "catalog"
    /\ bulk[b] # NewBulk(b)
    /\ ~Returned(b)
    /\ bulk' = [bulk EXCEPT ![b] = NewBulk(b)]
    /\ UNCHANGED coroutines

\* All coroutines of the batch start over.
CrashBatch(b) ==
    /\ phase = "analyze"
    /\ \E f \in b : at[f] # "done"
    /\ \E f \in b : at[f] # "waiting"
    /\ at' = [f \in TargetedFiles |-> IF f \in b THEN "waiting" ELSE at[f]]
    /\ holds' = [f \in TargetedFiles |-> IF f \in b THEN None ELSE holds[f]]
    /\ result' = [f \in TargetedFiles |-> IF f \in b THEN None ELSE result[f]]
    /\ UNCHANGED bulk

CrashExecution ==
    /\ crashes < MaxCrashes
    /\ crashes' = crashes + 1
    /\ \/ \E b \in CatalogBatches : CrashCatalog(b) /\ UNCHANGED orchestration
       \/ \E b \in AnalyzeBatches : CrashBatch(b) /\ UNCHANGED orchestration
       \/ /\ phase = "complete"
          /\ phase' = "summarize"
          /\ UNCHANGED <<run, status, tries, stats, bulk, coroutines>>
    /\ UNCHANGED <<catalog, artifacts, summary>>

\* The run failed and the repository is analyzed again.
NewRun ==
    /\ phase = "ended"
    /\ status = "failed"
    /\ run < MaxRuns
    /\ run' = run + 1
    /\ status' = "running"
    /\ phase' = "catalog"
    /\ tries' = 0
    /\ stats' = None
    /\ bulk' = [b \in CatalogBatches |-> NewBulk(b)]
    /\ at' = [f \in TargetedFiles |-> "waiting"]
    /\ holds' = [f \in TargetedFiles |-> None]
    /\ result' = [f \in TargetedFiles |-> None]
    /\ UNCHANGED <<crashes, catalog, artifacts, summary>>

FileStep(f) ==
    \/ Enter(f)
    \/ PersistFile(f)
    \/ Download(f)
    \/ PersistGraphs(f)
    \/ LookupDocumentation(f)
    \/ GenerateDocumentation(f)
    \/ SaveDocumentation(f)
    \/ IndexDocumentation(f)

Next ==
    \/ \E b \in CatalogBatches : InsertChunk(b) \/ EndRound(b) \/ RaiseInsert(b)
    \/ StartAnalysis
    \/ \E f \in TargetedFiles : FileStep(f)
    \/ FanIn
    \/ PersistSummary
    \/ Complete
    \/ PatchFailed
    \/ CrashExecution
    \/ NewRun

Spec == Init /\ [][Next]_vars

-----------------------------------------------------------------------------
(* Properties                                                              *)

\* Every variable has its type.
TypeOK ==
    /\ run \in 1..MaxRuns
    /\ status \in {"running", "completed", "failed"}
    /\ phase \in Phases
    /\ tries \in 0..MaxTries - 1
    /\ crashes \in 0..MaxCrashes
    /\ bulk \in [CatalogBatches -> BulkStates]
    /\ at \in [TargetedFiles -> Steps]
    /\ holds \in [TargetedFiles -> Contents \cup {None}]
    /\ result \in [TargetedFiles -> FileResults \cup {None}]
    /\ stats \in StatsRecords \cup {None}
    /\ catalog \subseteq TargetedFiles \cup OtherFiles
    /\ graphs \in [TargetedFiles -> SUBSET Scopes(Graphs)]
    /\ documentation \in [TargetedFiles -> Contents \cup {None}]
    /\ index \in [TargetedFiles -> Contents \cup {None}]
    /\ summary \in StatsRecords \cup {None}

Documented == {f \in TargetedFiles : documentation[f] # None}
Indexed == {f \in TargetedFiles : index[f] # None}

\* The graphs of a file that have a document of their scope in the store.
Covered(f) == {g \in Graphs : ScopeOf[g] \in graphs[f]}
CoveredPairs == {pair \in TargetedFiles \X Graphs : pair[2] \in Covered(pair[1])}

\* A success that an activity counts is a document in the store, and a bulk
\* insert accounts for each of its documents once, whatever is throttled,
\* refused, already there from an earlier execution, or cut short; so neither
\* does the summary claim more than the repository has.  A graph is counted
\* when a graph of its scope is in the store, be it its own or that of another
\* method with the same key, so that of graphs only scopes are claimed
\* (mongodb_retry_insert_many, persist_scoped_graphs).
CountedIsStored ==
    /\ \A b \in CatalogBatches :
        /\ bulk[b].ok <= Cardinality(b \cap catalog)
        /\ bulk[b].ok + bulk[b].bad + Cardinality(bulk[b].todo)
             + Cardinality(bulk[b].throttled) = Cardinality(b)
    /\ \A f \in TargetedFiles :
        result[f] # None =>
            /\ result[f].file => f \in catalog
            /\ result[f].graphs <= Cardinality(Covered(f))
            /\ result[f].graphs + result[f].lost
                 = IF result[f].built THEN Cardinality(Graphs) ELSE 0
            /\ result[f].doc => f \in Documented
            /\ result[f].rag => f \in Indexed
    /\ summary # None =>
        /\ summary.files <= Cardinality(catalog)
        /\ summary.graphs <= Cardinality(CoveredPairs)
        /\ summary.graphs + summary.lost
             = (Targeted - summary.unbuilt) * Cardinality(Graphs)
        /\ summary.docs <= Cardinality(Documented)
        /\ summary.rags <= Cardinality(Indexed)
        /\ summary.files + summary.failed = Targeted + Others

\* A run that completes leaves a repository that can be shown: its summary is
\* stored and, if it detected files, its catalog is not empty.
CompletedIsBrowsable ==
    status = "completed" => /\ summary # None
                            /\ Targeted + Others > 0 => catalog # {}

\* What the search index answers with is the documentation that is shown, even
\* when the model answered twice, an answer was lost, or an indexing failed:
\* _document_file hands on the stored text, not the one a re-run might generate.
IndexMatchesDocumentation ==
    \A f \in Indexed : index[f] = documentation[f]

\* "An already-persisted documentation is reused as-is, so a re-run never pays
\* for a second LLM call" (_document_file).
PaidOnce ==
    [][\A f \in TargetedFiles :
        at[f] = "generate" /\ at'[f] = "save" => f \notin Documented]_vars
=============================================================================
