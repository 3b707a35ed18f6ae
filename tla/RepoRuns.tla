------------------------------ MODULE RepoRuns ------------------------------
(***************************************************************************)
(* The pipeline runs of ONE repository: the documents of the collection    *)
(* `pipeline_runs`, the backend requests that create, retry, repair and    *)
(* reconcile them, the POST that hands a run to the worker, and the        *)
(* worker's durable orchestration, which writes the status of the run it   *)
(* was started under.                                                      *)
(*                                                                         *)
(* Backend requests run in two server processes on a shared store, so the  *)
(* steps of one request (each `await` on the store or on the worker) are   *)
(* separate actions that interleave with those of the others.  The         *)
(* repository is at the worker's current version throughout: a relaunch    *)
(* that moves to a newer version leaves these runs alone.                  *)
(***************************************************************************)
EXTENDS Naturals, FiniteSets

CONSTANTS
    Requests,      \* backend requests that act on the repository
    Creator,       \* the one that inserted the repository row
    MaxRuns,       \* bound: pipeline run documents ever inserted
    MaxOid,        \* bound: values an ObjectId takes, in their sort order
    IdsPerSecond,  \* ObjectIds of one second, which do not sort by insertion
    LostAnswers    \* effects whose answer can get lost: "dispatch", "activity"

ASSUME RequestsAssumption == Creator \in Requests
ASSUME BoundsAssumption ==
    /\ MaxRuns \in Nat \ {0}
    /\ MaxOid \in Nat \ {0}
    /\ IdsPerSecond \in Nat \ {0}
ASSUME LostAnswersAssumption == LostAnswers \subseteq {"dispatch", "activity"}

Runs == 1..MaxRuns      \* a run is named by its rank of insertion
NoRun == 0

VARIABLES
    minted,     \* number of run documents inserted so far
    status,     \* run -> PipelineStatus, "none" while it is not inserted
    oid,        \* run -> its `_id`
    retried,    \* run -> has `retried_at`
    aged,       \* run -> `started_at` is older than the reconcile grace period
    sent,       \* runs that went out in a POST /api/pipeline
    wire,       \* runs whose POST has not reached the worker yet
    instance,   \* run -> phase of the orchestration instance of that id
    stampedBy,  \* the run whose worker last set `ran_analyzer_version`
    pc,         \* request -> its next step
    seen,       \* request -> the run it read
    observed,   \* request -> the status `reconcile_pipeline_run` read
    mine        \* request -> the run it inserted and must dispatch

runVars == <<minted, status, oid, retried, aged>>
workerVars == <<sent, wire, instance, stampedBy>>
requestVars == <<pc, seen, observed, mine>>
vars == <<runVars, workerVars, requestVars>>

Statuses == {"pending", "running", "completed", "failed"}
Phases == {"absent", "scheduled", "stamping", "working", "failing",
           "failed", "completed"}
Steps == {"idle", "insert", "collided", "reconcile", "probe", "settle",
          "relaunch", "join", "claim", "stamp", "dispatch", "await"}

-----------------------------------------------------------------------------
(* The run documents.                                                      *)

Present == 1..minted
NonTerminal == {"pending", "running"}
Live(r) == status[r] \in NonTerminal

\* Mutant: RUNNING is left out of the index filter.
IndexAdmitsPendingOnly(r) == \A q \in Runs \ {r} : status[q] # "pending"

\* The partial unique index on repo_id, whose filter is status >= "pending".
\* True when a document of run r with a non-terminal status is admitted.
IndexAdmits(r) == \A q \in Runs \ {r} : ~Live(q)

SecondOf(i) == (i - 1) \div IdsPerSecond

\* The `_id`s that a document inserted now can carry: the leading timestamp
\* orders them by second, the rest does not order them at all.
FreshOids ==
    {i \in 1..MaxOid : \A q \in Present : /\ oid[q] # i
                                          /\ SecondOf(oid[q]) <= SecondOf(i)}

\* `find(...).sort("-_id")`, first element.
IsLatest(r) ==
    /\ r \in Present
    /\ \A q \in Present : oid[q] <= oid[r]

\* PipelineRunDocument(repo_id=...).insert(), admitted by the index.
InsertRun(r) ==
    /\ minted < MaxRuns
    /\ r = minted + 1
    /\ IndexAdmits(r)
    /\ minted' = r
    /\ status' = [status EXCEPT ![r] = "pending"]
    /\ \E i \in FreshOids : oid' = [oid EXCEPT ![r] = i]
    /\ UNCHANGED <<retried, aged>>

-----------------------------------------------------------------------------
(* The orchestration instances.                                            *)

\* The worker is writing the artifacts of the repository.
Working(r) == instance[r] \in {"scheduled", "stamping", "working"}

\* Mutant: an instance that is still Pending is taken for dead.
DeadVerdictOnPending(r) == instance[r] \in {"absent", "scheduled", "failed"}

\* The runtime statuses that `_DEAD_RUNTIME_STATUSES` gives a verdict on:
\* NotFound and Failed.  Pending, Running and Completed have none.
DeadVerdict(r) == instance[r] \in {"absent", "failed"}

-----------------------------------------------------------------------------
Init ==
    /\ minted = 0
    /\ status = [r \in Runs |-> "none"]
    /\ oid = [r \in Runs |-> 0]
    /\ retried = [r \in Runs |-> FALSE]
    /\ aged = [r \in Runs |-> FALSE]
    /\ sent = {}
    /\ wire = {}
    /\ instance = [r \in Runs |-> "absent"]
    /\ stampedBy = NoRun
    /\ pc = [p \in Requests |-> IF p = Creator THEN "insert" ELSE "idle"]
    /\ seen = [p \in Requests |-> NoRun]
    /\ observed = [p \in Requests |-> "none"]
    /\ mine = [p \in Requests |-> NoRun]

Goto(p, from, to) ==
    /\ pc[p] = from
    /\ pc' = [pc EXCEPT ![p] = to]

\* The request returns, raises or dies: its local variables are gone.
End(p, from) ==
    /\ Goto(p, from, "idle")
    /\ seen' = [seen EXCEPT ![p] = NoRun]
    /\ observed' = [observed EXCEPT ![p] = "none"]
    /\ mine' = [mine EXCEPT ![p] = NoRun]

Locals == <<seen, observed, mine>>

-----------------------------------------------------------------------------
(* The backend requests.                                                   *)

\* A holder relaunches, and the runs are reconciled first ...
BeginRelaunch(p) ==
    /\ Goto(p, "idle", "reconcile")
    /\ UNCHANGED <<runVars, workerVars, Locals>>

\* ... or a caller who asks for the same source was linked to the repository.
BeginJoin(p) ==
    /\ Goto(p, "idle", "join")
    /\ UNCHANGED <<runVars, workerVars, Locals>>

\* _start_new_analysis: the repository and its first link exist, the run is
\* inserted.  Its DuplicateKeyError is not caught here.
CreateInsert(p) ==
    /\ Goto(p, "insert", "dispatch")
    /\ \E r \in Runs :
        /\ InsertRun(r)
        /\ mine' = [mine EXCEPT ![p] = r]
    /\ UNCHANGED <<workerVars, seen, observed>>

CreateCollides(p) ==
    /\ Goto(p, "insert", "collided")
    /\ \E r \in Runs : Live(r)
    /\ UNCHANGED <<runVars, workerVars, Locals>>

\* analyze_git takes the DuplicateKeyError for a lost race on the repository,
\* finds it by key and is refused with 409: the caller already holds the link.
CreateRefused(p) ==
    /\ End(p, "collided")
    /\ UNCHANGED <<runVars, workerVars>>

\* Mutants: no grace period; RUNNING runs are never reconciled.
CandidateWithoutGrace(r) == Live(r)
CandidatePendingOnly(r) == status[r] = "pending" /\ aged[r]

\* reconcile_pipeline_run: find a non-terminal run past the grace period.
Candidate(r) == Live(r) /\ aged[r]

ReconcileRead(p) ==
    \/ \E r \in Runs :
        /\ Candidate(r)
        /\ Goto(p, "reconcile", "probe")
        /\ seen' = [seen EXCEPT ![p] = r]
        /\ observed' = [observed EXCEPT ![p] = status[r]]
        /\ UNCHANGED <<runVars, workerVars, mine>>
    \/ /\ \A r \in Runs : ~Candidate(r)
       /\ Goto(p, "reconcile", "relaunch")
       /\ UNCHANGED <<runVars, workerVars, Locals>>

\* _probe_instance answered: a verdict leads to the settling update.
ProbeAnswer(p) ==
    /\ Goto(p, "probe", IF DeadVerdict(seen[p]) THEN "settle" ELSE "relaunch")
    /\ UNCHANGED <<runVars, workerVars, Locals>>

\* _probe_instance returned None, or an exception was logged and swallowed.
ProbeOutage(p) ==
    /\ Goto(p, "probe", "relaunch")
    /\ UNCHANGED <<runVars, workerVars, Locals>>

\* The atomic update: FAILED, only if the status is still the observed one.
Settle(p) ==
    /\ Goto(p, "settle", "relaunch")
    /\ status' = IF status[seen[p]] = observed[p]
                 THEN [status EXCEPT ![seen[p]] = "failed"]
                 ELSE status
    /\ UNCHANGED <<minted, oid, retried, aged, workerVars, Locals>>

\* _find_latest_pipeline_run found none: _relaunch_at_current_version repairs,
\* _join_analysis leaves the claim to the creator and reports PENDING.
FindNone(p) ==
    /\ minted = 0
    /\ \/ /\ Goto(p, "relaunch", "claim")
          /\ seen' = [seen EXCEPT ![p] = NoRun]
          /\ UNCHANGED <<observed, mine>>
       \/ End(p, "join")
    /\ UNCHANGED <<runVars, workerVars>>

\* ... or the latest run: both retry a failed one and report or refuse
\* any other.
FindLatest(p) ==
    /\ \E r \in Present, from \in {"relaunch", "join"} :
        /\ IsLatest(r)
        /\ \/ /\ status[r] = "failed"
              /\ Goto(p, from, "claim")
              /\ seen' = [seen EXCEPT ![p] = r]
              /\ UNCHANGED <<observed, mine>>
           \/ /\ status[r] # "failed"
              /\ End(p, from)
    /\ UNCHANGED <<runVars, workerVars>>

\* Mutant: the failed run is stamped first, the successor inserted second.
ClaimAfterStamp(p) ==
    /\ seen[p] # NoRun
    /\ Goto(p, "claim", "stamp")
    /\ UNCHANGED <<runVars, workerVars, Locals>>

\* _claim_next_run: the insert is the claim.  A retry then stamps the run it
\* supersedes, a repair has none to stamp.
Claim(p) ==
    /\ Goto(p, "claim", IF seen[p] = NoRun THEN "dispatch" ELSE "stamp")
    /\ \E r \in Runs :
        /\ InsertRun(r)
        /\ mine' = [mine EXCEPT ![p] = r]
    /\ UNCHANGED <<workerVars, seen, observed>>

\* Mutant: a caller that lost the claim dispatches the run that holds it.
ClaimLostDispatches(p) ==
    /\ Goto(p, "claim", "dispatch")
    /\ \E r \in Runs : Live(r) /\ mine' = [mine EXCEPT ![p] = r]
    /\ UNCHANGED <<runVars, workerVars, seen, observed>>

\* DuplicateKeyError: another caller holds the claim, PENDING is reported.
ClaimLost(p) ==
    /\ \E r \in Runs : Live(r)
    /\ End(p, "claim")
    /\ UNCHANGED <<runVars, workerVars>>

\* _retry_failed_run: set retried_at on the superseded run if it is unset.
StampRetried(p) ==
    /\ Goto(p, "stamp", "dispatch")
    /\ retried' = [retried EXCEPT ![seen[p]] = TRUE]
    /\ UNCHANGED <<minted, status, oid, aged, workerVars, Locals>>

\* start_orchestration: the POST leaves with the run's id as instance id.
Dispatch(p) ==
    /\ Goto(p, "dispatch", "await")
    /\ sent' = sent \cup {mine[p]}
    /\ wire' = wire \cup {mine[p]}
    /\ UNCHANGED <<runVars, instance, stampedBy, Locals>>

\* ... a usable answer: the request reports PENDING.
DispatchAccepted(p) ==
    /\ pc[p] = "await"
    /\ instance[mine[p]] # "absent"
    /\ End(p, "await")
    /\ UNCHANGED <<runVars, workerVars>>

\* ... an error, a bad answer or the 30 s timeout: the run is set FAILED,
\* whatever its status is by now.  The worker may have started the instance
\* all the same, or start it later, when the answer is what got lost.
Undelivered(r) == r \notin wire /\ instance[r] = "absent"

\* Mutant: the run is deleted instead.
DispatchFailsDeletes(p) ==
    /\ pc[p] = "await"
    /\ Undelivered(mine[p])
    /\ status' = [status EXCEPT ![mine[p]] = "none"]
    /\ End(p, "await")
    /\ UNCHANGED <<minted, oid, retried, aged, workerVars>>

DispatchFails(p) ==
    /\ pc[p] = "await"
    /\ Undelivered(mine[p]) \/ "dispatch" \in LostAnswers
    /\ status' = [status EXCEPT ![mine[p]] = "failed"]
    /\ End(p, "await")
    /\ UNCHANGED <<minted, oid, retried, aged, workerVars>>

\* The backend process dies between two steps of the request.
Crash(p) ==
    /\ \E from \in Steps \ {"idle"} : End(p, from)
    /\ UNCHANGED <<runVars, workerVars>>

-----------------------------------------------------------------------------
(* The worker.                                                             *)

\* Mutant: the POST is delivered again later.
WorkerAcceptRedelivered(r) ==
    /\ r \in wire
    /\ instance' = [instance EXCEPT ![r] = "scheduled"]
    /\ UNCHANGED <<runVars, sent, wire, stampedBy, requestVars>>

\* start_analysis: client.start_new with the caller's instance id.
WorkerAccept(r) ==
    /\ r \in wire
    /\ wire' = wire \ {r}
    /\ instance' = [instance EXCEPT ![r] = "scheduled"]
    /\ UNCHANGED <<runVars, sent, stampedBy, requestVars>>

\* The POST is lost or refused (400, 422) before anything is started.
WorkerRejects(r) ==
    /\ r \in wire
    /\ wire' = wire \ {r}
    /\ UNCHANGED <<runVars, sent, instance, stampedBy, requestVars>>

Advance(r, from, to) ==
    /\ instance[r] = from
    /\ instance' = [instance EXCEPT ![r] = to]

\* stamp_analyzer_version, first write: RUNNING, if the index admits it.
StampRunning(r) ==
    /\ IndexAdmits(r)
    /\ status' = [status EXCEPT ![r] = "running"]
    /\ Advance(r, "scheduled", "stamping")
    /\ UNCHANGED <<minted, oid, retried, aged, sent, wire, stampedBy,
                   requestVars>>

\* ... its DuplicateKeyError, on the last of the three attempts.
StampRefused(r) ==
    /\ ~IndexAdmits(r)
    /\ Advance(r, "scheduled", "failing")
    /\ UNCHANGED <<runVars, sent, wire, stampedBy, requestVars>>

\* Mutant: the stamp keeps whatever version is already there.
StampVersionIfUnset(r) ==
    /\ stampedBy' = IF stampedBy = NoRun THEN r ELSE stampedBy
    /\ Advance(r, "stamping", "working")
    /\ UNCHANGED <<runVars, sent, wire, requestVars>>

\* ... second write: ran_analyzer_version of the repository.
StampVersion(r) ==
    /\ stampedBy' = r
    /\ Advance(r, "stamping", "working")
    /\ UNCHANGED <<runVars, sent, wire, requestVars>>

\* process_holistic_analysis ends with COMPLETED, unconditionally.
WorkerComplete(r) ==
    /\ status' = [status EXCEPT ![r] = "completed"]
    /\ Advance(r, "working", "completed")
    /\ UNCHANGED <<minted, oid, retried, aged, sent, wire, stampedBy,
                   requestVars>>

\* ... and is run again when the write applied but the activity failed.
WorkerCompleteUnacked(r) ==
    /\ "activity" \in LostAnswers
    /\ status' = [status EXCEPT ![r] = "completed"]
    /\ instance[r] = "working"
    /\ UNCHANGED <<minted, oid, retried, aged, workerVars, requestVars>>

\* An activity failed its last attempt, or the integrity gate raised.
WorkerError(r) ==
    /\ Working(r)
    /\ instance' = [instance EXCEPT ![r] = "failing"]
    /\ UNCHANGED <<runVars, sent, wire, stampedBy, requestVars>>

\* patch_pipeline_run sets FAILED, then the orchestration re-raises.
PatchFailed(r) ==
    /\ status' = [status EXCEPT ![r] = "failed"]
    /\ Advance(r, "failing", "failed")
    /\ UNCHANGED <<minted, oid, retried, aged, sent, wire, stampedBy,
                   requestVars>>

\* ... or failed its own last attempt, leaving the status as it is.
PatchExhausted(r) ==
    /\ Advance(r, "failing", "failed")
    /\ UNCHANGED <<runVars, sent, wire, stampedBy, requestVars>>

-----------------------------------------------------------------------------
\* Timing assumption: the grace period (300 s) outlasts a dispatch (30 s), so
\* a run past it is no longer being handed over.
HandedOver(r) ==
    /\ r \notin wire
    /\ \A p \in Requests :
        mine[p] = r => pc[p] \notin {"stamp", "dispatch", "await"}

GracePeriodEnds(r) ==
    /\ Live(r)
    /\ ~aged[r]
    /\ HandedOver(r)
    /\ aged' = [aged EXCEPT ![r] = TRUE]
    /\ UNCHANGED <<minted, status, oid, retried, workerVars, requestVars>>

-----------------------------------------------------------------------------
Begin(p) == BeginRelaunch(p) \/ BeginJoin(p)

RequestStep(p) ==
    \/ CreateInsert(p) \/ CreateCollides(p) \/ CreateRefused(p)
    \/ ReconcileRead(p) \/ ProbeAnswer(p) \/ ProbeOutage(p) \/ Settle(p)
    \/ FindNone(p) \/ FindLatest(p)
    \/ Claim(p) \/ ClaimLost(p) \/ StampRetried(p)
    \/ Dispatch(p) \/ DispatchAccepted(p) \/ DispatchFails(p)

WorkerStep(r) ==
    \/ WorkerAccept(r) \/ WorkerRejects(r)
    \/ StampRunning(r) \/ StampRefused(r) \/ StampVersion(r)
    \/ WorkerComplete(r) \/ WorkerCompleteUnacked(r)
    \/ WorkerError(r) \/ PatchFailed(r) \/ PatchExhausted(r)

Next ==
    \/ \E p \in Requests : Begin(p) \/ RequestStep(p) \/ Crash(p)
    \/ \E r \in Runs : WorkerStep(r) \/ GracePeriodEnds(r)

Spec == Init /\ [][Next]_vars

(***************************************************************************)
(* Fairness.  The server keeps running the requests it has, and a request  *)
(* does not die or miss the worker every single time it is made (SF); the  *)
(* Durable Functions runtime keeps executing its instances (WF); and the   *)
(* holders keep asking, since nothing sweeps in the background.            *)
(***************************************************************************)
Fairness ==
    /\ \A p \in Requests :
        /\ SF_vars(BeginRelaunch(p))
        /\ SF_vars(ReconcileRead(p))
        /\ SF_vars(ProbeAnswer(p))
        /\ SF_vars(Settle(p))
        /\ WF_vars(RequestStep(p))
    /\ \A r \in Runs :
        /\ WF_vars(WorkerStep(r))
        /\ WF_vars(WorkerComplete(r) \/ WorkerError(r))
        /\ WF_vars(GracePeriodEnds(r))

FairSpec == Spec /\ Fairness

-----------------------------------------------------------------------------
(* Properties.                                                             *)

TypeOK ==
    /\ minted \in 0..MaxRuns
    /\ status \in [Runs -> Statuses \cup {"none"}]
    /\ \A r \in Runs : r \in Present <=> status[r] # "none"
    /\ oid \in [Runs -> 0..MaxOid]
    /\ retried \in [Runs -> BOOLEAN]
    /\ aged \in [Runs -> BOOLEAN]
    /\ sent \subseteq Runs
    /\ wire \subseteq Runs
    /\ instance \in [Runs -> Phases]
    /\ stampedBy \in Runs \cup {NoRun}
    /\ pc \in [Requests -> Steps]
    /\ seen \in [Requests -> Runs \cup {NoRun}]
    /\ observed \in [Requests -> Statuses \cup {"none"}]
    /\ mine \in [Requests -> Runs \cup {NoRun}]

\* The claim: a repository never has two non-terminal runs, whoever inserts
\* one, retries, or brings a settled one back (PipelineRunDocument.indexes).
OneLiveRun == \A q, r \in Runs : Live(q) /\ Live(r) => q = r

\* The claim holds as long as the work does: while an instance writes the
\* artifacts of the repository, its run is the non-terminal one, so that no
\* caller can start a second analysis beside it (PipelineRunDocument).
WorkUnderClaim == \A r \in Runs : Working(r) => Live(r)

\* An attempt is only marked as retried once the attempt that supersedes it
\* exists (_retry_failed_run: claim first, stamp second).
RetriedHasSuccessor ==
    \A r \in Runs : retried[r] => \E q \in Present : q > r

\* A completed repository carries the version stamp of the run that is shown
\* as completed, not of another attempt (stamp_analyzer_version comes first).
StampMatchesOutput ==
    \A r \in Runs : r = minted /\ status[r] = "completed" => stampedBy = r

\* A run goes out to the worker once; a retry goes out under a new id
\* (start_orchestration: "an ID never goes out twice").
DispatchOnce == [][\A r \in wire' : r \in wire \/ r \notin sent]_vars

\* What an attempt ended with stays readable: no step of a request, of a
\* reconciliation or of a worker changes the status of a terminal run.
TerminalIsFinal ==
    [][\A r \in Runs : status[r] \in {"completed", "failed"}
                          => status'[r] = status[r]]_vars

\* A run left non-terminal, by a crash before the dispatch or by a worker
\* that could not even report its failure, does not wedge the repository
\* for ever if its holder keeps relaunching (reconcile_pipeline_run).
EveryRunSettles == \A r \in Runs : Live(r) ~> ~Live(r)

-----------------------------------------------------------------------------
(* Refinement of RunClaim.                                                 *)

ClaimHolder ==
    IF \E r \in Runs : Live(r) THEN CHOOSE r \in Runs : Live(r) ELSE NoRun

ClaimStage ==
    IF ClaimHolder = NoRun THEN "free"
    ELSE IF instance[ClaimHolder] = "absent" THEN "held"
    ELSE IF Working(ClaimHolder) THEN "working"
    ELSE "stopped"

Claims == INSTANCE RunClaim WITH
              holder <- ClaimHolder,
              stage <- ClaimStage,
              spent <- Present

\* Whatever requests, reconciliations and workers do to the run documents,
\* the non-terminal status behaves as the claim RunClaim specifies.
ImplementsClaim == Claims!Spec
=============================================================================
