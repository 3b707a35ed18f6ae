---------------------------- MODULE DeepAnalysis ----------------------------
(***************************************************************************)
(* The deep analyses of one user: the documents of `deep_analyses`, the    *)
(* background task that each launch leaves in its server process, and the  *)
(* list request, which settles analyses whose heartbeat went stale, there  *)
(* being no background sweeper.  The document may be deleted, and the      *)
(* process may restart, between any two writes of the task.                *)
(***************************************************************************)
EXTENDS Naturals

CONSTANTS
    Analyses,
    MaxCalls,     \* bound: model calls of an agent run
    Stalls,       \* those whose agent may go silent for the threshold
    StoreErrors   \* whether a write may raise, applied or not

ASSUME MaxCallsAssumption == MaxCalls \in Nat
ASSUME FaultsAssumption == Stalls \subseteq Analyses /\ StoreErrors \in BOOLEAN

VARIABLES
    status,     \* analysis -> DeepAnalysisStatus, "absent" or "deleted"
    heartbeat,  \* analysis -> age of `last_heartbeat_at`, "none" if unset
    content,    \* analysis -> has a report
    error,      \* analysis -> has an error message
    progress,   \* analysis -> `progress_current`
    task,       \* analysis -> next step of its background task
    calls       \* analysis -> the model calls its task has counted

document == <<status, heartbeat, content, error, progress>>
vars == <<document, task, calls>>

Statuses == {"pending", "running", "completed", "failed"}
TaskSteps == {"none", "start", "stream", "complete", "fail"}

Exists(a) == status[a] \in Statuses

Init ==
    /\ status = [a \in Analyses |-> "absent"]
    /\ heartbeat = [a \in Analyses |-> "none"]
    /\ content = [a \in Analyses |-> FALSE]
    /\ error = [a \in Analyses |-> FALSE]
    /\ progress = [a \in Analyses |-> 0]
    /\ task = [a \in Analyses |-> "none"]
    /\ calls = [a \in Analyses |-> 0]

\* launch_deep_analysis: insert the document, create the task.
Launch(a) ==
    /\ status[a] = "absent"
    /\ status' = [status EXCEPT ![a] = "pending"]
    /\ task' = [task EXCEPT ![a] = "start"]
    /\ UNCHANGED <<heartbeat, content, error, progress, calls>>

-----------------------------------------------------------------------------
(* The writes of _run_deep_analysis: find by id and set, so a document that *)
(* was deleted is not written.                                              *)

\* Mutant: the first write sets the status alone.
SetRunningWithoutHeartbeat(a) ==
    /\ status' = IF Exists(a) THEN [status EXCEPT ![a] = "running"] ELSE status
    /\ UNCHANGED <<heartbeat, content, error, progress>>

\* Mutant: the document is saved, which inserts it if it is gone.
SetRunningUpserting(a) ==
    /\ status' = [status EXCEPT ![a] = "running"]
    /\ heartbeat' = [heartbeat EXCEPT ![a] = "fresh"]
    /\ UNCHANGED <<content, error, progress>>

SetRunning(a) ==
    /\ status' = IF Exists(a) THEN [status EXCEPT ![a] = "running"] ELSE status
    /\ heartbeat' = IF Exists(a) THEN [heartbeat EXCEPT ![a] = "fresh"]
                    ELSE heartbeat
    /\ UNCHANGED <<content, error, progress>>

\* Mutant: the call that is about to start is counted.
SetProgressAhead(a) ==
    /\ progress' = IF Exists(a) THEN [progress EXCEPT ![a] = calls[a] + 1]
                   ELSE progress
    /\ heartbeat' = IF Exists(a) THEN [heartbeat EXCEPT ![a] = "fresh"]
                    ELSE heartbeat
    /\ UNCHANGED <<status, content, error>>

SetProgress(a) ==
    /\ progress' = IF Exists(a) THEN [progress EXCEPT ![a] = calls[a]]
                   ELSE progress
    /\ heartbeat' = IF Exists(a) THEN [heartbeat EXCEPT ![a] = "fresh"]
                    ELSE heartbeat
    /\ UNCHANGED <<status, content, error>>

\* _build_final_status_update: what ends an analysis, besides what it is given.
FinalStatus(a, s) ==
    /\ status' = [status EXCEPT ![a] = s]
    /\ heartbeat' = [heartbeat EXCEPT ![a] = "none"]

\* Mutant: the report is left out of the final update.
SetCompletedWithoutContent(a) ==
    /\ Exists(a)
    /\ FinalStatus(a, "completed")
    /\ progress' = [progress EXCEPT ![a] = calls[a]]
    /\ UNCHANGED <<content, error>>

SetCompleted(a) ==
    \/ /\ Exists(a)
       /\ FinalStatus(a, "completed")
       /\ content' = [content EXCEPT ![a] = TRUE]
       /\ progress' = [progress EXCEPT ![a] = calls[a]]
       /\ UNCHANGED error
    \/ /\ ~Exists(a)
       /\ UNCHANGED document

SetFailed(a) ==
    \/ /\ Exists(a)
       /\ FinalStatus(a, "failed")
       /\ error' = [error EXCEPT ![a] = TRUE]
       /\ UNCHANGED <<content, progress>>
    \/ /\ ~Exists(a)
       /\ UNCHANGED document

-----------------------------------------------------------------------------
(* The background task.                                                    *)

TaskGoes(a, from, to) ==
    /\ task[a] = from
    /\ task' = [task EXCEPT ![a] = to]

\* A write that raises may have been applied.
Raises(write) == StoreErrors /\ (write \/ UNCHANGED document)

\* The first write is outside the try: if it raises, the task is over.
Start(a) ==
    /\ \/ SetRunning(a) /\ TaskGoes(a, "start",
                                    IF Exists(a) THEN "stream" ELSE "none")
       \/ Raises(SetRunning(a)) /\ TaskGoes(a, "start", "none")
    /\ UNCHANGED calls

\* A model call of the agent or of a subagent, counted.
ModelCall(a) ==
    /\ task[a] = "stream"
    /\ calls[a] < MaxCalls
    /\ calls' = [calls EXCEPT ![a] = @ + 1]
    /\ UNCHANGED <<document, task>>

\* An event that finds the flush interval elapsed.
Flush(a) ==
    /\ \/ SetProgress(a) /\ TaskGoes(a, "stream",
                                     IF Exists(a) THEN "stream" ELSE "none")
       \/ Raises(SetProgress(a)) /\ TaskGoes(a, "stream", "fail")
    /\ UNCHANGED calls

\* The stream ends with a usable report, or it raises or ends without one.
StreamEnds(a) ==
    /\ TaskGoes(a, "stream", "complete") \/ TaskGoes(a, "stream", "fail")
    /\ UNCHANGED <<document, calls>>

Complete(a) ==
    /\ \/ SetCompleted(a) /\ TaskGoes(a, "complete", "none")
       \/ Raises(SetCompleted(a)) /\ TaskGoes(a, "complete", "fail")
    /\ UNCHANGED calls

Fail(a) ==
    /\ TaskGoes(a, "fail", "none")
    /\ SetFailed(a) \/ Raises(SetFailed(a))
    /\ UNCHANGED calls

\* A server process stops: its tasks are cancelled, which no handler of
\* theirs catches.
Restart ==
    /\ \E S \in SUBSET {a \in Analyses : task[a] # "none"} :
        /\ S # {}
        /\ task' = [a \in Analyses |-> IF a \in S THEN "none" ELSE task[a]]
    /\ UNCHANGED <<document, calls>>

-----------------------------------------------------------------------------
(* The requests.                                                           *)

\* DEEP_AGENT_STALE_THRESHOLD_S without a write of the heartbeat.
HeartbeatAges(a) ==
    /\ heartbeat[a] = "fresh"
    /\ \/ task[a] = "none"
       \/ task[a] = "stream" /\ a \in Stalls
    /\ heartbeat' = [heartbeat EXCEPT ![a] = "stale"]
    /\ UNCHANGED <<status, content, error, progress, task, calls>>

\* Mutant: the threshold is left out of the filter.
StaleAtAnyAge(a) == status[a] = "running" /\ heartbeat[a] # "none"

Stale(a) == status[a] = "running" /\ heartbeat[a] = "stale"

\* _mark_stale_analyses_as_failed for a list of the analyses of one or of
\* all repositories, in one update.
List(S) ==
    LET Swept == {a \in S : Stale(a)}
    IN  /\ Swept # {}
        /\ status' = [a \in Analyses |-> IF a \in Swept THEN "failed"
                                         ELSE status[a]]
        /\ error' = [a \in Analyses |-> a \in Swept \/ error[a]]
        /\ heartbeat' = [a \in Analyses |-> IF a \in Swept THEN "none"
                                            ELSE heartbeat[a]]
        /\ UNCHANGED <<content, progress, task, calls>>

\* delete_analysis, and delete_analyses_by_repo.  The task is not told.
Delete(S) ==
    /\ S # {} /\ \A a \in S : Exists(a)
    /\ status' = [a \in Analyses |-> IF a \in S THEN "deleted" ELSE status[a]]
    /\ heartbeat' = [a \in Analyses |-> IF a \in S THEN "none"
                                        ELSE heartbeat[a]]
    /\ content' = [a \in Analyses |-> a \notin S /\ content[a]]
    /\ error' = [a \in Analyses |-> a \notin S /\ error[a]]
    /\ progress' = [a \in Analyses |-> IF a \in S THEN 0 ELSE progress[a]]
    /\ UNCHANGED <<task, calls>>

-----------------------------------------------------------------------------
TaskStep(a) ==
    Start(a) \/ ModelCall(a) \/ Flush(a) \/ StreamEnds(a) \/ Complete(a)
    \/ Fail(a)

Next ==
    \/ \E a \in Analyses : Launch(a) \/ TaskStep(a) \/ HeartbeatAges(a)
    \/ Restart
    \/ \E S \in SUBSET Analyses : List(S) \/ Delete(S)

Spec == Init /\ [][Next]_vars

(***************************************************************************)
(* Fairness.  The event loop keeps running its tasks, and a stream ends    *)
(* (the agent's calls are limited); time passes for a heartbeat that       *)
(* nobody renews; and the user keeps listing the analyses (the page polls).*)
(***************************************************************************)
Fairness ==
    /\ \A a \in Analyses :
        /\ WF_vars(Start(a))
        /\ WF_vars(StreamEnds(a))
        /\ WF_vars(Complete(a))
        /\ WF_vars(Fail(a))
        /\ WF_vars(HeartbeatAges(a) /\ task[a] = "none")
    /\ WF_vars(List(Analyses))

FairSpec == Spec /\ Fairness

-----------------------------------------------------------------------------
(* Properties.                                                             *)

TypeOK ==
    /\ status \in [Analyses -> Statuses \cup {"absent", "deleted"}]
    /\ heartbeat \in [Analyses -> {"none", "fresh", "stale"}]
    /\ content \in [Analyses -> BOOLEAN]
    /\ error \in [Analyses -> BOOLEAN]
    /\ progress \in [Analyses -> 0..MaxCalls]
    /\ task \in [Analyses -> TaskSteps]
    /\ calls \in [Analyses -> 0..MaxCalls]

\* Whoever settles an analysis last, a settled one shows why: a completed one
\* its report, a failed one its message (get_deep_analysis_endpoint).
OutcomeIsShown ==
    \A a \in Analyses : /\ status[a] = "completed" => content[a]
                        /\ status[a] = "failed" => error[a]

\* A deleted analysis is not written back by the task that still runs for it
\* (_run_deep_analysis: "concurrent deletions are handled").
DeletedStaysDeleted ==
    [][\A a \in Analyses : status[a] = "deleted" => status'[a] = "deleted"]_vars

\* Looking at an analysis never fails it under a task that is alive and keeps
\* writing its heartbeat (_mark_stale_analyses_as_failed).
OnlyStalledAreSwept ==
    [][\A a \in Analyses \ Stalls :
        status[a] = "running" /\ status'[a] = "failed" =>
            task[a] \in {"none", "fail"}]_vars

\* A running analysis does not stay so for ever, whether its task ends, its
\* process restarts or its store fails, as long as its user looks at it
\* (_mark_stale_analyses_as_failed).
EveryRunEnds ==
    \A a \in Analyses : status[a] = "running" ~> status[a] # "running"

-----------------------------------------------------------------------------
\* "Returns the full analysis detail including content (if completed) and
\* error (if failed)" (get_deep_analysis_endpoint).  A task whose heartbeat
\* went stale is settled as failed, goes on, and completes.
ErrorOnlyIfFailed ==
    \A a \in Analyses : status[a] = "completed" => ~error[a]
=============================================================================
