------------------------- MODULE DeepAnalysisProofs -------------------------
(***************************************************************************)
(* Proofs about DeepAnalysis, for every number of analyses, every set of   *)
(* agents that may stall, and a store that may raise or not.               *)
(***************************************************************************)
EXTENDS DeepAnalysis, TLAPS

\* A heartbeat goes stale under a live task only if its agent stalls; an
\* analysis that was never launched has none.
HeartbeatInv ==
    \A a \in Analyses :
        /\ status[a] = "absent" => heartbeat[a] = "none"
        /\ heartbeat[a] = "stale" /\ a \notin Stalls => task[a] = "none"

Settled == TypeOK /\ OutcomeIsShown /\ HeartbeatInv

(* Initially no analysis is launched.                                      *)
LEMMA SettledInit == Init => Settled
BY MaxCallsAssumption
DEF Init, Settled, TypeOK, OutcomeIsShown, HeartbeatInv, Statuses, TaskSteps

(* The writes of a background task, whether they raise, and whether they    *)
(* were applied if they do.                                                *)
LEMMA WriteKeepsSettled ==
  ASSUME Settled, NEW a \in Analyses, task[a] # "none",
         \/ SetRunning(a) \/ SetProgress(a) \/ SetCompleted(a) \/ SetFailed(a)
         \/ UNCHANGED document,
         NEW to \in TaskSteps, task' = [task EXCEPT ![a] = to], UNCHANGED calls
  PROVE  Settled'
<1> USE DEF Settled, TypeOK, OutcomeIsShown, HeartbeatInv, Exists, Statuses,
            FinalStatus
<1>1. CASE SetRunning(a)
  BY <1>1 DEF SetRunning
<1>2. CASE SetProgress(a)
  BY <1>2 DEF SetProgress
<1>3. CASE SetCompleted(a)
  <2>1. CASE Exists(a)
    <3>1. /\ status' = [status EXCEPT ![a] = "completed"]
          /\ heartbeat' = [heartbeat EXCEPT ![a] = "none"]
          /\ content' = [content EXCEPT ![a] = TRUE]
          /\ progress' = [progress EXCEPT ![a] = calls[a]]
          /\ error' = error
      BY <1>3, <2>1 DEF SetCompleted
    <3>2. TypeOK'
      BY <3>1
    <3>3. OutcomeIsShown'
      BY <3>1
    <3>4. HeartbeatInv'
      BY <3>1
    <3> QED
      BY <3>2, <3>3, <3>4
  <2>2. CASE ~Exists(a)
    BY <1>3, <2>2 DEF SetCompleted, document
  <2> QED
    BY <2>1, <2>2
<1>4. CASE SetFailed(a)
  <2>1. CASE Exists(a)
    <3>1. /\ status' = [status EXCEPT ![a] = "failed"]
          /\ heartbeat' = [heartbeat EXCEPT ![a] = "none"]
          /\ error' = [error EXCEPT ![a] = TRUE]
          /\ content' = content /\ progress' = progress
      BY <1>4, <2>1 DEF SetFailed
    <3>2. TypeOK'
      BY <3>1
    <3>3. OutcomeIsShown'
      BY <3>1
    <3>4. HeartbeatInv'
      BY <3>1
    <3> QED
      BY <3>2, <3>3, <3>4
  <2>2. CASE ~Exists(a)
    BY <1>4, <2>2 DEF SetFailed, document
  <2> QED
    BY <2>1, <2>2
<1>5. CASE UNCHANGED document
  BY <1>5 DEF document
<1> QED
  BY <1>1, <1>2, <1>3, <1>4, <1>5

(* Settled is inductive: one step of the proof per action of Next.          *)
LEMMA SettledStep == Settled /\ [Next]_vars => Settled'
<1> SUFFICES ASSUME Settled, [Next]_vars
             PROVE  Settled'
  OBVIOUS
<1>1. ASSUME NEW a \in Analyses, Launch(a)
      PROVE  Settled'
  BY <1>1 DEF Launch, Settled, TypeOK, OutcomeIsShown, HeartbeatInv, Statuses,
     TaskSteps
<1>2. ASSUME NEW a \in Analyses,
             Start(a) \/ Flush(a) \/ Complete(a) \/ Fail(a)
      PROVE  Settled'
  BY <1>2, WriteKeepsSettled
  DEF Start, Flush, Complete, Fail, Raises, TaskGoes, TaskSteps
<1>3. ASSUME NEW a \in Analyses, StreamEnds(a)
      PROVE  Settled'
  BY <1>3, WriteKeepsSettled DEF StreamEnds, TaskGoes, TaskSteps
<1>4. ASSUME NEW a \in Analyses, ModelCall(a)
      PROVE  Settled'
  BY <1>4, MaxCallsAssumption
  DEF ModelCall, document, Settled, TypeOK, OutcomeIsShown, HeartbeatInv
<1>5. ASSUME NEW a \in Analyses, HeartbeatAges(a)
      PROVE  Settled'
  BY <1>5 DEF HeartbeatAges, Settled, TypeOK, OutcomeIsShown, HeartbeatInv
<1>6. ASSUME Restart
      PROVE  Settled'
  BY <1>6 DEF Restart, document, Settled, TypeOK, OutcomeIsShown, HeartbeatInv,
     TaskSteps
<1>7. ASSUME NEW S \in SUBSET Analyses, List(S)
      PROVE  Settled'
  BY <1>7 DEF List, Stale, Settled, TypeOK, OutcomeIsShown, HeartbeatInv, Statuses
<1>8. ASSUME NEW S \in SUBSET Analyses, Delete(S)
      PROVE  Settled'
  BY <1>8, MaxCallsAssumption
  DEF Delete, Settled, TypeOK, OutcomeIsShown, HeartbeatInv, Statuses
<1>9. CASE UNCHANGED vars
  BY <1>9 DEF vars, document, Settled, TypeOK, OutcomeIsShown, HeartbeatInv
<1> QED
  BY <1>1, <1>2, <1>3, <1>4, <1>5, <1>6, <1>7, <1>8, <1>9 DEF Next, TaskStep

(* Hence Settled is an invariant.                                          *)
LEMMA SettledAlways == Spec => []Settled
BY SettledInit, SettledStep, PTL DEF Spec

(* The documents have their types, and the progress that is shown never     *)
(* exceeds the model calls an agent may make.                              *)
THEOREM AnalysisTypes == Spec => []TypeOK
<1>1. Settled => TypeOK
  BY DEF Settled
<1> QED
  BY <1>1, SettledAlways, PTL

(* Whoever settles an analysis, its task or a list request, before or after *)
(* the other, and whichever of their writes raise: a completed one has its *)
(* report and a failed one its message.                                    *)
THEOREM OutcomeAlwaysShown == Spec => []OutcomeIsShown
<1>1. Settled => OutcomeIsShown
  BY DEF Settled
<1> QED
  BY <1>1, SettledAlways, PTL

(* A deleted analysis is never written back: the task that still runs for  *)
(* it, whatever step it is at, writes only a document that exists.         *)
THEOREM DeletedForGood == Spec => DeletedStaysDeleted
<1>1. ASSUME Settled, [Next]_vars
      PROVE  [\A a \in Analyses :
                status[a] = "deleted" => status'[a] = "deleted"]_vars
  <2> SUFFICES ASSUME Next, NEW a \in Analyses, status[a] = "deleted"
               PROVE  status'[a] = "deleted"
    BY <1>1
  <2> USE <1>1 DEF Settled, TypeOK, Exists, Statuses
  <2>1. ASSUME NEW b \in Analyses, TaskStep(b)
        PROVE  status'[a] = "deleted"
    BY <2>1
    DEF TaskStep, Start, Flush, Complete, Fail, StreamEnds, ModelCall, Raises,
        SetRunning, SetProgress, SetCompleted, SetFailed, FinalStatus, document
  <2>2. ASSUME NEW b \in Analyses, Launch(b) \/ HeartbeatAges(b)
        PROVE  status'[a] = "deleted"
    BY <2>2 DEF Launch, HeartbeatAges
  <2>3. ASSUME NEW S \in SUBSET Analyses, List(S) \/ Delete(S)
        PROVE  status'[a] = "deleted"
    BY <2>3 DEF List, Stale, Delete
  <2>4. Restart => status'[a] = "deleted"
    BY DEF Restart, document
  <2> QED
    BY <2>1, <2>2, <2>3, <2>4 DEF Next
<1> QED
  BY <1>1, SettledAlways, PTL DEF Spec, DeletedStaysDeleted

(* A list request never settles an analysis whose task is alive and writes *)
(* its heartbeat: one that fails while running had lost its task or was     *)
(* failed by it.                                                           *)
THEOREM SweepSparesTheLiving == Spec => OnlyStalledAreSwept
<1>1. ASSUME Settled, [Next]_vars
      PROVE  [\A a \in Analyses \ Stalls :
                status[a] = "running" /\ status'[a] = "failed" =>
                    task[a] \in {"none", "fail"}]_vars
  <2> SUFFICES ASSUME Next, NEW a \in Analyses \ Stalls,
                      status[a] = "running", status'[a] = "failed"
               PROVE  task[a] \in {"none", "fail"}
    BY <1>1
  <2> USE <1>1 DEF Settled, TypeOK, Exists, Statuses
  <2>1. ASSUME NEW b \in Analyses, Start(b) \/ Flush(b) \/ Complete(b)
                 \/ StreamEnds(b) \/ ModelCall(b)
        PROVE  FALSE
    BY <2>1
    DEF Start, Flush, Complete, StreamEnds, ModelCall, Raises, SetRunning,
        SetProgress, SetCompleted, FinalStatus, document
  <2>2. ASSUME NEW b \in Analyses, Fail(b)
        PROVE  task[a] = "fail"
    BY <2>2 DEF Fail, Raises, TaskGoes, SetFailed, FinalStatus, document
  <2>3. ASSUME NEW b \in Analyses, Launch(b) \/ HeartbeatAges(b)
        PROVE  FALSE
    BY <2>3 DEF Launch, HeartbeatAges
  <2>4. ASSUME NEW S \in SUBSET Analyses, List(S)
        PROVE  task[a] = "none"
    BY <2>4 DEF List, Stale, HeartbeatInv
  <2>5. ASSUME NEW S \in SUBSET Analyses, Delete(S)
        PROVE  FALSE
    BY <2>5 DEF Delete
  <2>6. ~Restart
    BY DEF Restart, document
  <2> QED
    BY <2>1, <2>2, <2>3, <2>4, <2>5, <2>6 DEF Next, TaskStep
<1> QED
  BY <1>1, SettledAlways, PTL DEF Spec, OnlyStalledAreSwept
=============================================================================
