--------------------------- MODULE RepoRunsProofs ---------------------------
(***************************************************************************)
(* Proofs about RepoRuns, for every number of requests and runs.           *)
(*                                                                         *)
(* Structure holds whatever answers get lost: it gives type correctness,   *)
(* OneLiveRun, RetriedHasSuccessor and DispatchOnce.  Held is what a       *)
(* reliable dispatch adds: it gives ImplementsClaim and, with StampInv,    *)
(* StampMatchesOutput, also if completed activities are repeated.  If they *)
(* are not, it gives WorkUnderClaim and TerminalIsFinal as well.           *)
(***************************************************************************)
EXTENDS RepoRuns, TLAPS

\* What a request remembers exists: the run it read, and the one it inserted,
\* which is newer than the run a retry supersedes.
LocalsInv ==
    \A p \in Requests :
        /\ pc[p] \in {"probe", "settle"} => seen[p] \in Present
        /\ pc[p] \in {"stamp", "dispatch", "await"} => mine[p] \in Present
        /\ pc[p] = "stamp" => seen[p] < mine[p]
        /\ pc[p] = "claim" => seen[p] \in Present \cup {NoRun}

\* Only what was sent reaches the worker, and only what was inserted is sent.
SentInv ==
    /\ sent \subseteq Present
    /\ wire \subseteq sent
    /\ \A r \in Runs : instance[r] # "absent" => r \in sent

\* A run that is yet to be dispatched has one request that will do so.
DispatcherInv ==
    \A p \in Requests :
        pc[p] \in {"stamp", "dispatch"} =>
            /\ mine[p] \notin sent
            /\ \A q \in Requests :
                  pc[q] \in {"stamp", "dispatch"} /\ mine[q] = mine[p] => q = p

Structure ==
    /\ TypeOK
    /\ LocalsInv
    /\ SentInv
    /\ DispatcherInv
    /\ OneLiveRun
    /\ RetriedHasSuccessor

\* A run past the grace period is handed over, so a probe that found its
\* instance dead stays right until the run is settled.
GraceInv ==
    /\ \A r \in Runs : aged[r] => r \in Present /\ HandedOver(r)
    /\ \A p \in Requests :
        /\ pc[p] \in {"probe", "settle"} =>
              aged[seen[p]] /\ observed[p] \in NonTerminal
        /\ pc[p] = "settle" => DeadVerdict(seen[p])

\* The run stays non-terminal from its insert until its instance ended, or
\* completed it without having been told that it did.
HeldInv ==
    /\ \A p \in Requests :
        /\ pc[p] \in {"stamp", "dispatch"} => Live(mine[p])
        /\ pc[p] = "await" => mine[p] \in sent
    /\ \A r \in wire : Live(r) /\ instance[r] = "absent"
    /\ \A r \in Runs :
        /\ instance[r] \in {"scheduled", "stamping"} => Live(r)
        /\ instance[r] \in {"working", "failing"} =>
              Live(r) \/ status[r] = "completed"
        /\ status[r] = "completed" =>
              instance[r] \in {"working", "failing", "failed", "completed"}
        /\ status[r] = "completed" /\ "activity" \notin LostAnswers =>
              instance[r] = "completed"

Held == Structure /\ GraceInv /\ HeldInv

-----------------------------------------------------------------------------
(* Structure holds initially: there is no document and no request is past *)
(* its first step.                                                          *)
LEMMA StructureInit == Init => Structure
<1> SUFFICES ASSUME Init
             PROVE  Structure
  OBVIOUS
<1>1. Present = {} /\ \A r \in Runs : ~Live(r)
  BY BoundsAssumption DEF Init, Present, Live, NonTerminal, Runs
<1>2. \A p \in Requests : pc[p] \in {"insert", "idle"}
  BY DEF Init
<1>3. TypeOK
  BY <1>1, RequestsAssumption, BoundsAssumption
  DEF Init, TypeOK, Runs, NoRun, Statuses, Phases, Steps
<1>4. LocalsInv /\ DispatcherInv
  BY <1>2 DEF LocalsInv, DispatcherInv
<1>5. SentInv
  BY DEF Init, SentInv
<1>6. OneLiveRun
  BY <1>1 DEF OneLiveRun
<1>7. RetriedHasSuccessor
  <2>1. retried = [r \in Runs |-> FALSE]
    BY Zenon DEF Init
  <2>2. \A r \in Runs : ~retried[r]
    BY <2>1, Zenon
  <2> QED
    BY <2>2 DEF RetriedHasSuccessor
<1> QED
  BY <1>3, <1>4, <1>5, <1>6, <1>7 DEF Structure

(* Structure is inductive: one step of the proof per action of Next.        *)
LEMMA StructureStep == Structure /\ [Next]_vars => Structure'
<1> SUFFICES ASSUME Structure, [Next]_vars
             PROVE  Structure'
  OBVIOUS
<1> USE BoundsAssumption
    DEF Structure, TypeOK, LocalsInv, SentInv, DispatcherInv, OneLiveRun,
        RetriedHasSuccessor, Runs, NoRun, Statuses, Phases, Steps, Present,
        Live, NonTerminal, runVars, workerVars, requestVars, Locals,
        Goto, End, InsertRun, IndexAdmits, FreshOids, Advance, Working
<1>1. ASSUME NEW p \in Requests, BeginRelaunch(p)
       PROVE  Structure'
  BY <1>1 DEF BeginRelaunch
<1>2. ASSUME NEW p \in Requests, BeginJoin(p)
       PROVE  Structure'
  BY <1>2 DEF BeginJoin
<1>3. ASSUME NEW p \in Requests, CreateInsert(p)
       PROVE  Structure'
  <2>0. PICK r \in Runs : InsertRun(r) /\ mine' = [mine EXCEPT ![p] = r]
    BY <1>3 DEF CreateInsert
  <2>1. TypeOK'
    BY <1>3, <2>0 DEF CreateInsert
  <2>2. LocalsInv'
    BY <1>3, <2>0 DEF CreateInsert
  <2>3. SentInv'
    BY <1>3, <2>0 DEF CreateInsert
  <2>4. DispatcherInv'
    BY <1>3, <2>0 DEF CreateInsert
  <2>5. OneLiveRun'
    BY <1>3, <2>0 DEF CreateInsert
  <2>6. RetriedHasSuccessor'
    BY <1>3, <2>0 DEF CreateInsert
  <2> QED
    BY <2>1, <2>2, <2>3, <2>4, <2>5, <2>6
<1>4. ASSUME NEW p \in Requests, CreateCollides(p)
       PROVE  Structure'
  BY <1>4 DEF CreateCollides
<1>5. ASSUME NEW p \in Requests, CreateRefused(p)
       PROVE  Structure'
  BY <1>5 DEF CreateRefused
<1>6. ASSUME NEW p \in Requests, ReconcileRead(p)
       PROVE  Structure'
  <2>1. CASE \A r \in Runs : ~Candidate(r)
    <3>1. /\ Goto(p, "reconcile", "relaunch")
          /\ UNCHANGED <<runVars, workerVars, Locals>>
      BY <1>6, <2>1 DEF ReconcileRead
    <3> QED
      BY <3>1
  <2>2. CASE \E r \in Runs : Candidate(r)
    <3>1. PICK r \in Runs :
            /\ Candidate(r)
            /\ Goto(p, "reconcile", "probe")
            /\ seen' = [seen EXCEPT ![p] = r]
            /\ observed' = [observed EXCEPT ![p] = status[r]]
            /\ UNCHANGED <<runVars, workerVars, mine>>
      BY <1>6, <2>2 DEF ReconcileRead
    <3>2. r \in Present
      BY <3>1 DEF Candidate
    <3>3. TypeOK'
      BY <3>1
    <3>7. LocalsInv'
      BY <3>1, <3>2
    <3>4. DispatcherInv'
      BY <3>1
    <3>5. SentInv' /\ OneLiveRun'
      BY <3>1
    <3>6. RetriedHasSuccessor'
      BY <3>1
    <3> QED
      BY <3>3, <3>4, <3>5, <3>6, <3>7
  <2> QED
    BY <2>1, <2>2
<1>7. ASSUME NEW p \in Requests, ProbeAnswer(p)
       PROVE  Structure'
  <2>1. TypeOK'
    BY <1>7 DEF ProbeAnswer
  <2>2. LocalsInv' /\ DispatcherInv'
    BY <1>7 DEF ProbeAnswer
  <2>3. SentInv' /\ OneLiveRun' /\ RetriedHasSuccessor'
    BY <1>7 DEF ProbeAnswer
  <2> QED
    BY <2>1, <2>2, <2>3
<1>8. ASSUME NEW p \in Requests, ProbeOutage(p)
       PROVE  Structure'
  <2>1. TypeOK'
    BY <1>8 DEF ProbeOutage
  <2>2. LocalsInv' /\ DispatcherInv'
    BY <1>8 DEF ProbeOutage
  <2>3. SentInv' /\ OneLiveRun' /\ RetriedHasSuccessor'
    BY <1>8 DEF ProbeOutage
  <2> QED
    BY <2>1, <2>2, <2>3
<1>9. ASSUME NEW p \in Requests, Settle(p)
       PROVE  Structure'
  <2>1. TypeOK'
    BY <1>9 DEF Settle
  <2>2. LocalsInv' /\ DispatcherInv'
    BY <1>9 DEF Settle
  <2>3. SentInv' /\ OneLiveRun' /\ RetriedHasSuccessor'
    BY <1>9 DEF Settle
  <2> QED
    BY <2>1, <2>2, <2>3
<1>10. ASSUME NEW p \in Requests, FindNone(p)
       PROVE  Structure'
  <2>1. UNCHANGED <<runVars, workerVars>>
    BY <1>10 DEF FindNone
  <2>2. CASE /\ Goto(p, "relaunch", "claim")
             /\ seen' = [seen EXCEPT ![p] = NoRun]
             /\ UNCHANGED <<observed, mine>>
    <3>1. TypeOK' /\ LocalsInv'
      BY <2>1, <2>2
    <3>2. DispatcherInv'
      BY <2>1, <2>2
    <3>3. SentInv' /\ OneLiveRun'
      BY <2>1, <2>2
    <3>4. RetriedHasSuccessor'
      BY <2>1, <2>2
    <3> QED
      BY <3>1, <3>2, <3>3, <3>4
  <2>3. CASE End(p, "join")
    <3>1. TypeOK' /\ LocalsInv'
      BY <2>1, <2>3
    <3>2. DispatcherInv'
      BY <2>1, <2>3
    <3>3. SentInv' /\ OneLiveRun'
      BY <2>1, <2>3
    <3>4. RetriedHasSuccessor'
      BY <2>1, <2>3
    <3> QED
      BY <3>1, <3>2, <3>3, <3>4
  <2> QED
    BY <1>10, <2>2, <2>3 DEF FindNone
<1>11. ASSUME NEW p \in Requests, FindLatest(p)
       PROVE  Structure'
  <2>0. PICK r \in Present, from \in {"relaunch", "join"} :
          \/ /\ Goto(p, from, "claim")
             /\ seen' = [seen EXCEPT ![p] = r]
             /\ UNCHANGED <<observed, mine>>
          \/ End(p, from)
    BY <1>11 DEF FindLatest
  <2>1. r \in Runs /\ UNCHANGED <<runVars, workerVars>>
    BY <1>11 DEF FindLatest
  <2>2. CASE Goto(p, from, "claim") /\ seen' = [seen EXCEPT ![p] = r]
             /\ UNCHANGED <<observed, mine>>
    <3>1. TypeOK' /\ LocalsInv'
      BY <2>1, <2>2
    <3>2. DispatcherInv'
      BY <2>1, <2>2
    <3>3. SentInv' /\ OneLiveRun'
      BY <2>1, <2>2
    <3>4. RetriedHasSuccessor'
      BY <2>1, <2>2
    <3> QED
      BY <3>1, <3>2, <3>3, <3>4
  <2>3. CASE End(p, from)
    <3>1. TypeOK' /\ LocalsInv'
      BY <2>1, <2>3
    <3>2. DispatcherInv'
      BY <2>1, <2>3
    <3>3. SentInv' /\ OneLiveRun'
      BY <2>1, <2>3
    <3>4. RetriedHasSuccessor'
      BY <2>1, <2>3
    <3> QED
      BY <3>1, <3>2, <3>3, <3>4
  <2> QED
    BY <2>0, <2>2, <2>3
<1>12. ASSUME NEW p \in Requests, Claim(p)
       PROVE  Structure'
  <2>0. PICK r \in Runs : InsertRun(r) /\ mine' = [mine EXCEPT ![p] = r]
    BY <1>12 DEF Claim
  <2>1. TypeOK'
    BY <1>12, <2>0 DEF Claim
  <2>2. LocalsInv'
    BY <1>12, <2>0 DEF Claim
  <2>3. SentInv'
    BY <1>12, <2>0 DEF Claim
  <2>4. DispatcherInv'
    BY <1>12, <2>0 DEF Claim
  <2>5. OneLiveRun'
    BY <1>12, <2>0 DEF Claim
  <2>6. RetriedHasSuccessor'
    BY <1>12, <2>0 DEF Claim
  <2> QED
    BY <2>1, <2>2, <2>3, <2>4, <2>5, <2>6
<1>13. ASSUME NEW p \in Requests, ClaimLost(p)
       PROVE  Structure'
  <2>1. TypeOK'
    BY <1>13 DEF ClaimLost
  <2>2. LocalsInv' /\ DispatcherInv'
    BY <1>13 DEF ClaimLost
  <2>3. SentInv' /\ OneLiveRun' /\ RetriedHasSuccessor'
    BY <1>13 DEF ClaimLost
  <2> QED
    BY <2>1, <2>2, <2>3
<1>14. ASSUME NEW p \in Requests, StampRetried(p)
       PROVE  Structure'
  <2>1. TypeOK'
    BY <1>14 DEF StampRetried
  <2>2. LocalsInv'
    BY <1>14 DEF StampRetried
  <2>3. SentInv'
    BY <1>14 DEF StampRetried
  <2>4. DispatcherInv'
    BY <1>14 DEF StampRetried
  <2>5. OneLiveRun'
    BY <1>14 DEF StampRetried
  <2>0. seen[p] < mine[p] /\ mine[p] \in Present /\ Present' = Present
    BY <1>14 DEF StampRetried
  <2>6. RetriedHasSuccessor'
    <3> SUFFICES ASSUME NEW r \in Runs, retried'[r]
                 PROVE  \E q \in Present' : q > r
      OBVIOUS
    <3>1. CASE r = seen[p]
      BY <2>0, <3>1
    <3>2. CASE r # seen[p]
      <4>1. retried[r]
        BY <1>14, <3>2 DEF StampRetried
      <4> QED
        BY <2>0, <4>1
    <3> QED
      BY <3>1, <3>2
  <2> QED
    BY <2>1, <2>2, <2>3, <2>4, <2>5, <2>6
<1>15. ASSUME NEW p \in Requests, Dispatch(p)
       PROVE  Structure'
  <2>0. mine[p] \in Present /\ mine[p] \in Runs
    BY <1>15 DEF Dispatch
  <2>1. TypeOK'
    BY <1>15, <2>0 DEF Dispatch
  <2>2. LocalsInv'
    BY <1>15 DEF Dispatch
  <2>3. SentInv'
    <3>1. /\ sent' = sent \cup {mine[p]}
          /\ wire' = wire \cup {mine[p]}
          /\ Present' = Present
          /\ instance' = instance
      BY <1>15 DEF Dispatch
    <3> QED
      BY <2>0, <3>1
  <2>4. DispatcherInv'
    BY <1>15 DEF Dispatch
  <2>5. OneLiveRun'
    BY <1>15 DEF Dispatch
  <2>6. RetriedHasSuccessor'
    BY <1>15 DEF Dispatch
  <2> QED
    BY <2>1, <2>2, <2>3, <2>4, <2>5, <2>6
<1>16. ASSUME NEW p \in Requests, DispatchAccepted(p)
       PROVE  Structure'
  <2>1. TypeOK'
    BY <1>16 DEF DispatchAccepted
  <2>2. LocalsInv' /\ DispatcherInv'
    BY <1>16 DEF DispatchAccepted
  <2>3. SentInv' /\ OneLiveRun' /\ RetriedHasSuccessor'
    BY <1>16 DEF DispatchAccepted
  <2> QED
    BY <2>1, <2>2, <2>3
<1>17. ASSUME NEW p \in Requests, DispatchFails(p)
       PROVE  Structure'
  <2>1. TypeOK'
    BY <1>17 DEF DispatchFails
  <2>2. LocalsInv' /\ DispatcherInv'
    BY <1>17 DEF DispatchFails
  <2>3. SentInv' /\ OneLiveRun' /\ RetriedHasSuccessor'
    BY <1>17 DEF DispatchFails
  <2> QED
    BY <2>1, <2>2, <2>3
<1>18. ASSUME NEW p \in Requests, Crash(p)
       PROVE  Structure'
  BY <1>18 DEF Crash
<1>19. ASSUME NEW r \in Runs, WorkerAccept(r)
       PROVE  Structure'
  <2>0. r \in Present
    BY <1>19 DEF WorkerAccept
  <2>1. TypeOK'
    BY <1>19, <2>0 DEF WorkerAccept
  <2>2. LocalsInv' /\ DispatcherInv'
    BY <1>19 DEF WorkerAccept
  <2>3. SentInv'
    BY <1>19 DEF WorkerAccept
  <2>4. OneLiveRun'
    BY <1>19 DEF WorkerAccept
  <2>5. RetriedHasSuccessor'
    BY <1>19 DEF WorkerAccept
  <2> QED
    BY <2>1, <2>2, <2>3, <2>4, <2>5
<1>20. ASSUME NEW r \in Runs, WorkerRejects(r)
       PROVE  Structure'
  BY <1>20 DEF WorkerRejects
<1>21. ASSUME NEW r \in Runs, StampRunning(r)
       PROVE  Structure'
  <2>0. r \in Present
    BY <1>21 DEF StampRunning
  <2>1. TypeOK'
    BY <1>21, <2>0 DEF StampRunning
  <2>2. LocalsInv' /\ DispatcherInv'
    BY <1>21 DEF StampRunning
  <2>3. SentInv'
    BY <1>21 DEF StampRunning
  <2>4. OneLiveRun'
    BY <1>21 DEF StampRunning
  <2>5. RetriedHasSuccessor'
    BY <1>21 DEF StampRunning
  <2> QED
    BY <2>1, <2>2, <2>3, <2>4, <2>5
<1>22. ASSUME NEW r \in Runs, StampRefused(r)
       PROVE  Structure'
  BY <1>22 DEF StampRefused
<1>23. ASSUME NEW r \in Runs, StampVersion(r)
       PROVE  Structure'
  BY <1>23 DEF StampVersion
<1>24. ASSUME NEW r \in Runs, WorkerComplete(r)
       PROVE  Structure'
  <2>0. r \in Present
    BY <1>24 DEF WorkerComplete
  <2>1. TypeOK'
    BY <1>24, <2>0 DEF WorkerComplete
  <2>2. LocalsInv' /\ DispatcherInv'
    BY <1>24 DEF WorkerComplete
  <2>3. SentInv'
    BY <1>24 DEF WorkerComplete
  <2>4. OneLiveRun'
    BY <1>24 DEF WorkerComplete
  <2>5. RetriedHasSuccessor'
    BY <1>24 DEF WorkerComplete
  <2> QED
    BY <2>1, <2>2, <2>3, <2>4, <2>5
<1>25. ASSUME NEW r \in Runs, WorkerCompleteUnacked(r)
       PROVE  Structure'
  <2>0. r \in Present
    BY <1>25 DEF WorkerCompleteUnacked
  <2>1. TypeOK'
    BY <1>25, <2>0 DEF WorkerCompleteUnacked
  <2>2. LocalsInv' /\ DispatcherInv'
    BY <1>25 DEF WorkerCompleteUnacked
  <2>3. SentInv'
    BY <1>25 DEF WorkerCompleteUnacked
  <2>4. OneLiveRun'
    BY <1>25 DEF WorkerCompleteUnacked
  <2>5. RetriedHasSuccessor'
    BY <1>25 DEF WorkerCompleteUnacked
  <2> QED
    BY <2>1, <2>2, <2>3, <2>4, <2>5
<1>26. ASSUME NEW r \in Runs, WorkerError(r)
       PROVE  Structure'
  BY <1>26 DEF WorkerError
<1>27. ASSUME NEW r \in Runs, PatchFailed(r)
       PROVE  Structure'
  <2>0. r \in Present
    BY <1>27 DEF PatchFailed
  <2>1. TypeOK'
    BY <1>27, <2>0 DEF PatchFailed
  <2>2. LocalsInv' /\ DispatcherInv'
    BY <1>27 DEF PatchFailed
  <2>3. SentInv'
    BY <1>27 DEF PatchFailed
  <2>4. OneLiveRun'
    BY <1>27 DEF PatchFailed
  <2>5. RetriedHasSuccessor'
    BY <1>27 DEF PatchFailed
  <2> QED
    BY <2>1, <2>2, <2>3, <2>4, <2>5
<1>28. ASSUME NEW r \in Runs, PatchExhausted(r)
       PROVE  Structure'
  BY <1>28 DEF PatchExhausted
<1>29. ASSUME NEW r \in Runs, GracePeriodEnds(r)
       PROVE  Structure'
  BY <1>29 DEF GracePeriodEnds
<1>30. CASE UNCHANGED vars
  BY <1>30 DEF vars
<1>31. QED
  BY <1>1, <1>2, <1>3, <1>4, <1>5, <1>6, <1>7, <1>8, <1>9, <1>10, <1>11, <1>12, <1>13, <1>14, <1>15, <1>16, <1>17, <1>18, <1>19, <1>20, <1>21, <1>22, <1>23, <1>24, <1>25, <1>26, <1>27, <1>28, <1>29, <1>30
  DEF Next, Begin, RequestStep, WorkerStep

(* Hence Structure is an invariant.                                         *)
LEMMA StructureAlways == Spec => []Structure
BY StructureInit, StructureStep, PTL DEF Spec

-----------------------------------------------------------------------------
(* The run documents have their types: an inserted run has one of the four *)
(* statuses, and the ids handed to the worker are those of runs.           *)
THEOREM TypeCorrect == Spec => []TypeOK
<1>1. Structure => TypeOK
  BY DEF Structure
<1> QED
  BY <1>1, StructureAlways, PTL

(* Whatever requests, reconciliations and workers do, in whatever order and *)
(* whichever answers get lost, a repository has one non-terminal run.      *)
THEOREM OneLiveRunAlways == Spec => []OneLiveRun
<1>1. Structure => OneLiveRun
  BY DEF Structure
<1> QED
  BY <1>1, StructureAlways, PTL

(* A run marked as retried has the run that supersedes it.                 *)
THEOREM RetriedHasSuccessorAlways == Spec => []RetriedHasSuccessor
<1>1. Structure => RetriedHasSuccessor
  BY DEF Structure
<1> QED
  BY <1>1, StructureAlways, PTL

(* No id goes out to the worker twice.                                     *)
THEOREM DispatchedOnce == Spec => DispatchOnce
<1>1. Structure /\ [Next]_vars => [\A r \in wire' : r \in wire \/ r \notin sent]_vars
  <2> SUFFICES ASSUME Structure, Next, NEW r \in wire', r \notin wire
               PROVE  r \notin sent
    BY DEF vars
  <2>1. PICK p \in Requests : Dispatch(p)
    BY DEF Next, Begin, RequestStep, WorkerStep, vars, runVars, workerVars,
           requestVars, Locals, BeginRelaunch, BeginJoin, CreateInsert,
           CreateCollides, CreateRefused, ReconcileRead, ProbeAnswer,
           ProbeOutage, Settle, FindNone, FindLatest, Claim, ClaimLost,
           StampRetried, DispatchAccepted, DispatchFails, Crash,
           WorkerAccept, WorkerRejects, StampRunning, StampRefused,
           StampVersion, WorkerComplete, WorkerCompleteUnacked, WorkerError,
           PatchFailed, PatchExhausted, GracePeriodEnds
  <2> QED
    BY <2>1 DEF Dispatch, Goto, Structure, DispatcherInv
<1> QED
  BY <1>1, StructureAlways, PTL DEF Spec, DispatchOnce

-----------------------------------------------------------------------------
(* Held holds initially: no instance exists.                                *)
LEMMA HeldInit == Init => Held
BY StructureInit, RequestsAssumption, BoundsAssumption
DEF Init, Held, GraceInv, HeldInv, Runs, NoRun, Present, Live, NonTerminal,
    Working, HandedOver

(* Held is inductive as long as no answer to a dispatch gets lost: an       *)
(* instance that works is that of the live run or of a completed one, and   *)
(* no request is about to settle it.                                        *)
LEMMA HeldStep ==
  ASSUME "dispatch" \notin LostAnswers, Held, [Next]_vars
  PROVE  Held'
<1> USE BoundsAssumption
    DEF Structure, TypeOK, LocalsInv, SentInv, DispatcherInv, OneLiveRun,
        GraceInv, HeldInv, Runs, NoRun, Statuses, Phases, Steps, Present,
        Live, NonTerminal, runVars, workerVars, requestVars, Locals,
        Goto, End, InsertRun, IndexAdmits, Advance, Working, HandedOver,
        DeadVerdict
<1>0. Structure /\ GraceInv /\ HeldInv
  BY DEF Held
<1>1. ASSUME NEW p \in Requests, BeginRelaunch(p)
       PROVE  GraceInv' /\ HeldInv'
  BY <1>0, <1>1 DEF BeginRelaunch
<1>2. ASSUME NEW p \in Requests, BeginJoin(p)
       PROVE  GraceInv' /\ HeldInv'
  BY <1>0, <1>2 DEF BeginJoin
<1>3. ASSUME NEW p \in Requests, CreateInsert(p)
       PROVE  GraceInv' /\ HeldInv'
  BY <1>0, <1>3 DEF CreateInsert
<1>4. ASSUME NEW p \in Requests, CreateCollides(p)
       PROVE  GraceInv' /\ HeldInv'
  BY <1>0, <1>4 DEF CreateCollides
<1>5. ASSUME NEW p \in Requests, CreateRefused(p)
       PROVE  GraceInv' /\ HeldInv'
  BY <1>0, <1>5 DEF CreateRefused
<1>6. ASSUME NEW p \in Requests, ReconcileRead(p)
       PROVE  GraceInv' /\ HeldInv'
  <2>1. CASE \E r \in Runs : Candidate(r)
    <3>1. PICK r \in Runs :
            /\ Candidate(r)
            /\ Goto(p, "reconcile", "probe")
            /\ seen' = [seen EXCEPT ![p] = r]
            /\ observed' = [observed EXCEPT ![p] = status[r]]
            /\ UNCHANGED <<runVars, workerVars, mine>>
      BY <1>6, <2>1 DEF ReconcileRead
    <3> QED
      BY <1>0, <3>1 DEF Candidate
  <2>2. CASE \A r \in Runs : ~Candidate(r)
    <3>1. /\ Goto(p, "reconcile", "relaunch")
          /\ UNCHANGED <<runVars, workerVars, Locals>>
      BY <1>6, <2>2 DEF ReconcileRead
    <3> QED
      BY <1>0, <3>1
  <2> QED
    BY <2>1, <2>2
<1>7. ASSUME NEW p \in Requests, ProbeAnswer(p)
       PROVE  GraceInv' /\ HeldInv'
  BY <1>0, <1>7 DEF ProbeAnswer
<1>8. ASSUME NEW p \in Requests, ProbeOutage(p)
       PROVE  GraceInv' /\ HeldInv'
  BY <1>0, <1>8 DEF ProbeOutage
<1>9. ASSUME NEW p \in Requests, Settle(p)
       PROVE  GraceInv' /\ HeldInv'
  BY <1>0, <1>9 DEF Settle
<1>10. ASSUME NEW p \in Requests, FindNone(p)
       PROVE  GraceInv' /\ HeldInv'
  BY <1>0, <1>10 DEF FindNone
<1>11. ASSUME NEW p \in Requests, FindLatest(p)
       PROVE  GraceInv' /\ HeldInv'
  <2>1. UNCHANGED <<runVars, workerVars>>
    BY <1>11 DEF FindLatest
  <2>2. PICK r \in Present, from \in {"relaunch", "join"} :
           \/ /\ Goto(p, from, "claim")
              /\ seen' = [seen EXCEPT ![p] = r]
              /\ UNCHANGED <<observed, mine>>
           \/ End(p, from)
    BY <1>11 DEF FindLatest
  <2>3. CASE /\ Goto(p, from, "claim")
             /\ seen' = [seen EXCEPT ![p] = r]
             /\ UNCHANGED <<observed, mine>>
    BY <1>0, <2>1, <2>3
  <2>4. CASE End(p, from)
    BY <1>0, <2>1, <2>4
  <2> QED
    BY <2>2, <2>3, <2>4
<1>12. ASSUME NEW p \in Requests, Claim(p)
       PROVE  GraceInv' /\ HeldInv'
  BY <1>0, <1>12 DEF Claim
<1>13. ASSUME NEW p \in Requests, ClaimLost(p)
       PROVE  GraceInv' /\ HeldInv'
  BY <1>0, <1>13 DEF ClaimLost
<1>14. ASSUME NEW p \in Requests, StampRetried(p)
       PROVE  GraceInv' /\ HeldInv'
  BY <1>0, <1>14 DEF StampRetried
<1>15. ASSUME NEW p \in Requests, Dispatch(p)
       PROVE  GraceInv' /\ HeldInv'
  BY <1>0, <1>15 DEF Dispatch
<1>16. ASSUME NEW p \in Requests, DispatchAccepted(p)
       PROVE  GraceInv' /\ HeldInv'
  BY <1>0, <1>16 DEF DispatchAccepted
<1>17. ASSUME NEW p \in Requests, DispatchFails(p)
       PROVE  GraceInv' /\ HeldInv'
  <2>1. mine[p] \in sent /\ mine[p] \in Runs /\ Undelivered(mine[p])
    BY <1>0, <1>17 DEF DispatchFails
  <2>2. GraceInv'
    BY <1>0, <1>17, <2>1 DEF DispatchFails
  <2>3. HeldInv'
    BY <1>0, <1>17, <2>1 DEF DispatchFails, Undelivered
  <2> QED
    BY <2>2, <2>3
<1>18. ASSUME NEW p \in Requests, Crash(p)
       PROVE  GraceInv' /\ HeldInv'
  BY <1>0, <1>18 DEF Crash
<1>19. ASSUME NEW r \in Runs, WorkerAccept(r)
       PROVE  GraceInv' /\ HeldInv'
  BY <1>0, <1>19 DEF WorkerAccept
<1>20. ASSUME NEW r \in Runs, WorkerRejects(r)
       PROVE  GraceInv' /\ HeldInv'
  BY <1>0, <1>20 DEF WorkerRejects
<1>21. ASSUME NEW r \in Runs, StampRunning(r)
       PROVE  GraceInv' /\ HeldInv'
  BY <1>0, <1>21 DEF StampRunning
<1>22. ASSUME NEW r \in Runs, StampRefused(r)
       PROVE  GraceInv' /\ HeldInv'
  BY <1>0, <1>22 DEF StampRefused
<1>23. ASSUME NEW r \in Runs, StampVersion(r)
       PROVE  GraceInv' /\ HeldInv'
  BY <1>0, <1>23 DEF StampVersion
<1>24. ASSUME NEW r \in Runs, WorkerComplete(r)
       PROVE  GraceInv' /\ HeldInv'
  BY <1>0, <1>24 DEF WorkerComplete
<1>25. ASSUME NEW r \in Runs, WorkerCompleteUnacked(r)
       PROVE  GraceInv' /\ HeldInv'
  BY <1>0, <1>25 DEF WorkerCompleteUnacked
<1>26. ASSUME NEW r \in Runs, WorkerError(r)
       PROVE  GraceInv' /\ HeldInv'
  BY <1>0, <1>26 DEF WorkerError
<1>27. ASSUME NEW r \in Runs, PatchFailed(r)
       PROVE  GraceInv' /\ HeldInv'
  BY <1>0, <1>27 DEF PatchFailed
<1>28. ASSUME NEW r \in Runs, PatchExhausted(r)
       PROVE  GraceInv' /\ HeldInv'
  BY <1>0, <1>28 DEF PatchExhausted
<1>29. ASSUME NEW r \in Runs, GracePeriodEnds(r)
       PROVE  GraceInv' /\ HeldInv'
  BY <1>0, <1>29 DEF GracePeriodEnds
<1>30. ASSUME UNCHANGED vars
       PROVE  GraceInv' /\ HeldInv'
  <2>1. UNCHANGED <<minted, status, aged, sent, wire, instance, pc, seen,
                    observed, mine>>
    BY <1>30 DEF vars
  <2>2. GraceInv'
    BY <1>0, <2>1
  <2>3. HeldInv'
    BY <1>0, <2>1
  <2> QED
    BY <2>2, <2>3
<1> HIDE DEF Structure, TypeOK, LocalsInv, SentInv, DispatcherInv, OneLiveRun,
        GraceInv, HeldInv, Runs, NoRun, Statuses, Phases, Steps, Present,
        Live, NonTerminal, runVars, workerVars, requestVars, Locals,
        Goto, End, InsertRun, IndexAdmits, Advance, Working, HandedOver,
        DeadVerdict
<1>31. Structure'
  BY <1>0, StructureStep
<1>32. GraceInv' /\ HeldInv'
  BY <1>1, <1>2, <1>3, <1>4, <1>5, <1>6, <1>7, <1>8, <1>9, <1>10, <1>11, <1>12, <1>13, <1>14, <1>15, <1>16, <1>17, <1>18, <1>19, <1>20, <1>21, <1>22, <1>23, <1>24, <1>25, <1>26, <1>27, <1>28, <1>29, <1>30
  DEF Next, Begin, RequestStep, WorkerStep
<1> QED
  BY <1>31, <1>32 DEF Held

(* Hence Held is an invariant under that assumption.                        *)
LEMMA HeldAlways == "dispatch" \notin LostAnswers /\ Spec => []Held
<1> SUFFICES ASSUME "dispatch" \notin LostAnswers
             PROVE  Spec => []Held
  OBVIOUS
<1>1. Held /\ [Next]_vars => Held'
  BY HeldStep
<1> QED
  BY <1>1, HeldInit, PTL DEF Spec

-----------------------------------------------------------------------------
(* If no answer of the worker gets lost, an instance that is not over is    *)
(* that of the live run.                                                    *)
LEMMA CompletedIsOver ==
  ASSUME LostAnswers = {}, Held, NEW r \in Runs
  PROVE  /\ status[r] = "completed" => instance[r] = "completed"
         /\ Working(r) \/ instance[r] = "failing" => Live(r)
BY DEF Held, HeldInv, Working

(* If no answer of the worker gets lost, a run stays non-terminal for as   *)
(* long as its instance works, so no second analysis starts beside it.     *)
THEOREM WorkStaysUnderClaim ==
  LostAnswers = {} /\ Spec => []WorkUnderClaim
<1> SUFFICES ASSUME LostAnswers = {}
             PROVE  Spec => []WorkUnderClaim
  OBVIOUS
<1>1. Held => WorkUnderClaim
  BY CompletedIsOver DEF WorkUnderClaim
<1>2. "dispatch" \notin LostAnswers
  OBVIOUS
<1> QED
  BY <1>1, <1>2, HeldAlways, PTL

(* If no answer of the worker gets lost, what a run ended with is final.   *)
THEOREM TerminalStaysFinal ==
  LostAnswers = {} /\ Spec => TerminalIsFinal
<1> SUFFICES ASSUME LostAnswers = {}
             PROVE  Spec => TerminalIsFinal
  OBVIOUS
<1>1. ASSUME Held, [Next]_vars
      PROVE  [\A r \in Runs : status[r] \in {"completed", "failed"}
                                 => status'[r] = status[r]]_vars
  <2> SUFFICES ASSUME Next, NEW r \in Runs,
                      status[r] \in {"completed", "failed"}
               PROVE  status'[r] = status[r]
    BY <1>1
  <2> USE <1>1
      DEF Held, Structure, TypeOK, GraceInv, HeldInv, LocalsInv, SentInv,
          Live, NonTerminal, Present, Runs, Working, InsertRun, Goto, Advance
  <2>1. ASSUME NEW p \in Requests, CreateInsert(p) \/ Claim(p)
        PROVE  status'[r] = status[r]
    <3>1. PICK n \in Runs : n = minted + 1 /\ InsertRun(n)
      BY <2>1 DEF CreateInsert, Claim
    <3>2. r # n
      BY <3>1
    <3> QED
      BY <3>1, <3>2
  <2>2. ASSUME NEW p \in Requests, Settle(p)
        PROVE  status'[r] = status[r]
    BY <2>2 DEF Settle
  <2>3. ASSUME NEW p \in Requests, DispatchFails(p)
        PROVE  status'[r] = status[r]
    BY <2>3 DEF DispatchFails, Undelivered
  <2>4. ASSUME NEW q \in Runs,
               StampRunning(q) \/ WorkerComplete(q)
                 \/ WorkerCompleteUnacked(q) \/ PatchFailed(q)
        PROVE  status'[r] = status[r]
    <3>1. Live(q)
      BY <2>4, CompletedIsOver
      DEF StampRunning, WorkerComplete, WorkerCompleteUnacked, PatchFailed
    <3>2. q # r
      BY <3>1
    <3>3. PICK s : status' = [status EXCEPT ![q] = s]
      BY <2>4 DEF StampRunning, WorkerComplete, WorkerCompleteUnacked,
                  PatchFailed
    <3> QED
      BY <3>2, <3>3
  <2>5. CASE UNCHANGED status
    BY <2>5
  <2> QED
    BY <2>1, <2>2, <2>3, <2>4, <2>5
    DEF Next, Begin, RequestStep, WorkerStep, runVars, workerVars,
        BeginRelaunch, BeginJoin, CreateCollides, CreateRefused,
        ReconcileRead, ProbeAnswer, ProbeOutage, FindNone, FindLatest,
        ClaimLost, StampRetried, Dispatch, DispatchAccepted, Crash,
        WorkerAccept, WorkerRejects, StampRefused, StampVersion, WorkerError,
        PatchExhausted, GracePeriodEnds
<1>2. "dispatch" \notin LostAnswers
  OBVIOUS
<1> QED
  BY <1>1, <1>2, HeldAlways, PTL DEF Spec, TerminalIsFinal

-----------------------------------------------------------------------------
(* The stamp.  The non-terminal run is the newest, and while it is, nobody  *)
(* stamps over what its worker has stamped.                                 *)
StampInv ==
    /\ \A r \in Runs : Live(r) => r = minted
    /\ \A r \in Runs : Live(r) /\ instance[r] = "working" => stampedBy = r
    /\ StampMatchesOutput

(* Under Held the stamp is inductive: only insertions, the worker's writes  *)
(* and its progress bear on it.                                            *)
LEMMA StampStep ==
  ASSUME "dispatch" \notin LostAnswers, Held, StampInv, [Next]_vars
  PROVE  StampInv'
<1> USE DEF StampInv, StampMatchesOutput
<1>0. TypeOK /\ HeldInv
  BY DEF Held, Structure
<1>1. ASSUME NEW p \in Requests, CreateInsert(p) \/ Claim(p)
      PROVE  StampInv'
  <2>1. PICK n \in Runs : InsertRun(n)
    BY <1>1 DEF CreateInsert, Claim
  <2>2. UNCHANGED <<instance, stampedBy>>
    BY <1>1 DEF CreateInsert, Claim, workerVars
  <2>3. instance[n] = "absent"
    BY <2>1 DEF InsertRun, Held, Structure, SentInv, TypeOK, Present
  <2> QED
    BY <1>0, <2>1, <2>2, <2>3 DEF InsertRun, IndexAdmits, Live, NonTerminal, TypeOK
<1>2. ASSUME \A r \in Runs : status'[r] = status[r] \/ status'[r] = "failed",
             \A r \in Runs : instance'[r] = "working" => instance[r] = "working",
             UNCHANGED <<minted, stampedBy>>
      PROVE  StampInv'
  BY <1>2 DEF Live, NonTerminal
<1>3. ASSUME NEW p \in Requests, Settle(p) \/ DispatchFails(p)
      PROVE  StampInv'
  BY <1>0, <1>2, <1>3 DEF Settle, DispatchFails, TypeOK, workerVars
<1>4. ASSUME NEW r \in Runs, StampRunning(r)
      PROVE  StampInv'
  <2>1. Live(r)
    BY <1>0, <1>4 DEF StampRunning, Advance, HeldInv
  <2> QED
    BY <1>0, <1>4, <2>1 DEF StampRunning, Advance, TypeOK, Live, NonTerminal
<1>5. ASSUME NEW r \in Runs, StampVersion(r)
      PROVE  StampInv'
  <2>1. Live(r) /\ r = minted
    BY <1>0, <1>5 DEF StampVersion, Advance, HeldInv
  <2>2. \A q \in Runs : Live(q) => q = r
    BY <2>1
  <2> QED
    BY <1>0, <1>5, <2>1, <2>2
    DEF StampVersion, Advance, TypeOK, Live, NonTerminal, runVars
<1>6. ASSUME NEW r \in Runs, WorkerComplete(r)
      PROVE  StampInv'
  <2>1. Live(r) \/ status[r] = "completed"
    BY <1>0, <1>6 DEF WorkerComplete, Advance, HeldInv
  <2>2. r = minted => stampedBy = r
    BY <1>6, <2>1 DEF WorkerComplete, Advance
  <2> QED
    BY <1>0, <1>6, <2>2 DEF WorkerComplete, Advance, TypeOK, Live, NonTerminal
<1>7. ASSUME NEW r \in Runs, PatchFailed(r)
      PROVE  StampInv'
  BY <1>0, <1>2, <1>7 DEF PatchFailed, Advance, TypeOK
<1>8. ASSUME NEW r \in Runs,
             \/ WorkerAccept(r) \/ WorkerRejects(r) \/ StampRefused(r)
             \/ WorkerError(r) \/ PatchExhausted(r) \/ GracePeriodEnds(r)
      PROVE  StampInv'
  BY <1>0, <1>2, <1>8
  DEF WorkerAccept, WorkerRejects, StampRefused, WorkerError, PatchExhausted,
      GracePeriodEnds, Advance, TypeOK, runVars, workerVars
<1>9. ASSUME NEW r \in Runs, WorkerCompleteUnacked(r)
      PROVE  StampInv'
  <2>1. Live(r) \/ status[r] = "completed"
    BY <1>0, <1>9 DEF WorkerCompleteUnacked, HeldInv
  <2>2. r = minted => stampedBy = r
    BY <1>9, <2>1 DEF WorkerCompleteUnacked
  <2> QED
    BY <1>0, <1>9, <2>2
    DEF WorkerCompleteUnacked, TypeOK, Live, NonTerminal, workerVars
<1>10. ASSUME UNCHANGED <<minted, status, instance, stampedBy>>
       PROVE  StampInv'
  BY <1>2, <1>10
<1>11. ASSUME NEW p \in Requests,
              \/ Begin(p) \/ CreateCollides(p) \/ CreateRefused(p)
              \/ ReconcileRead(p) \/ ProbeAnswer(p) \/ ProbeOutage(p)
              \/ FindNone(p) \/ FindLatest(p) \/ ClaimLost(p)
              \/ StampRetried(p) \/ Dispatch(p) \/ DispatchAccepted(p)
              \/ Crash(p)
       PROVE  StampInv'
  BY <1>10, <1>11
  DEF Begin, BeginRelaunch, BeginJoin, CreateCollides, CreateRefused,
      ReconcileRead, ProbeAnswer, ProbeOutage, FindNone, FindLatest, ClaimLost,
      StampRetried, Dispatch, DispatchAccepted, Crash, runVars, workerVars
<1>12. UNCHANGED vars => UNCHANGED <<minted, status, instance, stampedBy>>
  BY DEF vars, runVars, workerVars
<1> QED
  BY <1>1, <1>3, <1>4, <1>5, <1>6, <1>7, <1>8, <1>9, <1>10, <1>11, <1>12
  DEF Next, RequestStep, WorkerStep

(* If no answer to a dispatch gets lost, a repository whose newest run is   *)
(* shown as completed carries the version stamp of that run's worker.      *)
THEOREM StampIsOfOutput == "dispatch" \notin LostAnswers /\ Spec => []StampMatchesOutput
<1> SUFFICES ASSUME "dispatch" \notin LostAnswers
             PROVE  Spec => []StampMatchesOutput
  OBVIOUS
<1>1. Init => StampInv
  BY DEF Init, StampInv, StampMatchesOutput, Live, NonTerminal
<1>2. Held /\ StampInv /\ [Next]_vars => StampInv'
  BY StampStep
<1>3. StampInv => StampMatchesOutput
  BY DEF StampInv
<1> QED
  BY <1>1, <1>2, <1>3, HeldAlways, PTL DEF Spec

-----------------------------------------------------------------------------
(* The holder of the abstract claim is the live run, if there is one ...    *)
LEMMA HolderIsLiveRun ==
  ASSUME OneLiveRun, NEW r \in Runs, Live(r)
  PROVE  ClaimHolder = r
BY DEF OneLiveRun, ClaimHolder

(* ... after a step as well ...                                             *)
LEMMA NextHolderIsLiveRun ==
  ASSUME OneLiveRun', NEW r \in Runs, Live(r)'
  PROVE  ClaimHolder' = r
BY DEF OneLiveRun, ClaimHolder, Live

(* ... and nobody, the claim being free, if there is none.                  *)
LEMMA NextNoHolder ==
  ASSUME \A r \in Runs : ~Live(r)'
  PROVE  ClaimHolder' = NoRun /\ ClaimStage' = "free"
BY DEF ClaimHolder, ClaimStage, Live

(* A step that leaves the documents and the instances alone is a stutter    *)
(* of the abstract claim.                                                   *)
LEMMA SameStage ==
  ASSUME UNCHANGED <<minted, status, instance>>
  PROVE  UNCHANGED <<ClaimHolder, ClaimStage, Present>>
BY DEF ClaimHolder, ClaimStage, Working, Live, Present

(* So is a step of a run that does not hold the claim.                      *)
LEMMA OtherRunsStage ==
  ASSUME OneLiveRun, OneLiveRun', NEW r \in Runs, ~Live(r), ~Live(r)',
         UNCHANGED minted,
         \A q \in Runs \ {r} : status'[q] = status[q] /\ instance'[q] = instance[q]
  PROVE  UNCHANGED Claims!claimVars
<1>0. Runs' = Runs /\ NoRun' = NoRun /\ NoRun \notin Runs /\ Present' = Present
  BY DEF Runs, NoRun, Present
<1>1. \A q \in Runs : Live(q)' <=> Live(q)
  BY DEF Live
<1>2. CASE \E q \in Runs : Live(q)
  <2>1. PICK q \in Runs : Live(q)
    BY <1>2
  <2>2. ClaimHolder = q /\ ClaimHolder' = q /\ q # r /\ q # NoRun
    BY <1>0, <1>1, <2>1, HolderIsLiveRun, NextHolderIsLiveRun
  <2>3. instance'[q] = instance[q]
    BY <2>1, <2>2
  <2>4. ClaimStage' = ClaimStage
    BY <2>2, <2>3 DEF ClaimStage, Working
  <2> QED
    BY <1>0, <2>2, <2>4 DEF Claims!claimVars
<1>3. CASE ~\E q \in Runs : Live(q)
  <2>1. ClaimHolder = NoRun /\ ClaimHolder' = NoRun
    BY <1>1, <1>3, NextNoHolder DEF ClaimHolder
  <2> QED
    BY <1>0, <2>1 DEF ClaimStage, Claims!claimVars
<1> QED
  BY <1>2, <1>3

(* Every step of the runs is a step of the abstract claim or a stutter.     *)
LEMMA ClaimStep ==
  ASSUME "dispatch" \notin LostAnswers, Held, Held', Next
  PROVE  [Claims!Next]_(Claims!claimVars)
<1> USE DEF Claims!Next, Claims!claimVars
<1>0. Structure /\ TypeOK /\ OneLiveRun /\ OneLiveRun' /\ HeldInv /\ SentInv
  BY DEF Held, Structure
<1>1. ASSUME NEW p \in Requests, CreateInsert(p) \/ Claim(p)
      PROVE  \E r \in Runs : Claims!Acquire(r)
  <2>1. PICK r \in Runs : InsertRun(r) /\ UNCHANGED instance
    BY <1>1 DEF CreateInsert, Claim, workerVars
  <2>2. /\ r \notin Present /\ ~Live(r)
        /\ Present' = Present \cup {r}
        /\ Live(r)'
    BY <1>0, <2>1 DEF InsertRun, Present, TypeOK, Live, NonTerminal, Runs
  <2>3. ClaimHolder = NoRun /\ ClaimStage = "free"
    BY <2>1, <2>2 DEF InsertRun, IndexAdmits, ClaimHolder, ClaimStage
  <2>4. ClaimHolder' = r
    BY <1>0, <2>2, NextHolderIsLiveRun
  <2>5. instance'[r] = "absent" /\ r # NoRun
    BY <1>0, <2>1, <2>2 DEF SentInv, Runs, NoRun
  <2>6. ClaimStage' = "held"
    BY <2>4, <2>5 DEF ClaimStage
  <2> QED
    BY <2>2, <2>3, <2>4, <2>6 DEF Claims!Acquire
<1>2. ASSUME NEW r \in Runs, Live(r), status'[r] \in {"completed", "failed"},
             \A q \in Runs \ {r} : status'[q] = status[q], UNCHANGED minted
      PROVE  Claims!Release
  <2>1. ClaimHolder = r /\ r # NoRun
    BY <1>0, <1>2, HolderIsLiveRun DEF Runs, NoRun
  <2>2. \A q \in Runs : ~Live(q)'
    BY <1>0, <1>2 DEF OneLiveRun, Live, NonTerminal
  <2> QED
    BY <1>2, <2>1, <2>2, NextNoHolder DEF Claims!Release, ClaimStage, Present
<1>3. ASSUME NEW r \in Runs, Live(r), Live(r)', UNCHANGED minted
      PROVE  /\ ClaimHolder = r /\ ClaimHolder' = r /\ r # NoRun
             /\ UNCHANGED <<ClaimHolder, Present>>
  BY <1>0, <1>3, HolderIsLiveRun, NextHolderIsLiveRun DEF Runs, NoRun, Present
<1>4. ASSUME UNCHANGED <<minted, status, instance>>
      PROVE  UNCHANGED Claims!claimVars
  BY <1>4, SameStage
<1>5. ASSUME NEW p \in Requests, Settle(p)
      PROVE  Claims!Release \/ UNCHANGED <<minted, status, instance>>
  <2>1. seen[p] \in Runs /\ observed[p] \in NonTerminal
    <3>1. pc[p] \in {"probe", "settle"}
      BY <1>5 DEF Settle, Goto
    <3>2. seen[p] \in Present /\ observed[p] \in NonTerminal
      BY <3>1 DEF Held, Structure, LocalsInv, GraceInv
    <3> QED
      BY <1>0, <3>2, BoundsAssumption DEF TypeOK, Present, Runs
  <2> QED
    BY <1>0, <1>2, <1>5, <2>1 DEF Settle, TypeOK, Live, workerVars
<1>6. ASSUME NEW p \in Requests, DispatchFails(p)
      PROVE  Claims!Release \/ UNCHANGED <<minted, status, instance>>
  <2>1. mine[p] \in Runs /\ mine[p] \in Present /\ Undelivered(mine[p])
    BY <1>6 DEF DispatchFails, Held, Structure, LocalsInv, TypeOK, Present, Runs
  <2>2. status[mine[p]] # "completed" /\ status[mine[p]] # "none"
    BY <1>0, <2>1 DEF HeldInv, Undelivered, TypeOK
  <2>3. CASE Live(mine[p])
    BY <1>0, <1>2, <1>6, <2>1, <2>3 DEF DispatchFails, TypeOK
  <2>4. CASE ~Live(mine[p])
    BY <1>0, <1>6, <2>1, <2>2, <2>4
    DEF DispatchFails, TypeOK, Live, NonTerminal, Statuses, workerVars
  <2> QED
    BY <2>3, <2>4
<1>over. ASSUME NEW r \in Runs, ~Live(r), ~Live(r)', UNCHANGED minted,
                \A q \in Runs \ {r} : status'[q] = status[q] /\ instance'[q] = instance[q]
         PROVE  UNCHANGED Claims!claimVars
  BY <1>0, <1>over, OtherRunsStage
<1>7. ASSUME NEW r \in Runs,
             WorkerComplete(r) \/ WorkerCompleteUnacked(r) \/ PatchFailed(r)
      PROVE  Claims!Release \/ UNCHANGED Claims!claimVars
  <2>1. /\ status'[r] \in {"completed", "failed"} /\ UNCHANGED minted
        /\ \A q \in Runs \ {r} : status'[q] = status[q] /\ instance'[q] = instance[q]
    BY <1>0, <1>7 DEF WorkerComplete, WorkerCompleteUnacked, PatchFailed, Advance,
                      TypeOK, workerVars
  <2>2. CASE Live(r)
    BY <1>2, <2>1, <2>2
  <2>3. CASE ~Live(r)
    BY <1>over, <2>1, <2>3 DEF Live, NonTerminal
  <2> QED
    BY <2>2, <2>3
<1>8. ASSUME NEW r \in Runs, WorkerAccept(r)
      PROVE  Claims!Start
  <2>1. Live(r) /\ Live(r)' /\ instance[r] = "absent" /\ UNCHANGED minted
    BY <1>0, <1>8 DEF WorkerAccept, HeldInv, runVars, Live
  <2>2. instance'[r] = "scheduled"
    BY <1>0, <1>8 DEF WorkerAccept, TypeOK
  <2> QED
    BY <1>3, <2>1, <2>2 DEF Claims!Start, ClaimStage, Working
<1>9. ASSUME NEW r \in Runs, WorkerError(r)
      PROVE  Claims!Stop \/ UNCHANGED Claims!claimVars
  <2>1. /\ Working(r) /\ UNCHANGED <<minted, status>> /\ instance'[r] = "failing"
        /\ \A q \in Runs \ {r} : instance'[q] = instance[q]
    BY <1>0, <1>9 DEF WorkerError, runVars, TypeOK
  <2>2. CASE Live(r)
    <3>1. Live(r)'
      BY <2>1, <2>2 DEF Live
    <3> QED
      BY <1>3, <2>1, <2>2, <3>1 DEF Claims!Stop, ClaimStage, Working
  <2>3. CASE ~Live(r)
    BY <1>over, <2>1, <2>3 DEF Live
  <2> QED
    BY <2>2, <2>3
<1>10. ASSUME NEW r \in Runs, StampRunning(r) \/ StampVersion(r)
       PROVE  UNCHANGED Claims!claimVars
  <2>1. Live(r) /\ Live(r)' /\ Working(r) /\ Working(r)' /\ UNCHANGED minted
    BY <1>0, <1>10 DEF StampRunning, StampVersion, Advance, HeldInv, runVars,
                       Live, NonTerminal, Working, TypeOK
  <2>2. instance[r] # "absent" /\ instance'[r] # "absent"
    BY <2>1 DEF Working
  <2> QED
    BY <1>3, <2>1, <2>2 DEF ClaimStage, Working
<1>11. ASSUME NEW r \in Runs, PatchExhausted(r)
       PROVE  UNCHANGED Claims!claimVars
  <2>1. /\ instance[r] = "failing" /\ instance'[r] = "failed"
        /\ UNCHANGED <<minted, status>>
        /\ \A q \in Runs \ {r} : instance'[q] = instance[q]
    BY <1>0, <1>11 DEF PatchExhausted, Advance, runVars, TypeOK
  <2>2. CASE Live(r)
    <3>1. Live(r)'
      BY <2>1, <2>2 DEF Live
    <3> QED
      BY <1>3, <2>1, <2>2, <3>1 DEF ClaimStage, Working
  <2>3. CASE ~Live(r)
    BY <1>over, <2>1, <2>3 DEF Live
  <2> QED
    BY <2>2, <2>3
<1>12. ASSUME NEW r \in Runs, StampRefused(r)
       PROVE  FALSE
  <2>1. Live(r)
    BY <1>0, <1>12 DEF StampRefused, Advance, HeldInv
  <2> QED
    BY <1>0, <1>12, <2>1 DEF StampRefused, IndexAdmits, OneLiveRun
<1>13. CASE UNCHANGED <<minted, status, instance>>
  BY <1>4, <1>13
<1> HIDE DEF Claims!Next, Claims!claimVars
<1>15. Claims!Release => Claims!Next
  BY DEF Claims!Next
<1>16. Claims!Start => Claims!Next
  BY DEF Claims!Next
<1>17. Claims!Stop => Claims!Next
  BY DEF Claims!Next
<1>18. (\E r \in Runs : Claims!Acquire(r)) => Claims!Next
  BY DEF Claims!Next
<1> QED
  BY <1>1, <1>4, <1>5, <1>6, <1>7, <1>8, <1>9, <1>10, <1>11, <1>12, <1>13,
     <1>15, <1>16, <1>17, <1>18
  DEF Next, Begin, RequestStep, WorkerStep, runVars, workerVars,
      BeginRelaunch, BeginJoin, CreateCollides, CreateRefused,
      ReconcileRead, ProbeAnswer, ProbeOutage, FindNone, FindLatest,
      ClaimLost, StampRetried, Dispatch, DispatchAccepted, Crash,
      WorkerRejects, GracePeriodEnds

(* If no answer to a dispatch gets lost, the non-terminal status of a      *)
(* repository's runs implements the claim of RunClaim: acquired by one new *)
(* run at a time, worked under at most once, released when the work ended. *)
THEOREM RunsImplementClaim ==
  "dispatch" \notin LostAnswers /\ Spec => ImplementsClaim
<1> SUFFICES ASSUME "dispatch" \notin LostAnswers
             PROVE  Spec => Claims!Spec
  BY DEF ImplementsClaim
<1>1. Init => Claims!Init
  BY DEF Init, Claims!Init, ClaimHolder, ClaimStage, Present, Live, NonTerminal,
         Runs, NoRun
<1>2. Held /\ Held' /\ [Next]_vars => [Claims!Next]_(Claims!claimVars)
  <2>1. ASSUME UNCHANGED vars
        PROVE  UNCHANGED Claims!claimVars
    BY <2>1, SameStage DEF vars, runVars, workerVars, Claims!claimVars
  <2> QED
    BY <2>1, ClaimStep
<1> QED
  BY <1>1, <1>2, HeldAlways, PTL DEF Spec, Claims!Spec
=============================================================================
