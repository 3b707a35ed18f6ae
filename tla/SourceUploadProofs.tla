------------------------- MODULE SourceUploadProofs -------------------------
(***************************************************************************)
(* Proofs about SourceUpload, for every number of concurrent attempts, of  *)
(* files (none included) and of queue slots, and every kind of source.     *)
(***************************************************************************)
EXTENDS SourceUpload, TLAPS

(***************************************************************************)
(* The inductive invariant follows one attempt from stage to stage: what   *)
(* its walker has put on the queue is a prefix of the tree, what its       *)
(* upload has taken is a prefix of that and is in the store, and only      *)
(* where both ended does the coroutine reach the marker.                   *)
(***************************************************************************)

\* An attempt that has not started its stages has none.
BeforeStages == {"idle", "listing", "opening"}

IdleInv(a) ==
    step[a] \in BeforeStages =>
        /\ download[a] = "off" /\ walker[a] = "off" /\ upload[a] = "off"
        /\ put[a] = 0 /\ got[a] = 0 /\ made[a] = 0 /\ taken[a] = 0
        /\ ~closed[a]

\* Each chunk that was taken became one file; past the last file, only a
\* complete source leads to the regular end.
WalkerInv(a) ==
    /\ download[a] = "running" => put[a] <= Chunks
    /\ walker[a] = "reading" =>
        /\ source # "checkout"
        /\ made[a] = IF got[a] <= size THEN got[a] ELSE size
    /\ walker[a] = "emitting" => made[a] < size
    /\ walker[a] = "emitting" /\ source # "checkout" => got[a] = made[a] + 1
    /\ walker[a] \in {"closing", "ended"} => made[a] = size
    /\ closed[a] => walker[a] \in {"ended", "raised", "off"}

\* What was taken off the queue is in the store, but for the file in hand.
UploadInv(a) ==
    /\ upload[a] \in {"taking", "ended"} => 1..taken[a] \subseteq blobs
    /\ upload[a] = "uploading" => 1 <= taken[a] /\ 1..(taken[a] - 1) \subseteq blobs
    /\ upload[a] = "ended" => closed[a] /\ taken[a] = made[a]

\* The coroutine lists only a prefix that was published, and is past a wait
\* only when what it waited for ended.
CoroutineInv(a) ==
    /\ step[a] = "listing" => marked
    /\ step[a] \in {"awaiting", "marking"} => upload[a] = "ended"
    /\ step[a] = "marking" => walker[a] = "ended"
    /\ step[a] \in {"reporting", "done"} => upload[a] \in {"off", "ended"}

AttemptInv(a) == IdleInv(a) /\ WalkerInv(a) /\ UploadInv(a) /\ CoroutineInv(a)

Materializing ==
    /\ TypeOK
    /\ \A a \in Attempts : AttemptInv(a)
    /\ MarkedIsComplete
    /\ ReportedIsComplete

\* The two halves of TypeOK: the sets the variables range over, and the
\* bounds of the counters of one attempt.
Steps == {"idle", "listing", "opening", "streaming", "awaiting", "marking",
          "reporting", "done", "failed"}

Kinds ==
    /\ source \in Sources /\ size \in Sizes
    /\ blobs \subseteq Tree
    /\ marked \in BOOLEAN
    /\ step \in [Attempts -> Steps]
    /\ returned \in [Attempts -> SUBSET Tree]
    /\ download \in [Attempts -> {"off", "running", "ended", "raised"}]
    /\ walker \in [Attempts -> {"off", "reading", "emitting", "draining",
                                "closing", "aborting", "ended", "raised"}]
    /\ upload \in [Attempts -> {"off", "taking", "uploading", "ended", "raised"}]
    /\ closed \in [Attempts -> BOOLEAN]
    /\ put \in [Attempts -> Nat] /\ got \in [Attempts -> Nat]
    /\ made \in [Attempts -> Nat] /\ taken \in [Attempts -> Nat]

CounterInv(a) ==
    /\ put[a] <= Chunks + 1 /\ got[a] <= put[a]
    /\ made[a] <= size /\ taken[a] <= made[a]
    /\ put[a] - got[a] <= ChunkQSize

\* The step leaves attempt a as it is.
Untouched(a) ==
    /\ step'[a] = step[a] /\ returned'[a] = returned[a]
    /\ download'[a] = download[a] /\ put'[a] = put[a] /\ got'[a] = got[a]
    /\ walker'[a] = walker[a] /\ made'[a] = made[a] /\ closed'[a] = closed[a]
    /\ upload'[a] = upload[a] /\ taken'[a] = taken[a]

-----------------------------------------------------------------------------
(* What the parts say, in the forms the steps below use.                    *)
LEMMA ChunksFacts ==
  ASSUME size \in Sizes
  PROVE  /\ Chunks \in Nat /\ size \in Nat /\ ChunkQSize \in Nat
         /\ Chunks \in {size, size + 1} /\ (source # "truncated" => Chunks = size + 1)
         /\ given' = given => Chunks' = Chunks /\ size' = size /\ source' = source
BY SizesAssumption DEF Chunks, given

LEMMA TypeOKParts == TypeOK <=> Kinds /\ \A a \in Attempts : CounterInv(a)
<1>1. ASSUME Kinds, NEW a \in Attempts
      PROVE  /\ put[a] \in Nat /\ got[a] \in Nat /\ made[a] \in Nat /\ taken[a] \in Nat
             /\ Chunks \in Nat /\ size \in Nat
  BY <1>1, ChunksFacts DEF Kinds
<1>2. ASSUME Kinds, NEW a \in Attempts
      PROVE  CounterInv(a) <=>
               /\ put[a] \in 0..(Chunks + 1) /\ got[a] \in 0..put[a]
               /\ made[a] \in 0..size /\ taken[a] \in 0..made[a]
               /\ put[a] - got[a] <= ChunkQSize
  BY <1>1, <1>2 DEF CounterInv
<1>3. TypeOK <=> /\ Kinds
                 /\ \A a \in Attempts :
                      /\ put[a] \in 0..(Chunks + 1) /\ got[a] \in 0..put[a]
                      /\ made[a] \in 0..size /\ taken[a] \in 0..made[a]
                      /\ put[a] - got[a] <= ChunkQSize
  BY DEF TypeOK, Kinds, Steps
<1> QED
  BY <1>2, <1>3

LEMMA TypeOKPartsNext ==
  ASSUME given' = given, Kinds', \A a \in Attempts : CounterInv(a)'
  PROVE  TypeOK'
<1>1. /\ size \in Sizes /\ size' = size /\ source' = source
      /\ Chunks' = Chunks /\ Chunks \in Nat /\ size \in Nat
  <2>1. size \in Sizes
    BY DEF Kinds, given
  <2> QED
    BY <2>1, ChunksFacts
<1>2. ASSUME NEW a \in Attempts
      PROVE  put'[a] \in Nat /\ got'[a] \in Nat /\ made'[a] \in Nat /\ taken'[a] \in Nat
  BY DEF Kinds
<1>3. ASSUME NEW a \in Attempts
      PROVE  /\ put'[a] \in 0..(Chunks + 1) /\ got'[a] \in 0..put'[a]
             /\ made'[a] \in 0..size /\ taken'[a] \in 0..made'[a]
             /\ put'[a] - got'[a] <= ChunkQSize
  BY <1>1, <1>2 DEF CounterInv
<1> QED
  BY <1>1, <1>3 DEF TypeOK, Kinds, Steps

LEMMA UntouchedKeeps ==
  ASSUME size \in Sizes, NEW a \in Attempts, AttemptInv(a), CounterInv(a), Untouched(a),
         given' = given, blobs \subseteq blobs', marked => marked'
  PROVE  AttemptInv(a)' /\ CounterInv(a)'
<1>1. Chunks' = Chunks /\ size' = size /\ source' = source
  BY ChunksFacts
<1>2. CounterInv(a)'
  BY <1>1 DEF CounterInv, Untouched
<1>3. IdleInv(a)' /\ CoroutineInv(a)'
  BY DEF AttemptInv, IdleInv, CoroutineInv, Untouched
<1>4. WalkerInv(a)'
  BY <1>1 DEF AttemptInv, WalkerInv, Untouched
<1>5. UploadInv(a)'
  BY DEF AttemptInv, UploadInv, Untouched
<1> QED
  BY <1>2, <1>3, <1>4, <1>5 DEF AttemptInv

(* A step of one attempt: what is left to show of it.                       *)
LEMMA OneAttemptStep ==
  ASSUME Materializing, NEW a \in Attempts, given' = given, blobs \subseteq blobs',
         Kinds', \A b \in Attempts \ {a} : Untouched(b),
         AttemptInv(a)', CounterInv(a)', marked' = marked \/ (marked' /\ blobs = Tree),
         step'[a] \in {"reporting", "done"} => returned'[a] = Tree
  PROVE  Materializing'
<1>same. size \in Sizes /\ size' = size
  BY TypeOKParts DEF Materializing, Kinds, given
<1>1. ASSUME NEW b \in Attempts
      PROVE  AttemptInv(b)' /\ CounterInv(b)'
  <2>1. AttemptInv(b) /\ CounterInv(b)
    BY TypeOKParts DEF Materializing
  <2>2. CASE b = a
    BY <2>2
  <2>3. CASE b # a
    BY <1>same, <2>1, <2>3, UntouchedKeeps
  <2> QED
    BY <2>2, <2>3
<1>2. TypeOK'
  BY <1>1, TypeOKPartsNext
<1>3. ReportedIsComplete'
  <2> SUFFICES ASSUME NEW b \in Attempts,
                      step'[b] \in {"reporting", "done"}
               PROVE  returned'[b] = Tree
    BY <1>same DEF ReportedIsComplete, Tree
  <2>1. CASE b # a
    BY <2>1 DEF Untouched, Materializing, ReportedIsComplete
  <2> QED
    BY <2>1
<1>4. MarkedIsComplete'
  BY <1>same DEF Kinds, MarkedIsComplete, Materializing, Tree
<1> QED
  BY <1>1, <1>2, <1>3, <1>4 DEF Materializing

(* The facts at hand about the attempt that takes the step.                 *)
LEMMA AttemptFacts ==
  ASSUME Materializing, NEW a \in Attempts
  PROVE  /\ Kinds /\ CounterInv(a) /\ MarkedIsComplete
         /\ IdleInv(a) /\ WalkerInv(a) /\ UploadInv(a) /\ CoroutineInv(a)
         /\ step[a] \in {"reporting", "done"} => returned[a] = Tree
         /\ Chunks \in Nat /\ size \in Nat /\ ChunkQSize \in Nat
         /\ Chunks \in {size, size + 1} /\ (source # "truncated" => Chunks = size + 1)
         /\ given' = given => Chunks' = Chunks /\ size' = size /\ source' = source
         /\ put[a] \in Nat /\ got[a] \in Nat /\ made[a] \in Nat /\ taken[a] \in Nat
<1>1. Kinds /\ CounterInv(a)
  BY TypeOKParts DEF Materializing
<1>2. put[a] \in Nat /\ got[a] \in Nat /\ made[a] \in Nat /\ taken[a] \in Nat
  BY <1>1 DEF Kinds
<1>3. size \in Sizes
  BY <1>1 DEF Kinds
<1> QED
  BY <1>1, <1>2, <1>3, ChunksFacts DEF Materializing, AttemptInv, ReportedIsComplete

LEMMA MaterializingInit == Init => Materializing
<1> SUFFICES ASSUME Init
             PROVE  Materializing
  OBVIOUS
<1> USE SizesAssumption DEF Init, Chunks, Tree, Steps
<1>1. TypeOK
  <2>1. \A a \in Attempts :
            /\ put[a] = 0 /\ got[a] = 0 /\ made[a] = 0 /\ taken[a] = 0
    OBVIOUS
  <2>2. Chunks \in Nat
    OBVIOUS
  <2>3. \A a \in Attempts :
            /\ put[a] \in 0..(Chunks + 1) /\ got[a] \in 0..put[a]
            /\ made[a] \in 0..size /\ taken[a] \in 0..made[a]
            /\ put[a] - got[a] <= ChunkQSize
    BY <2>1, <2>2
  <2>4. /\ put \in [Attempts -> Nat] /\ got \in [Attempts -> Nat]
        /\ made \in [Attempts -> Nat] /\ taken \in [Attempts -> Nat]
    OBVIOUS
  <2> QED
    BY <2>3, <2>4 DEF TypeOK
<1>2. \A a \in Attempts : AttemptInv(a)
  BY DEF AttemptInv, IdleInv, BeforeStages, WalkerInv, UploadInv, CoroutineInv
<1>3. MarkedIsComplete /\ ReportedIsComplete
  BY DEF MarkedIsComplete, ReportedIsComplete
<1> QED
  BY <1>1, <1>2, <1>3 DEF Materializing

(* A step of the coroutine that leaves the stages alone.                    *)
LEMMA CoroutineStep ==
  ASSUME Materializing, NEW a \in Attempts, NEW s \in Steps,
         step' = [step EXCEPT ![a] = s],
         s \in BeforeStages => step[a] \in BeforeStages,
         given' = given, blobs' = blobs, UNCHANGED stages,
         returned' \in {returned, [returned EXCEPT ![a] = Tree]},
         marked' = marked \/ (marked' /\ blobs = Tree),
         s \in {"reporting", "done"} => returned'[a] = Tree,
         s = "listing" => marked,
         s \in {"awaiting", "marking"} => upload[a] = "ended",
         s = "marking" => walker[a] = "ended",
         s \in {"reporting", "done"} => upload[a] \in {"off", "ended"}
  PROVE  Materializing'
<1>1. AttemptInv(a) /\ CounterInv(a) /\ Kinds
  BY AttemptFacts DEF AttemptInv
<1>2. /\ download' = download /\ put' = put /\ got' = got /\ walker' = walker
      /\ made' = made /\ closed' = closed /\ upload' = upload /\ taken' = taken
  BY DEF stages
<1>3. step' \in [Attempts -> Steps] /\ step'[a] = s
  BY <1>1 DEF Kinds
<1>4. /\ returned' \in [Attempts -> SUBSET Tree]
      /\ \A b \in Attempts \ {a} : returned'[b] = returned[b] /\ step'[b] = step[b]
  BY <1>1 DEF Kinds
<1>5. Chunks' = Chunks /\ size' = size /\ source' = source
  BY AttemptFacts
<1>6. Kinds'
  BY <1>1, <1>2, <1>3, <1>4, <1>5 DEF Kinds, Tree
<1>7. \A b \in Attempts \ {a} : Untouched(b)
  BY <1>2, <1>4 DEF Untouched
<1>8. CounterInv(a)'
  BY <1>1, <1>2, <1>5 DEF CounterInv
<1>9. IdleInv(a)' /\ CoroutineInv(a)'
  BY <1>1, <1>2, <1>3 DEF AttemptInv, IdleInv, CoroutineInv
<1>10. WalkerInv(a)'
  BY <1>1, <1>2, <1>5 DEF AttemptInv, WalkerInv
<1>11. UploadInv(a)'
  BY <1>1, <1>2 DEF AttemptInv, UploadInv
<1> QED
  BY <1>3, <1>6, <1>7, <1>8, <1>9, <1>10, <1>11, OneAttemptStep DEF AttemptInv

(* A coroutine that reaches the marker has uploaded the tree.               *)
LEMMA MarkingIsWhole ==
  ASSUME Materializing, NEW a \in Attempts, step[a] = "marking"
  PROVE  1..taken[a] = Tree /\ blobs = Tree
<1>1. upload[a] = "ended" /\ walker[a] = "ended"
  BY AttemptFacts DEF CoroutineInv
<1>2. taken[a] = size /\ 1..taken[a] \subseteq blobs
  BY <1>1, AttemptFacts DEF UploadInv, WalkerInv
<1> QED
  BY <1>2, AttemptFacts DEF Kinds, Tree

(* Materializing is inductive: one step of the proof per action.            *)
LEMMA MaterializingStep == Materializing /\ [Next]_vars => Materializing'
<1> SUFFICES ASSUME Materializing, [Next]_vars
             PROVE  Materializing'
  OBVIOUS
<1> USE DEF Moves, Advances, store, stages
<1>look. ASSUME NEW a \in Attempts, Look(a)
         PROVE  Materializing'
  <2>1. CASE marked
    BY <1>look, <2>1, CoroutineStep DEF Look, MarkerSeen, BeforeStages, Steps
  <2>2. CASE ~marked
    BY <1>look, <2>2, CoroutineStep DEF Look, MarkerSeen, BeforeStages, Steps
  <2> QED
    BY <2>1, <2>2
<1>list. ASSUME NEW a \in Attempts, List(a)
         PROVE  Materializing'
  <2>1. CASE blobs = {}
    BY <1>list, <2>1, CoroutineStep DEF List, BeforeStages, Steps
  <2>2. CASE blobs # {}
    <3>1. upload[a] = "off"
      BY <1>list, <2>2, AttemptFacts DEF List, IdleInv, BeforeStages
    <3>2. blobs = Tree /\ Kinds
      BY <1>list, <2>2, AttemptFacts DEF List, CoroutineInv, MarkedIsComplete
    <3> QED
      BY <1>list, <2>2, <3>1, <3>2, CoroutineStep DEF List, BeforeStages, Steps, Kinds
  <2> QED
    BY <2>1, <2>2
<1>start. ASSUME NEW a \in Attempts, StartStages(a)
      PROVE  Materializing'
  <2>1. AttemptInv(a) /\ Kinds
    BY AttemptFacts DEF AttemptInv
  <2>3. Kinds' /\ given' = given /\ blobs \subseteq blobs'
    BY <1>start, <2>1 DEF StartStages, Kinds, Steps, given, Tree
  <2>4. \A b \in Attempts \ {a} : Untouched(b)
    BY <1>start, <2>1 DEF StartStages, Kinds, Untouched
  <2>5. /\ step'[a] = "streaming" /\ upload'[a] = "taking" /\ returned'[a] = returned[a]
        /\ put'[a] = put[a] /\ got'[a] = got[a] /\ made'[a] = made[a]
        /\ closed'[a] = closed[a] /\ taken'[a] = taken[a]
    BY <1>start, <2>1 DEF StartStages, Kinds
  <2>6. /\ step[a] = "opening"
        /\ download'[a] = IF source = "checkout" THEN "ended" ELSE "running"
        /\ walker'[a] = CASE source # "checkout" -> "reading"
                          [] size = 0 -> "closing"
                          [] OTHER -> "emitting"
    BY <1>start, <2>1 DEF StartStages, Kinds
  <2>7. CounterInv(a)'
    BY <2>3, <2>5, <2>6, AttemptFacts DEF CounterInv
  <2>8. IdleInv(a)' /\ CoroutineInv(a)'
    BY <2>5, <2>6, AttemptFacts DEF IdleInv, BeforeStages, CoroutineInv, WalkerInv, UploadInv
  <2>9. WalkerInv(a)'
    BY <2>3, <2>5, <2>6, AttemptFacts DEF IdleInv, BeforeStages, WalkerInv, CounterInv
  <2>10. UploadInv(a)'
    BY <2>3, <2>5, <2>6, AttemptFacts DEF IdleInv, BeforeStages, UploadInv, WalkerInv, CounterInv
  <2>11. marked' = marked \/ (marked' /\ blobs = Tree)
    BY <1>start DEF StartStages
  <2>12. step'[a] \in {"reporting", "done"} => returned'[a] = Tree
    BY <2>5, <2>6, AttemptFacts DEF MarkedIsComplete
  <2> QED
    BY <2>3, <2>4, <2>7, <2>8, <2>9, <2>10, <2>11, <2>12, OneAttemptStep DEF AttemptInv
<1>ended. ASSUME NEW a \in Attempts, TasksEnded(a)
          PROVE  Materializing'
  BY <1>ended, CoroutineStep DEF TasksEnded, BeforeStages, Steps
<1>raised. ASSUME NEW a \in Attempts, StreamingFails(a)
           PROVE  Materializing'
  BY <1>raised, CoroutineStep DEF StreamingFails, BeforeStages, Steps
<1>await. ASSUME NEW a \in Attempts, AwaitWalker(a)
          PROVE  Materializing'
  <2>1. upload[a] = "ended"
    BY <1>await, AttemptFacts DEF AwaitWalker, CoroutineInv
  <2> QED
    BY <1>await, <2>1, CoroutineStep DEF AwaitWalker, BeforeStages, Steps
<1>mark. ASSUME NEW a \in Attempts, Mark(a)
         PROVE  Materializing'
  <2>1. /\ upload[a] = "ended" /\ Kinds
        /\ 1..taken[a] = Tree /\ blobs = Tree
    BY <1>mark, AttemptFacts, MarkingIsWhole DEF Mark, CoroutineInv
  <2>2. CASE step' = [step EXCEPT ![a] = "reporting"] /\ marked' = TRUE
             /\ returned' = [returned EXCEPT ![a] = 1..taken[a]]
    <3>1. returned'[a] = Tree /\ returned' = [returned EXCEPT ![a] = Tree]
      BY <2>1, <2>2 DEF Kinds
    <3> QED
      BY <1>mark, <2>1, <2>2, <3>1, CoroutineStep DEF Mark, BeforeStages, Steps
  <2>3. CASE step' = [step EXCEPT ![a] = "failed"] /\ marked' \in {marked, TRUE}
             /\ UNCHANGED returned
    BY <1>mark, <2>1, <2>3, CoroutineStep DEF Mark, BeforeStages, Steps
  <2> QED
    BY <1>mark, <2>2, <2>3 DEF Mark
<1>report. ASSUME NEW a \in Attempts, Report(a)
           PROVE  Materializing'
  <2>1. returned[a] = Tree /\ upload[a] \in {"off", "ended"}
    BY <1>report, AttemptFacts DEF Report, CoroutineInv
  <2> QED
    BY <1>report, <2>1, CoroutineStep DEF Report, BeforeStages, Steps
<1>call. ASSUME NEW a \in Attempts, CallFails(a)
         PROVE  Materializing'
  BY <1>call, CoroutineStep DEF CallFails, BeforeStages, Steps
<1>crash. ASSUME NEW a \in Attempts, Crash(a)
      PROVE  Materializing'
  <2>1. AttemptInv(a) /\ Kinds
    BY AttemptFacts DEF AttemptInv
  <2>3. Kinds' /\ given' = given /\ blobs \subseteq blobs'
    BY <1>crash, <2>1 DEF Crash, Kinds, Steps, given, Tree
  <2>4. \A b \in Attempts \ {a} : Untouched(b)
    BY <1>crash, <2>1 DEF Crash, Kinds, Untouched
  <2>5. /\ step'[a] = "failed" /\ download'[a] = "off" /\ walker'[a] = "off"
        /\ upload'[a] = "off" /\ returned'[a] = returned[a] /\ put'[a] = put[a]
        /\ got'[a] = got[a] /\ made'[a] = made[a] /\ closed'[a] = closed[a]
        /\ taken'[a] = taken[a]
    BY <1>crash, <2>1 DEF Crash, Kinds
  <2>6. step[a] # "done"
    BY <1>crash, <2>1 DEF Crash, Kinds
  <2>7. CounterInv(a)'
    BY <2>3, <2>5, <2>6, AttemptFacts DEF CounterInv
  <2>8. IdleInv(a)' /\ CoroutineInv(a)'
    BY <2>5, <2>6, AttemptFacts DEF IdleInv, BeforeStages, CoroutineInv, WalkerInv, UploadInv
  <2>9. WalkerInv(a)'
    BY <2>3, <2>5, <2>6, AttemptFacts DEF IdleInv, BeforeStages, WalkerInv, CounterInv
  <2>10. UploadInv(a)'
    BY <2>3, <2>5, <2>6, AttemptFacts DEF IdleInv, BeforeStages, UploadInv, WalkerInv, CounterInv
  <2>11. marked' = marked \/ (marked' /\ blobs = Tree)
    BY <1>crash DEF Crash
  <2>12. step'[a] \in {"reporting", "done"} => returned'[a] = Tree
    BY <2>5, <2>6, AttemptFacts DEF MarkedIsComplete
  <2> QED
    BY <2>3, <2>4, <2>7, <2>8, <2>9, <2>10, <2>11, <2>12, OneAttemptStep DEF AttemptInv
<1>item. ASSUME NEW a \in Attempts, DownloadItem(a)
      PROVE  Materializing'
  <2>1. AttemptInv(a) /\ Kinds
    BY AttemptFacts DEF AttemptInv
  <2>3. Kinds' /\ given' = given /\ blobs \subseteq blobs'
    BY <1>item, <2>1 DEF DownloadItem, ChunkQHasRoom, Kinds, Steps, given, Tree
  <2>4. \A b \in Attempts \ {a} : Untouched(b)
    BY <1>item, <2>1 DEF DownloadItem, ChunkQHasRoom, Kinds, Untouched
  <2>5. /\ put'[a] = put[a] + 1 /\ step'[a] = step[a] /\ returned'[a] = returned[a]
        /\ got'[a] = got[a] /\ walker'[a] = walker[a] /\ made'[a] = made[a]
        /\ closed'[a] = closed[a] /\ upload'[a] = upload[a] /\ taken'[a] = taken[a]
    BY <1>item, <2>1 DEF DownloadItem, ChunkQHasRoom, Kinds
  <2>6. /\ download[a] = "running" /\ put[a] - got[a] < ChunkQSize
        /\ download'[a] = IF put[a] = Chunks THEN "ended" ELSE "running"
    BY <1>item, <2>1 DEF DownloadItem, ChunkQHasRoom, Kinds
  <2>7. CounterInv(a)'
    BY <2>3, <2>5, <2>6, AttemptFacts DEF CounterInv, WalkerInv
  <2>8. IdleInv(a)' /\ CoroutineInv(a)'
    BY <2>5, <2>6, AttemptFacts DEF IdleInv, BeforeStages, CoroutineInv, WalkerInv, UploadInv
  <2>9. WalkerInv(a)'
    BY <2>3, <2>5, <2>6, AttemptFacts DEF IdleInv, BeforeStages, WalkerInv, CounterInv
  <2>10. UploadInv(a)'
    BY <2>3, <2>5, <2>6, AttemptFacts DEF IdleInv, BeforeStages, UploadInv, WalkerInv, CounterInv
  <2>11. marked' = marked \/ (marked' /\ blobs = Tree)
    BY <1>item DEF DownloadItem, ChunkQHasRoom
  <2>12. step'[a] \in {"reporting", "done"} => returned'[a] = Tree
    BY <2>5, <2>6, AttemptFacts DEF MarkedIsComplete
  <2> QED
    BY <2>3, <2>4, <2>7, <2>8, <2>9, <2>10, <2>11, <2>12, OneAttemptStep DEF AttemptInv
<1>cut. ASSUME NEW a \in Attempts, DownloadFails(a)
      PROVE  Materializing'
  <2>1. AttemptInv(a) /\ Kinds
    BY AttemptFacts DEF AttemptInv
  <2>3. Kinds' /\ given' = given /\ blobs \subseteq blobs'
    BY <1>cut, <2>1 DEF DownloadFails, Kinds, Steps, given, Tree
  <2>4. \A b \in Attempts \ {a} : Untouched(b)
    BY <1>cut, <2>1 DEF DownloadFails, Kinds, Untouched
  <2>5. /\ download'[a] = "raised" /\ step'[a] = step[a] /\ returned'[a] = returned[a]
        /\ put'[a] = put[a] /\ got'[a] = got[a] /\ walker'[a] = walker[a]
        /\ made'[a] = made[a] /\ closed'[a] = closed[a] /\ upload'[a] = upload[a]
        /\ taken'[a] = taken[a]
    BY <1>cut, <2>1 DEF DownloadFails, Kinds
  <2>6. download[a] = "running"
    BY <1>cut, <2>1 DEF DownloadFails, Kinds
  <2>7. CounterInv(a)'
    BY <2>3, <2>5, <2>6, AttemptFacts DEF CounterInv
  <2>8. IdleInv(a)' /\ CoroutineInv(a)'
    BY <2>5, <2>6, AttemptFacts DEF IdleInv, BeforeStages, CoroutineInv, WalkerInv, UploadInv
  <2>9. WalkerInv(a)'
    BY <2>3, <2>5, <2>6, AttemptFacts DEF IdleInv, BeforeStages, WalkerInv, CounterInv
  <2>10. UploadInv(a)'
    BY <2>3, <2>5, <2>6, AttemptFacts DEF IdleInv, BeforeStages, UploadInv, WalkerInv, CounterInv
  <2>11. marked' = marked \/ (marked' /\ blobs = Tree)
    BY <1>cut DEF DownloadFails
  <2>12. step'[a] \in {"reporting", "done"} => returned'[a] = Tree
    BY <2>5, <2>6, AttemptFacts DEF MarkedIsComplete
  <2> QED
    BY <2>3, <2>4, <2>7, <2>8, <2>9, <2>10, <2>11, <2>12, OneAttemptStep DEF AttemptInv
<1>extract. ASSUME NEW a \in Attempts, ExtractItem(a)
      PROVE  Materializing'
  <2>1. AttemptInv(a) /\ Kinds
    BY AttemptFacts DEF AttemptInv
  <2>3. Kinds' /\ given' = given /\ blobs \subseteq blobs'
    BY <1>extract, <2>1 DEF ExtractItem, WalkerTo, OnExtractionError, Kinds, Steps, given, Tree
  <2>4. \A b \in Attempts \ {a} : Untouched(b)
    BY <1>extract, <2>1 DEF ExtractItem, WalkerTo, OnExtractionError, Kinds, Untouched
  <2>5. /\ got'[a] = got[a] + 1 /\ step'[a] = step[a] /\ returned'[a] = returned[a]
        /\ download'[a] = download[a] /\ put'[a] = put[a] /\ made'[a] = made[a]
        /\ closed'[a] = closed[a] /\ upload'[a] = upload[a] /\ taken'[a] = taken[a]
    BY <1>extract, <2>1 DEF ExtractItem, WalkerTo, OnExtractionError, Kinds
  <2>6. /\ walker[a] = "reading" /\ got[a] < put[a]
        /\ \/ got[a] + 1 <= size /\ walker'[a] \in {"draining", "emitting"}
           \/ /\ got[a] + 1 = size + 1 /\ got[a] + 1 <= Chunks
              /\ walker'[a] = "reading"
           \/ /\ got[a] + 1 = Chunks + 1
              /\ walker'[a] = IF source = "truncated" THEN "draining" ELSE "closing"
    BY <1>extract, <2>1 DEF ExtractItem, WalkerTo, OnExtractionError, Kinds
  <2>7. CounterInv(a)'
    BY <2>3, <2>5, <2>6, AttemptFacts DEF CounterInv
  <2>8. IdleInv(a)' /\ CoroutineInv(a)'
    BY <2>5, <2>6, AttemptFacts DEF IdleInv, BeforeStages, CoroutineInv, WalkerInv, UploadInv
  <2>9. WalkerInv(a)'
    BY <2>3, <2>5, <2>6, AttemptFacts DEF IdleInv, BeforeStages, WalkerInv, CounterInv
  <2>10. UploadInv(a)'
    BY <2>3, <2>5, <2>6, AttemptFacts DEF IdleInv, BeforeStages, UploadInv, WalkerInv, CounterInv
  <2>11. marked' = marked \/ (marked' /\ blobs = Tree)
    BY <1>extract DEF ExtractItem, WalkerTo, OnExtractionError
  <2>12. step'[a] \in {"reporting", "done"} => returned'[a] = Tree
    BY <2>5, <2>6, AttemptFacts DEF MarkedIsComplete
  <2> QED
    BY <2>3, <2>4, <2>7, <2>8, <2>9, <2>10, <2>11, <2>12, OneAttemptStep DEF AttemptInv
<1>emit. ASSUME NEW a \in Attempts, EmitFile(a)
      PROVE  Materializing'
  <2>1. AttemptInv(a) /\ Kinds
    BY AttemptFacts DEF AttemptInv
  <2>3. Kinds' /\ given' = given /\ blobs \subseteq blobs'
    BY <1>emit, <2>1 DEF EmitFile, FileQHasRoom, Kinds, Steps, given, Tree
  <2>4. \A b \in Attempts \ {a} : Untouched(b)
    BY <1>emit, <2>1 DEF EmitFile, FileQHasRoom, Kinds, Untouched
  <2>5. /\ made'[a] = made[a] + 1 /\ step'[a] = step[a] /\ returned'[a] = returned[a]
        /\ download'[a] = download[a] /\ put'[a] = put[a] /\ got'[a] = got[a]
        /\ closed'[a] = closed[a] /\ upload'[a] = upload[a] /\ taken'[a] = taken[a]
    BY <1>emit, <2>1 DEF EmitFile, FileQHasRoom, Kinds
  <2>6. /\ walker[a] = "emitting"
        /\ walker'[a] = IF source # "checkout" THEN "reading"
                        ELSE IF made[a] + 1 = size THEN "closing" ELSE "emitting"
    BY <1>emit, <2>1 DEF EmitFile, FileQHasRoom, Kinds
  <2>7. CounterInv(a)'
    BY <2>3, <2>5, <2>6, AttemptFacts DEF CounterInv, WalkerInv
  <2>8. IdleInv(a)' /\ CoroutineInv(a)'
    BY <2>5, <2>6, AttemptFacts DEF IdleInv, BeforeStages, CoroutineInv, WalkerInv, UploadInv
  <2>9. WalkerInv(a)'
    BY <2>3, <2>5, <2>6, AttemptFacts DEF IdleInv, BeforeStages, WalkerInv, CounterInv
  <2>10. UploadInv(a)'
    BY <2>3, <2>5, <2>6, AttemptFacts DEF IdleInv, BeforeStages, UploadInv, WalkerInv, CounterInv
  <2>11. marked' = marked \/ (marked' /\ blobs = Tree)
    BY <1>emit DEF EmitFile, FileQHasRoom
  <2>12. step'[a] \in {"reporting", "done"} => returned'[a] = Tree
    BY <2>5, <2>6, AttemptFacts DEF MarkedIsComplete
  <2> QED
    BY <2>3, <2>4, <2>7, <2>8, <2>9, <2>10, <2>11, <2>12, OneAttemptStep DEF AttemptInv
<1>walk. ASSUME NEW a \in Attempts, WalkFails(a)
      PROVE  Materializing'
  <2>1. AttemptInv(a) /\ Kinds
    BY AttemptFacts DEF AttemptInv
  <2>3. Kinds' /\ given' = given /\ blobs \subseteq blobs'
    BY <1>walk, <2>1 DEF WalkFails, Kinds, Steps, given, Tree
  <2>4. \A b \in Attempts \ {a} : Untouched(b)
    BY <1>walk, <2>1 DEF WalkFails, Kinds, Untouched
  <2>5. /\ walker'[a] = "aborting" /\ step'[a] = step[a] /\ returned'[a] = returned[a]
        /\ download'[a] = download[a] /\ put'[a] = put[a] /\ got'[a] = got[a]
        /\ made'[a] = made[a] /\ closed'[a] = closed[a] /\ upload'[a] = upload[a]
        /\ taken'[a] = taken[a]
    BY <1>walk, <2>1 DEF WalkFails, Kinds
  <2>6. walker[a] = "emitting"
    BY <1>walk, <2>1 DEF WalkFails, Kinds
  <2>7. CounterInv(a)'
    BY <2>3, <2>5, <2>6, AttemptFacts DEF CounterInv
  <2>8. IdleInv(a)' /\ CoroutineInv(a)'
    BY <2>5, <2>6, AttemptFacts DEF IdleInv, BeforeStages, CoroutineInv, WalkerInv, UploadInv
  <2>9. WalkerInv(a)'
    BY <2>3, <2>5, <2>6, AttemptFacts DEF IdleInv, BeforeStages, WalkerInv, CounterInv
  <2>10. UploadInv(a)'
    BY <2>3, <2>5, <2>6, AttemptFacts DEF IdleInv, BeforeStages, UploadInv, WalkerInv, CounterInv
  <2>11. marked' = marked \/ (marked' /\ blobs = Tree)
    BY <1>walk DEF WalkFails
  <2>12. step'[a] \in {"reporting", "done"} => returned'[a] = Tree
    BY <2>5, <2>6, AttemptFacts DEF MarkedIsComplete
  <2> QED
    BY <2>3, <2>4, <2>7, <2>8, <2>9, <2>10, <2>11, <2>12, OneAttemptStep DEF AttemptInv
<1>drain. ASSUME NEW a \in Attempts, Drain(a)
      PROVE  Materializing'
  <2>1. AttemptInv(a) /\ Kinds
    BY AttemptFacts DEF AttemptInv
  <2>3. Kinds' /\ given' = given /\ blobs \subseteq blobs'
    BY <1>drain, <2>1 DEF Drain, WalkerTo, Kinds, Steps, given, Tree
  <2>4. \A b \in Attempts \ {a} : Untouched(b)
    BY <1>drain, <2>1 DEF Drain, WalkerTo, Kinds, Untouched
  <2>5. /\ got'[a] = got[a] + 1 /\ step'[a] = step[a] /\ returned'[a] = returned[a]
        /\ download'[a] = download[a] /\ put'[a] = put[a] /\ made'[a] = made[a]
        /\ closed'[a] = closed[a] /\ upload'[a] = upload[a] /\ taken'[a] = taken[a]
    BY <1>drain, <2>1 DEF Drain, WalkerTo, Kinds
  <2>6. /\ walker[a] = "draining" /\ got[a] < put[a]
        /\ walker'[a] \in {"aborting", "draining"}
    BY <1>drain, <2>1 DEF Drain, WalkerTo, Kinds
  <2>7. CounterInv(a)'
    BY <2>3, <2>5, <2>6, AttemptFacts DEF CounterInv
  <2>8. IdleInv(a)' /\ CoroutineInv(a)'
    BY <2>5, <2>6, AttemptFacts DEF IdleInv, BeforeStages, CoroutineInv, WalkerInv, UploadInv
  <2>9. WalkerInv(a)'
    BY <2>3, <2>5, <2>6, AttemptFacts DEF IdleInv, BeforeStages, WalkerInv, CounterInv
  <2>10. UploadInv(a)'
    BY <2>3, <2>5, <2>6, AttemptFacts DEF IdleInv, BeforeStages, UploadInv, WalkerInv, CounterInv
  <2>11. marked' = marked \/ (marked' /\ blobs = Tree)
    BY <1>drain DEF Drain, WalkerTo
  <2>12. step'[a] \in {"reporting", "done"} => returned'[a] = Tree
    BY <2>5, <2>6, AttemptFacts DEF MarkedIsComplete
  <2> QED
    BY <2>3, <2>4, <2>7, <2>8, <2>9, <2>10, <2>11, <2>12, OneAttemptStep DEF AttemptInv
<1>close. ASSUME NEW a \in Attempts, CloseFileQ(a)
      PROVE  Materializing'
  <2>1. AttemptInv(a) /\ Kinds
    BY AttemptFacts DEF AttemptInv
  <2>3. Kinds' /\ given' = given /\ blobs \subseteq blobs'
    BY <1>close, <2>1 DEF CloseFileQ, FileQHasRoom, Kinds, Steps, given, Tree
  <2>4. \A b \in Attempts \ {a} : Untouched(b)
    BY <1>close, <2>1 DEF CloseFileQ, FileQHasRoom, Kinds, Untouched
  <2>5. /\ closed'[a] = TRUE /\ step'[a] = step[a] /\ returned'[a] = returned[a]
        /\ download'[a] = download[a] /\ put'[a] = put[a] /\ got'[a] = got[a]
        /\ made'[a] = made[a] /\ upload'[a] = upload[a] /\ taken'[a] = taken[a]
    BY <1>close, <2>1 DEF CloseFileQ, FileQHasRoom, Kinds
  <2>6. \/ walker[a] = "closing" /\ walker'[a] = "ended"
        \/ walker[a] = "aborting" /\ walker'[a] = "raised"
    BY <1>close, <2>1 DEF CloseFileQ, FileQHasRoom, Kinds
  <2>7. CounterInv(a)'
    BY <2>3, <2>5, <2>6, AttemptFacts DEF CounterInv
  <2>8. IdleInv(a)' /\ CoroutineInv(a)'
    BY <2>5, <2>6, AttemptFacts DEF IdleInv, BeforeStages, CoroutineInv, WalkerInv, UploadInv
  <2>9. WalkerInv(a)'
    BY <2>3, <2>5, <2>6, AttemptFacts DEF IdleInv, BeforeStages, WalkerInv, CounterInv
  <2>10. UploadInv(a)'
    BY <2>3, <2>5, <2>6, AttemptFacts DEF IdleInv, BeforeStages, UploadInv, WalkerInv, CounterInv
  <2>11. marked' = marked \/ (marked' /\ blobs = Tree)
    BY <1>close DEF CloseFileQ, FileQHasRoom
  <2>12. step'[a] \in {"reporting", "done"} => returned'[a] = Tree
    BY <2>5, <2>6, AttemptFacts DEF MarkedIsComplete
  <2> QED
    BY <2>3, <2>4, <2>7, <2>8, <2>9, <2>10, <2>11, <2>12, OneAttemptStep DEF AttemptInv
<1>take. ASSUME NEW a \in Attempts, TakeFile(a)
      PROVE  Materializing'
  <2>1. AttemptInv(a) /\ Kinds
    BY AttemptFacts DEF AttemptInv
  <2>3. Kinds' /\ given' = given /\ blobs \subseteq blobs'
    BY <1>take, <2>1 DEF TakeFile, Kinds, Steps, given, Tree
  <2>4. \A b \in Attempts \ {a} : Untouched(b)
    BY <1>take, <2>1 DEF TakeFile, Kinds, Untouched
  <2>5. /\ upload'[a] = "uploading" /\ taken'[a] = taken[a] + 1 /\ step'[a] = step[a]
        /\ returned'[a] = returned[a] /\ download'[a] = download[a] /\ put'[a] = put[a]
        /\ got'[a] = got[a] /\ walker'[a] = walker[a] /\ made'[a] = made[a]
        /\ closed'[a] = closed[a]
    BY <1>take, <2>1 DEF TakeFile, Kinds
  <2>6. upload[a] = "taking" /\ taken[a] < made[a]
    BY <1>take, <2>1 DEF TakeFile, Kinds
  <2>7. CounterInv(a)'
    BY <2>3, <2>5, <2>6, AttemptFacts DEF CounterInv
  <2>8. IdleInv(a)' /\ CoroutineInv(a)'
    BY <2>5, <2>6, AttemptFacts DEF IdleInv, BeforeStages, CoroutineInv, WalkerInv, UploadInv
  <2>9. WalkerInv(a)'
    BY <2>3, <2>5, <2>6, AttemptFacts DEF IdleInv, BeforeStages, WalkerInv, CounterInv
  <2>10. UploadInv(a)'
    BY <2>3, <2>5, <2>6, AttemptFacts DEF IdleInv, BeforeStages, UploadInv, WalkerInv, CounterInv
  <2>11. marked' = marked \/ (marked' /\ blobs = Tree)
    BY <1>take DEF TakeFile
  <2>12. step'[a] \in {"reporting", "done"} => returned'[a] = Tree
    BY <2>5, <2>6, AttemptFacts DEF MarkedIsComplete
  <2> QED
    BY <2>3, <2>4, <2>7, <2>8, <2>9, <2>10, <2>11, <2>12, OneAttemptStep DEF AttemptInv
<1>blob. ASSUME NEW a \in Attempts, UploadBlob(a)
      PROVE  Materializing'
  <2>1. AttemptInv(a) /\ Kinds
    BY AttemptFacts DEF AttemptInv
  <2>2. taken[a] \in Tree
    BY <1>blob, <2>1, AttemptFacts DEF UploadBlob, AttemptInv, UploadInv, CounterInv, Tree
  <2>3. Kinds' /\ given' = given /\ blobs \subseteq blobs'
    BY <1>blob, <2>1, <2>2 DEF UploadBlob, Kinds, Steps, given, Tree
  <2>4. \A b \in Attempts \ {a} : Untouched(b)
    BY <1>blob, <2>1 DEF UploadBlob, Kinds, Untouched
  <2>5. /\ upload'[a] = "taking" /\ step'[a] = step[a] /\ returned'[a] = returned[a]
        /\ download'[a] = download[a] /\ put'[a] = put[a] /\ got'[a] = got[a]
        /\ walker'[a] = walker[a] /\ made'[a] = made[a] /\ closed'[a] = closed[a]
        /\ taken'[a] = taken[a]
    BY <1>blob, <2>1 DEF UploadBlob, Kinds
  <2>6. /\ upload[a] = "uploading" /\ blobs' = blobs \cup {taken[a]}
    BY <1>blob, <2>1, <2>2 DEF UploadBlob, Kinds
  <2>7. CounterInv(a)'
    BY <2>3, <2>5, <2>6, AttemptFacts DEF CounterInv
  <2>8. IdleInv(a)' /\ CoroutineInv(a)'
    BY <2>5, <2>6, AttemptFacts DEF IdleInv, BeforeStages, CoroutineInv, WalkerInv, UploadInv
  <2>9. WalkerInv(a)'
    BY <2>3, <2>5, <2>6, AttemptFacts DEF IdleInv, BeforeStages, WalkerInv, CounterInv
  <2>10. UploadInv(a)'
    BY <2>3, <2>5, <2>6, AttemptFacts DEF IdleInv, BeforeStages, UploadInv, WalkerInv, CounterInv
  <2>11. marked' = marked \/ (marked' /\ blobs = Tree)
    BY <1>blob, <2>2 DEF UploadBlob
  <2>12. step'[a] \in {"reporting", "done"} => returned'[a] = Tree
    BY <2>5, <2>6, <2>2, AttemptFacts DEF MarkedIsComplete
  <2> QED
    BY <2>3, <2>4, <2>7, <2>8, <2>9, <2>10, <2>11, <2>12, OneAttemptStep DEF AttemptInv
<1>lost. ASSUME NEW a \in Attempts, UploadFails(a)
      PROVE  Materializing'
  <2>1. AttemptInv(a) /\ Kinds
    BY AttemptFacts DEF AttemptInv
  <2>2. taken[a] \in Tree
    BY <1>lost, <2>1, AttemptFacts DEF UploadFails, AttemptInv, UploadInv, CounterInv, Tree
  <2>3. Kinds' /\ given' = given /\ blobs \subseteq blobs'
    BY <1>lost, <2>1, <2>2 DEF UploadFails, Kinds, Steps, given, Tree
  <2>4. \A b \in Attempts \ {a} : Untouched(b)
    BY <1>lost, <2>1 DEF UploadFails, Kinds, Untouched
  <2>5. /\ upload'[a] = "raised" /\ step'[a] = step[a] /\ returned'[a] = returned[a]
        /\ download'[a] = download[a] /\ put'[a] = put[a] /\ got'[a] = got[a]
        /\ walker'[a] = walker[a] /\ made'[a] = made[a] /\ closed'[a] = closed[a]
        /\ taken'[a] = taken[a]
    BY <1>lost, <2>1 DEF UploadFails, Kinds
  <2>6. upload[a] = "uploading"
    BY <1>lost, <2>1 DEF UploadFails, Kinds
  <2>7. CounterInv(a)'
    BY <2>3, <2>5, <2>6, AttemptFacts DEF CounterInv
  <2>8. IdleInv(a)' /\ CoroutineInv(a)'
    BY <2>5, <2>6, AttemptFacts DEF IdleInv, BeforeStages, CoroutineInv, WalkerInv, UploadInv
  <2>9. WalkerInv(a)'
    BY <2>3, <2>5, <2>6, AttemptFacts DEF IdleInv, BeforeStages, WalkerInv, CounterInv
  <2>10. UploadInv(a)'
    BY <2>3, <2>5, <2>6, AttemptFacts DEF IdleInv, BeforeStages, UploadInv, WalkerInv, CounterInv
  <2>11. marked' = marked \/ (marked' /\ blobs = Tree)
    BY <1>lost DEF UploadFails
  <2>12. step'[a] \in {"reporting", "done"} => returned'[a] = Tree
    BY <2>5, <2>6, AttemptFacts DEF MarkedIsComplete
  <2> QED
    BY <2>3, <2>4, <2>7, <2>8, <2>9, <2>10, <2>11, <2>12, OneAttemptStep DEF AttemptInv
<1>over. ASSUME NEW a \in Attempts, UploadEnds(a)
      PROVE  Materializing'
  <2>1. AttemptInv(a) /\ Kinds
    BY AttemptFacts DEF AttemptInv
  <2>3. Kinds' /\ given' = given /\ blobs \subseteq blobs'
    BY <1>over, <2>1 DEF UploadEnds, Kinds, Steps, given, Tree
  <2>4. \A b \in Attempts \ {a} : Untouched(b)
    BY <1>over, <2>1 DEF UploadEnds, Kinds, Untouched
  <2>5. /\ upload'[a] = "ended" /\ step'[a] = step[a] /\ returned'[a] = returned[a]
        /\ download'[a] = download[a] /\ put'[a] = put[a] /\ got'[a] = got[a]
        /\ walker'[a] = walker[a] /\ made'[a] = made[a] /\ closed'[a] = closed[a]
        /\ taken'[a] = taken[a]
    BY <1>over, <2>1 DEF UploadEnds, Kinds
  <2>6. upload[a] = "taking" /\ closed[a] /\ taken[a] = made[a]
    BY <1>over, <2>1 DEF UploadEnds, Kinds
  <2>7. CounterInv(a)'
    BY <2>3, <2>5, <2>6, AttemptFacts DEF CounterInv
  <2>8. IdleInv(a)' /\ CoroutineInv(a)'
    BY <2>5, <2>6, AttemptFacts DEF IdleInv, BeforeStages, CoroutineInv, WalkerInv, UploadInv
  <2>9. WalkerInv(a)'
    BY <2>3, <2>5, <2>6, AttemptFacts DEF IdleInv, BeforeStages, WalkerInv, CounterInv
  <2>10. UploadInv(a)'
    BY <2>3, <2>5, <2>6, AttemptFacts DEF IdleInv, BeforeStages, UploadInv, WalkerInv, CounterInv
  <2>11. marked' = marked \/ (marked' /\ blobs = Tree)
    BY <1>over DEF UploadEnds
  <2>12. step'[a] \in {"reporting", "done"} => returned'[a] = Tree
    BY <2>5, <2>6, AttemptFacts DEF MarkedIsComplete
  <2> QED
    BY <2>3, <2>4, <2>7, <2>8, <2>9, <2>10, <2>11, <2>12, OneAttemptStep DEF AttemptInv
<1>stutter. CASE UNCHANGED vars
  <2>1. /\ given' = given /\ blobs' = blobs /\ marked' = marked
        /\ step' = step /\ returned' = returned /\ download' = download
        /\ put' = put /\ got' = got /\ walker' = walker /\ made' = made
        /\ closed' = closed /\ upload' = upload /\ taken' = taken
    BY <1>stutter DEF vars
  <2>2. Kinds' /\ MarkedIsComplete' /\ ReportedIsComplete'
    BY <2>1, TypeOKParts DEF Kinds, given, Materializing, MarkedIsComplete,
       ReportedIsComplete, Tree
  <2>3. ASSUME NEW b \in Attempts
        PROVE  AttemptInv(b)' /\ CounterInv(b)'
    <3>1. Untouched(b) /\ blobs \subseteq blobs'
      BY <2>1 DEF Untouched
    <3>2. AttemptInv(b) /\ CounterInv(b) /\ size \in Sizes
      BY AttemptFacts DEF AttemptInv, Kinds
    <3> QED
      BY <2>1, <3>1, <3>2, UntouchedKeeps
  <2> QED
    BY <2>1, <2>2, <2>3, TypeOKPartsNext DEF Materializing
<1> QED
  BY <1>look, <1>list, <1>start, <1>ended, <1>raised, <1>await, <1>mark, <1>report,
     <1>call, <1>crash, <1>item, <1>cut, <1>extract, <1>emit, <1>walk, <1>drain,
     <1>close, <1>take, <1>blob, <1>lost, <1>over, <1>stutter
  DEF Next, Activity, Download, Walk, Upload

(* Hence Materializing is an invariant.                                     *)
LEMMA MaterializingAlways == Spec => []Materializing
BY MaterializingInit, MaterializingStep, PTL DEF Spec

-----------------------------------------------------------------------------
(* The variables keep their types; in particular no queue holds more than   *)
(* its size, whichever stages run on after their activity failed.           *)
THEOREM UploadTypes == Spec => []TypeOK
<1>1. Materializing => TypeOK
  BY DEF Materializing
<1> QED
  BY <1>1, MaterializingAlways, PTL

(* mark_materialized: the marker is there only with every file, whatever     *)
(* number of attempts on the prefix failed, died or still run.              *)
THEOREM MarkerIsSound == Spec => []MarkedIsComplete
<1>1. Materializing => MarkedIsComplete
  BY DEF Materializing
<1> QED
  BY <1>1, MaterializingAlways, PTL

(* reuse_materialized: an attempt that succeeds reports the whole tree,      *)
(* whether it uploaded the tree or found it.                                *)
THEOREM ReportIsComplete == Spec => []ReportedIsComplete
<1>1. Materializing => ReportedIsComplete
  BY DEF Materializing
<1> QED
  BY <1>1, MaterializingAlways, PTL

-----------------------------------------------------------------------------
(* What a step of attempt a alone does to the outcomes of the attempts.     *)
LEMMA OutcomeStep ==
  ASSUME NEW a \in Attempts, NEW x, size' = size,
         \A b \in Attempts \ {a} : step'[b] = step[b] /\ returned'[b] = returned[b],
         OutcomeOf(a)' = x
  PROVE  [b \in Attempts |-> OutcomeOf(b)]'
           = [[b \in Attempts |-> OutcomeOf(b)] EXCEPT ![a] = x]
<1>1. \A b \in Attempts \ {a} : OutcomeOf(b)' = OutcomeOf(b)
  BY DEF OutcomeOf, Tree
<1> QED
  BY <1>1

(* The outcomes only depend on where the coroutines are and what they said. *)
LEMMA SameOutcomes ==
  ASSUME UNCHANGED <<size, step, returned>>
  PROVE  UNCHANGED [b \in Attempts |-> OutcomeOf(b)]
BY DEF OutcomeOf, Tree

(* A change of an attempt's outcome, as SourcePrefix writes it.             *)
LEMMA OutcomeEnds ==
  ASSUME NEW a \in Attempts, NEW x, NEW y, OutcomeOf(a) = x, OutcomeOf(a)' = y,
         size' = size,
         \A b \in Attempts \ {a} : step'[b] = step[b] /\ returned'[b] = returned[b]
  PROVE  Prefix!Ends(a, x, y)
BY OutcomeStep DEF Prefix!Ends

(* Every step of the stages is a step of the prefix or a stutter.           *)
LEMMA PrefixStep ==
  ASSUME Materializing, Next
  PROVE  [Prefix!Next]_(Prefix!prefixVars)
<1> USE DEF Moves, Advances, store, stages
<1>kinds. Kinds /\ MarkedIsComplete
  BY TypeOKParts DEF Materializing
<1>same. Tree' = Tree /\ size' = size
  BY DEF Next, Activity, Download, Walk, Upload, Look, List, StartStages, TasksEnded,
      StreamingFails, AwaitWalker, Mark, Report, CallFails, Crash, DownloadItem,
      DownloadFails, ExtractItem, EmitFile, WalkFails, Drain, CloseFileQ, TakeFile,
      UploadBlob, UploadFails, UploadEnds, given, Tree
<1>quiet. ASSUME NEW a \in Attempts, UNCHANGED <<blobs, marked>>,
                 OutcomeOf(a)' = OutcomeOf(a),
                 \A b \in Attempts \ {a} : step'[b] = step[b] /\ returned'[b] = returned[b]
          PROVE  UNCHANGED Prefix!prefixVars
  <2>1. \A b \in Attempts : OutcomeOf(b)' = OutcomeOf(b)
    BY <1>quiet, <1>same DEF OutcomeOf, Tree
  <2> QED
    BY <1>quiet, <1>same, <2>1 DEF Prefix!prefixVars
<1>fails. ASSUME NEW a \in Attempts, UNCHANGED <<blobs, marked>>,
                 step[a] # "done", step'[a] = "failed",
                 \A b \in Attempts \ {a} : step'[b] = step[b] /\ returned'[b] = returned[b]
          PROVE  Prefix!Fail(a) \/ UNCHANGED Prefix!prefixVars
  <2>1. OutcomeOf(a)' = "failed"
    BY <1>fails DEF OutcomeOf
  <2>2. OutcomeOf(a) \in {"pending", "filling", "served", "failed"}
    <3>1. step[a] = "reporting" => returned[a] = Tree
      BY AttemptFacts
    <3> QED
      BY <3>1, <1>fails, <1>kinds DEF OutcomeOf, Kinds, Steps
  <2>3. CASE OutcomeOf(a) = "failed"
    BY <1>fails, <1>quiet, <2>1, <2>3
  <2>4. CASE OutcomeOf(a) \in {"pending", "filling", "served"}
    BY <1>fails, <1>same, <2>1, <2>4, OutcomeEnds DEF Prefix!Fail
  <2> QED
    BY <2>2, <2>3, <2>4
<1>start. ASSUME NEW a \in Attempts, UNCHANGED <<blobs, marked>>, ~marked \/ Tree = {},
                 step[a] \in {"idle", "listing"}, step'[a] = "opening",
                 \A b \in Attempts \ {a} : step'[b] = step[b] /\ returned'[b] = returned[b]
          PROVE  Prefix!Start(a)
  <2>1. OutcomeOf(a) = "pending" /\ OutcomeOf(a)' = "filling"
    BY <1>start DEF OutcomeOf
  <2> QED
    BY <1>start, <1>same, <2>1, OutcomeEnds DEF Prefix!Start
<1>1. ASSUME NEW a \in Attempts, Look(a)
      PROVE  Prefix!Start(a) \/ UNCHANGED Prefix!prefixVars
  <2>1. /\ step[a] = "idle" /\ step'[a] = IF marked THEN "listing" ELSE "opening"
        /\ UNCHANGED <<blobs, marked>>
        /\ \A b \in Attempts \ {a} : step'[b] = step[b] /\ returned'[b] = returned[b]
    BY <1>1, <1>kinds DEF Look, MarkerSeen, Kinds
  <2>2. CASE marked
    <3>1. OutcomeOf(a) = "pending" /\ OutcomeOf(a)' = "pending"
      BY <2>1, <2>2 DEF OutcomeOf
    <3> QED
      BY <2>1, <3>1, <1>quiet
  <2>3. CASE ~marked
    BY <2>1, <2>3, <1>start
  <2> QED
    BY <2>2, <2>3
<1>2. ASSUME NEW a \in Attempts, List(a)
      PROVE  Prefix!Start(a) \/ Prefix!Find(a)
  <2>1. /\ step[a] = "listing" /\ marked /\ blobs = Tree
        /\ UNCHANGED <<blobs, marked>>
        /\ \A b \in Attempts \ {a} : step'[b] = step[b] /\ returned'[b] = returned[b]
    BY <1>2, <1>kinds, AttemptFacts DEF List, Kinds, CoroutineInv, MarkedIsComplete
  <2>2. CASE blobs = {}
    <3>1. step'[a] = "opening"
      BY <1>2, <1>kinds, <2>2 DEF List, Kinds
    <3> QED
      BY <2>1, <2>2, <3>1, <1>start
  <2>3. CASE blobs # {}
    <3>1. step'[a] = "reporting" /\ returned'[a] = Tree
      BY <1>2, <1>kinds, <2>1, <2>3 DEF List, Kinds
    <3>2. OutcomeOf(a) = "pending" /\ OutcomeOf(a)' = "served"
      BY <1>same, <2>1, <3>1 DEF OutcomeOf
    <3> QED
      BY <2>1, <2>3, <3>2, <1>same, OutcomeEnds DEF Prefix!Find
  <2> QED
    BY <2>2, <2>3
<1>3. ASSUME NEW a \in Attempts, UNCHANGED <<blobs, marked>>,
             step[a] \in {"opening", "streaming", "awaiting"},
             step'[a] \in {"streaming", "awaiting", "marking"},
             \A b \in Attempts \ {a} : step'[b] = step[b] /\ returned'[b] = returned[b]
      PROVE  UNCHANGED Prefix!prefixVars
  <2>1. OutcomeOf(a) = "filling" /\ OutcomeOf(a)' = "filling"
    BY <1>3 DEF OutcomeOf
  <2> QED
    BY <1>3, <2>1, <1>quiet
<1>4. ASSUME NEW a \in Attempts, StartStages(a) \/ TasksEnded(a)
      PROVE  UNCHANGED Prefix!prefixVars
  BY <1>3, <1>4, <1>kinds DEF StartStages, TasksEnded, Kinds
<1>5. ASSUME NEW a \in Attempts, StreamingFails(a) \/ CallFails(a) \/ Crash(a)
      PROVE  Prefix!Fail(a) \/ UNCHANGED Prefix!prefixVars
  BY <1>fails, <1>5, <1>kinds DEF StreamingFails, CallFails, Crash, Kinds
<1>6. ASSUME NEW a \in Attempts, AwaitWalker(a)
      PROVE  Prefix!Fail(a) \/ UNCHANGED Prefix!prefixVars
  BY <1>3, <1>fails, <1>6, <1>kinds DEF AwaitWalker, Kinds
<1>7. ASSUME NEW a \in Attempts, Mark(a)
      PROVE  Prefix!Publish(a) \/ Prefix!Fail(a) \/ UNCHANGED Prefix!prefixVars
  <2>1. /\ step[a] = "marking" /\ blobs' = blobs /\ blobs = Tree
        /\ \A b \in Attempts \ {a} : step'[b] = step[b] /\ returned'[b] = returned[b]
        /\ \/ step'[a] = "failed" /\ marked' \in {marked, TRUE}
           \/ step'[a] = "reporting" /\ marked' = TRUE /\ returned'[a] = Tree
    BY <1>7, <1>kinds, MarkingIsWhole DEF Mark, Kinds
  <2>2. CASE step'[a] = "failed" /\ marked' = marked
    BY <1>fails, <2>1, <2>2
  <2>3. CASE step'[a] \in {"failed", "reporting"} /\ marked' = TRUE
    <3>1. OutcomeOf(a) = "filling" /\ OutcomeOf(a)' \in {"failed", "served"}
      BY <1>same, <2>1, <2>3 DEF OutcomeOf
    <3>2. Prefix!Ends(a, "filling", "failed") \/ Prefix!Ends(a, "filling", "served")
      BY <1>same, <2>1, <3>1, OutcomeEnds
    <3> QED
      BY <1>same, <2>1, <2>3, <3>2 DEF Prefix!Publish
  <2> QED
    BY <2>1, <2>2, <2>3
<1>8. ASSUME NEW a \in Attempts, Report(a)
      PROVE  Prefix!Deliver(a)
  <2>1. /\ step[a] = "reporting" /\ step'[a] = "done" /\ UNCHANGED <<blobs, marked>>
        /\ returned[a] = Tree /\ returned'[a] = Tree
        /\ \A b \in Attempts \ {a} : step'[b] = step[b] /\ returned'[b] = returned[b]
    BY <1>8, <1>kinds, AttemptFacts DEF Report, Kinds
  <2>2. OutcomeOf(a) = "served" /\ OutcomeOf(a)' = "whole"
    BY <1>same, <2>1 DEF OutcomeOf
  <2> QED
    BY <1>same, <2>1, <2>2, OutcomeEnds DEF Prefix!Deliver
<1>9. ASSUME NEW a \in Attempts, UploadBlob(a) \/ UploadFails(a)
      PROVE  Prefix!PutFile(a) \/ UNCHANGED Prefix!prefixVars
  <2>1. upload[a] = "uploading" /\ taken[a] \in Tree
    BY <1>9, AttemptFacts DEF UploadBlob, UploadFails, UploadInv, CounterInv, Tree
  <2>2. step[a] \in {"streaming", "failed"}
    BY <2>1, <1>kinds, AttemptFacts DEF Kinds, Steps, IdleInv, BeforeStages, CoroutineInv
  <2>3. OutcomeOf(a) \in {"filling", "failed"}
    BY <2>2 DEF OutcomeOf
  <2>4. UNCHANGED <<marked, step, returned>> /\ blobs' \in {blobs, blobs \cup {taken[a]}}
    BY <1>9 DEF UploadBlob, UploadFails
  <2>5. UNCHANGED [b \in Attempts |-> OutcomeOf(b)]
    BY <1>same, <2>4, SameOutcomes
  <2>6. CASE blobs' = blobs
    BY <1>same, <2>4, <2>5, <2>6 DEF Prefix!prefixVars
  <2>7. CASE blobs' = blobs \cup {taken[a]}
    BY <1>same, <2>1, <2>3, <2>4, <2>5, <2>7 DEF Prefix!PutFile
  <2> QED
    BY <2>4, <2>6, <2>7
<1>10. ASSUME UNCHANGED <<blobs, marked, step, returned>>
       PROVE  UNCHANGED Prefix!prefixVars
  BY <1>10, <1>same, SameOutcomes DEF Prefix!prefixVars
<1>11. ASSUME NEW a \in Attempts,
              Download(a) \/ Walk(a) \/ TakeFile(a) \/ UploadEnds(a)
       PROVE  UNCHANGED Prefix!prefixVars
  BY <1>10, <1>11
  DEF Download, Walk, DownloadItem, DownloadFails, ExtractItem, EmitFile, WalkFails,
      Drain, CloseFileQ, TakeFile, UploadEnds
<1> QED
  BY <1>1, <1>2, <1>4, <1>5, <1>6, <1>7, <1>8, <1>9, <1>11
  DEF Next, Activity, Upload, Prefix!Next

(* Whatever calls raise, stages fail, processes die, and stages go on after *)
(* their attempt failed, the activities implement SourcePrefix: a prefix    *)
(* is published only when it is whole, an attempt that looks at a published *)
(* one with files in it puts none, and a delivery is final.                 *)
THEOREM UploadImplementsPrefix == Spec => ImplementsPrefix
<1>1. Init => Prefix!Init
  BY DEF Init, Prefix!Init, OutcomeOf, Tree
<1>2. Materializing /\ [Next]_vars => [Prefix!Next]_(Prefix!prefixVars)
  <2>1. ASSUME UNCHANGED vars
        PROVE  UNCHANGED Prefix!prefixVars
    BY <2>1, SameOutcomes DEF vars, given, store, Prefix!prefixVars, Tree
  <2> QED
    BY <2>1, PrefixStep
<1> QED
  BY <1>1, <1>2, MaterializingAlways, PTL DEF Spec, Prefix!Spec, ImplementsPrefix
=============================================================================
