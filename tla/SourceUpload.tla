---------------------------- MODULE SourceUpload ----------------------------
(***************************************************************************)
(* Materializing a source in blob storage: the worker's activities         *)
(* `clone_repo` and `extract_zip`, several attempts of which may run on    *)
(* one prefix (retries, and analyses at other versions).                   *)
(*                                                                         *)
(* An archive passes through three stages with a bounded queue between     *)
(* each two: the download task, the extractor thread, and the upload task. *)
(* A checkout has two: the walker thread and the upload task.  A stage     *)
(* whose activity has already failed is not cancelled and goes on.         *)
(***************************************************************************)
EXTENDS Naturals, FiniteSets

CONSTANTS
    Attempts,    \* activity executions on the prefix
    Sources,     \* the kinds of source considered
    Sizes,       \* the numbers of files a tree may have
    ChunkQSize,  \* ANALYZE_ZIP_CHUNK_Q_SIZE
    FileQSize    \* ANALYZE_ZIP_FILE_Q_SIZE, ANALYZE_CLONE_FILE_Q_SIZE

SourceKinds == {"archive", "corrupt", "truncated", "checkout"}

ASSUME SizesAssumption ==
    /\ Sizes # {} /\ Sizes \subseteq Nat
    /\ ChunkQSize \in Nat \ {0}
    /\ FileQSize \in Nat \ {0}
ASSUME SourcesAssumption == Sources # {} /\ Sources \subseteq SourceKinds

VARIABLES
    source,     \* what the prefix is the source of
    size,       \* number of files in its tree
    blobs,      \* files uploaded under the prefix
    marked,     \* the blob `<prefix>.done` exists
    step,       \* attempt -> where its coroutine is
    returned,   \* attempt -> files it reported
    download,   \* attempt -> state of stream_download
    put,        \* attempt -> items it put on chunk_q, the closing None included
    got,        \* attempt -> items taken off chunk_q
    walker,     \* attempt -> state of the stream_extract / stream_walk thread
    made,       \* attempt -> files put on file_q
    closed,     \* attempt -> None was put on file_q
    upload,     \* attempt -> state of stream_upload
    taken       \* attempt -> files taken off file_q

given == <<source, size>>
store == <<blobs, marked>>
stages == <<download, put, got, walker, made, closed, upload, taken>>
vars == <<given, store, step, returned, stages>>

Tree == 1..size

\* File i is complete with chunk i; the directory of the archive follows in a
\* chunk of its own, which is the one a truncated archive lacks.
Chunks == IF source = "truncated" THEN size ELSE size + 1

\* The member whose data does not decompress.
BadChunk == 1

Init ==
    /\ source \in Sources
    /\ size \in Sizes
    /\ blobs = {}
    /\ marked = FALSE
    /\ step = [a \in Attempts |-> "idle"]
    /\ returned = [a \in Attempts |-> {}]
    /\ download = [a \in Attempts |-> "off"]
    /\ put = [a \in Attempts |-> 0]
    /\ got = [a \in Attempts |-> 0]
    /\ walker = [a \in Attempts |-> "off"]
    /\ made = [a \in Attempts |-> 0]
    /\ closed = [a \in Attempts |-> FALSE]
    /\ upload = [a \in Attempts |-> "off"]
    /\ taken = [a \in Attempts |-> 0]

Moves(f, a, from, to) == f[a] = from /\ f' = [f EXCEPT ![a] = to]
Advances(f, a) == f' = [f EXCEPT ![a] = @ + 1]

ChunkQHasRoom(a) == put[a] - got[a] < ChunkQSize
FileQHasRoom(a) == made[a] - taken[a] < FileQSize

-----------------------------------------------------------------------------
(* The activities extract_zip and clone_repo, with stream_extract_zip and   *)
(* stream_clone_repo.                                                      *)

\* Mutant: the files are listed without looking for the marker.
MarkerSeenAlways == TRUE

\* Mutant: the marker is looked up under another name.
MarkerSeenNever == FALSE

\* reuse_materialized: whether the marker exists.
MarkerSeen == marked

\* It is looked up first; without it the source is to be materialized.
Look(a) ==
    /\ Moves(step, a, "idle", IF MarkerSeen THEN "listing" ELSE "opening")
    /\ UNCHANGED <<given, store, returned, stages>>

\* Only then are the files listed; a prefix without any is materialized
\* again.
List(a) ==
    /\ IF blobs = {}
       THEN Moves(step, a, "listing", "opening") /\ UNCHANGED returned
       ELSE /\ Moves(step, a, "listing", "reporting")
            /\ returned' = [returned EXCEPT ![a] = blobs]
    /\ UNCHANGED <<given, store, stages>>

\* The stages are started once the archive is open or the commit is checked
\* out, whatever other attempts did to the prefix since.
StartStages(a) ==
    /\ Moves(step, a, "opening", "streaming")
    /\ walker' = [walker EXCEPT ![a] = CASE source # "checkout" -> "reading"
                                         [] size = 0 -> "closing"
                                         [] OTHER -> "emitting"]
    /\ download' = [download EXCEPT ![a] = IF source = "checkout" THEN "ended"
                                           ELSE "running"]
    /\ upload' = [upload EXCEPT ![a] = "taking"]
    /\ UNCHANGED <<given, store, returned, put, got, made, closed, taken>>

\* gather: both tasks ended; the thread is awaited next.
TasksEnded(a) ==
    /\ download[a] = "ended" /\ upload[a] = "ended"
    /\ Moves(step, a, "streaming", "awaiting")
    /\ UNCHANGED <<given, store, returned, stages>>

\* ... one of them raised, the other is left to itself.
StreamingFails(a) ==
    /\ download[a] = "raised" \/ upload[a] = "raised"
    /\ Moves(step, a, "streaming", "failed")
    /\ UNCHANGED <<given, store, returned, stages>>

\* Mutant: the thread is not awaited.
AwaitWalkerNever(a) ==
    /\ Moves(step, a, "awaiting", "marking")
    /\ UNCHANGED <<given, store, returned, stages>>

\* await extract_future / walk_future, which re-raises what ended the thread.
AwaitWalker(a) ==
    /\ \/ walker[a] = "ended" /\ Moves(step, a, "awaiting", "marking")
       \/ walker[a] = "raised" /\ Moves(step, a, "awaiting", "failed")
    /\ UNCHANGED <<given, store, returned, stages>>

\* mark_materialized, and the paths that were uploaded.  A write of the
\* marker that raises may have been applied.
Mark(a) ==
    /\ \/ /\ Moves(step, a, "marking", "reporting")
          /\ marked' = TRUE
          /\ returned' = [returned EXCEPT ![a] = 1..taken[a]]
       \/ /\ Moves(step, a, "marking", "failed")
          /\ marked' \in {marked, TRUE}
          /\ UNCHANGED returned
    /\ UNCHANGED <<given, blobs, stages>>

\* update_pipeline_run with the number of files.
Report(a) ==
    /\ Moves(step, a, "reporting", "done")
    /\ UNCHANGED <<given, store, returned, stages>>

\* A call raises: a write of the progress, the lookup of the marker, the
\* listing, the clone or the opening of the archive.
CallFails(a) ==
    /\ step[a] \in {"idle", "listing", "opening", "reporting"}
    /\ step' = [step EXCEPT ![a] = "failed"]
    /\ UNCHANGED <<given, store, returned, stages>>

\* The worker process dies with the attempt, or with what still runs of it.
Crash(a) ==
    /\ step[a] # "done"
    /\ step' = [step EXCEPT ![a] = "failed"]
    /\ download' = [download EXCEPT ![a] = "off"]
    /\ walker' = [walker EXCEPT ![a] = "off"]
    /\ upload' = [upload EXCEPT ![a] = "off"]
    /\ UNCHANGED <<given, store, returned, put, got, made, closed, taken>>

-----------------------------------------------------------------------------
(* stream_download.                                                        *)

\* A chunk, or after the last one the None that closes the queue.
DownloadItem(a) ==
    /\ download[a] = "running"
    /\ ChunkQHasRoom(a)
    /\ Advances(put, a)
    /\ download' = [download EXCEPT ![a] = IF put[a] = Chunks THEN "ended"
                                           ELSE "running"]
    /\ UNCHANGED <<given, store, step, returned, got, walker, made, closed,
                   upload, taken>>

\* A read from the archive raises; the queue is not closed.
DownloadFails(a) ==
    /\ put[a] < Chunks
    /\ Moves(download, a, "running", "raised")
    /\ UNCHANGED <<given, store, step, returned, put, got, walker, made,
                   closed, upload, taken>>

-----------------------------------------------------------------------------
(* stream_extract and stream_walk.                                         *)

\* Mutant: the queue is closed at once, the chunks are not drained.
OnExtractionErrorLeave == "aborting"

\* What the thread does next when extraction raised.
OnExtractionError == "draining"

\* The walker thread goes on to state s.
WalkerTo(a, s) == walker' = [walker EXCEPT ![a] = s]

\* The extractor takes a chunk: a file is complete, or does not decompress,
\* or the directory is reached, after which it reads on to the end.  At the
\* None it is finished, unless it was still waiting for the directory.
ExtractItem(a) ==
    /\ walker[a] = "reading"
    /\ got[a] < put[a]
    /\ Advances(got, a)
    /\ LET item == got[a] + 1
       IN  \/ /\ item <= size
              /\ IF source = "corrupt" /\ item = BadChunk
                 THEN WalkerTo(a, OnExtractionError)
                 ELSE WalkerTo(a, "emitting")
           \/ item = size + 1 /\ item <= Chunks /\ WalkerTo(a, "reading")
           \/ /\ item = Chunks + 1
              /\ IF source = "truncated" THEN WalkerTo(a, OnExtractionError)
                 ELSE WalkerTo(a, "closing")
    /\ UNCHANGED <<given, store, step, returned, download, put, made, closed,
                   upload, taken>>

\* file_q.put of a file, awaited by the thread.  A walk is over after the
\* last one.
EmitFile(a) ==
    /\ FileQHasRoom(a)
    /\ Moves(walker, a, "emitting",
             IF source # "checkout" THEN "reading"
             ELSE IF made[a] + 1 = size THEN "closing" ELSE "emitting")
    /\ Advances(made, a)
    /\ UNCHANGED <<given, store, step, returned, download, put, got, closed,
                   upload, taken>>

\* Reading a file of the checkout raises.
WalkFails(a) ==
    /\ source = "checkout"
    /\ Moves(walker, a, "emitting", "aborting")
    /\ UNCHANGED <<given, store, step, returned, download, put, got, made,
                   closed, upload, taken>>

\* Mutant: the queue is read without waiting for an item.
DrainNoWait(a) ==
    /\ walker[a] = "draining"
    /\ Advances(got, a)
    /\ WalkerTo(a, IF got[a] = Chunks THEN "aborting" ELSE "draining")
    /\ UNCHANGED <<given, store, step, returned, download, put, made, closed,
                   upload, taken>>

\* The handler takes further items until it takes a None.
Drain(a) ==
    /\ walker[a] = "draining"
    /\ got[a] < put[a]
    /\ Advances(got, a)
    /\ WalkerTo(a, IF got[a] = Chunks THEN "aborting" ELSE "draining")
    /\ UNCHANGED <<given, store, step, returned, download, put, made, closed,
                   upload, taken>>

\* finally: None goes on file_q, and the thread ends or re-raises.
CloseFileQ(a) ==
    /\ FileQHasRoom(a)
    /\ Moves(walker, a, "closing", "ended") \/ Moves(walker, a, "aborting", "raised")
    /\ closed' = [closed EXCEPT ![a] = TRUE]
    /\ UNCHANGED <<given, store, step, returned, download, put, got, made,
                   upload, taken>>

-----------------------------------------------------------------------------
(* stream_upload.                                                          *)

TakeFile(a) ==
    /\ taken[a] < made[a]
    /\ Moves(upload, a, "taking", "uploading")
    /\ Advances(taken, a)
    /\ UNCHANGED <<given, store, step, returned, download, put, got, walker,
                   made, closed>>

UploadBlob(a) ==
    /\ Moves(upload, a, "uploading", "taking")
    /\ blobs' = blobs \cup {taken[a]}
    /\ UNCHANGED <<given, marked, step, returned, download, put, got, walker,
                   made, closed, taken>>

\* A write that raises may have been applied.
UploadFails(a) ==
    /\ Moves(upload, a, "uploading", "raised")
    /\ blobs' \in {blobs, blobs \cup {taken[a]}}
    /\ UNCHANGED <<given, marked, step, returned, download, put, got, walker,
                   made, closed, taken>>

UploadEnds(a) ==
    /\ closed[a] /\ taken[a] = made[a]
    /\ Moves(upload, a, "taking", "ended")
    /\ UNCHANGED <<given, store, step, returned, download, put, got, walker,
                   made, closed, taken>>

-----------------------------------------------------------------------------
Activity(a) ==
    Look(a) \/ List(a) \/ StartStages(a) \/ TasksEnded(a) \/ StreamingFails(a)
    \/ AwaitWalker(a) \/ Mark(a) \/ Report(a)

Download(a) == DownloadItem(a) \/ DownloadFails(a)

Walk(a) ==
    ExtractItem(a) \/ EmitFile(a) \/ WalkFails(a) \/ Drain(a) \/ CloseFileQ(a)

Upload(a) == TakeFile(a) \/ UploadBlob(a) \/ UploadFails(a) \/ UploadEnds(a)

Next == \E a \in Attempts :
            \/ Activity(a) \/ Download(a) \/ Walk(a) \/ Upload(a)
            \/ CallFails(a) \/ Crash(a)

Spec == Init /\ [][Next]_vars

\* The event loop and the threads keep running what can run.  No failure is
\* counted on to get a stage out of a wait.
Fairness ==
    \A a \in Attempts :
        /\ WF_vars(Activity(a))
        /\ WF_vars(DownloadItem(a))
        /\ WF_vars(ExtractItem(a) \/ EmitFile(a) \/ Drain(a) \/ CloseFileQ(a))
        /\ WF_vars(Upload(a))

FairSpec == Spec /\ Fairness

-----------------------------------------------------------------------------
(* Properties.                                                             *)

TypeOK ==
    /\ source \in Sources /\ size \in Sizes
    /\ blobs \subseteq Tree
    /\ marked \in BOOLEAN
    /\ step \in [Attempts -> {"idle", "listing", "opening", "streaming", "awaiting",
                              "marking", "reporting", "done", "failed"}]
    /\ returned \in [Attempts -> SUBSET Tree]
    /\ download \in [Attempts -> {"off", "running", "ended", "raised"}]
    /\ walker \in [Attempts -> {"off", "reading", "emitting", "draining",
                                "closing", "aborting", "ended", "raised"}]
    /\ upload \in [Attempts -> {"off", "taking", "uploading", "ended", "raised"}]
    /\ closed \in [Attempts -> BOOLEAN]
    /\ put \in [Attempts -> Nat] /\ got \in [Attempts -> Nat]
    /\ made \in [Attempts -> Nat] /\ taken \in [Attempts -> Nat]
    /\ \A a \in Attempts :
        /\ put[a] \in 0..(Chunks + 1) /\ got[a] \in 0..put[a]
        /\ made[a] \in 0..size /\ taken[a] \in 0..made[a]
        /\ put[a] - got[a] <= ChunkQSize

\* The marker means that every file is there: no attempt that failed, died or
\* was cut short leaves one, whatever other attempts do on the same prefix
\* (mark_materialized: "Called only once the last file is up").
MarkedIsComplete == marked => blobs = Tree

\* An attempt that succeeds reports the whole tree, whether it uploaded it or
\* found it (reuse_materialized).
ReportedIsComplete ==
    \A a \in Attempts : step[a] \in {"reporting", "done"} => returned[a] = Tree

\* The activity does not hang: whichever stage fails, no stage is left
\* waiting for another on a queue that nobody fills, drains or closes
\* (stream_extract, stream_walk).
EveryAttemptEnds ==
    \A a \in Attempts : step[a] # "idle" ~> step[a] \in {"done", "failed"}

\* "Keep draining the chunks, or stream_download stays blocked on a full
\* chunk_q and the activity could hang until functionTimeout"
\* (stream_extract), for an archive that ends too early.
TruncatedArchiveIsRefused ==
    \A a \in Attempts :
        source = "truncated" /\ step[a] # "idle" ~> step[a] = "failed"

-----------------------------------------------------------------------------
(* Refinement of SourcePrefix.                                             *)

\* What the orchestration that called attempt a is in for.
OutcomeOf(a) ==
    CASE step[a] \in {"idle", "listing"} -> "pending"
      [] step[a] = "failed" -> "failed"
      [] step[a] = "reporting" -> IF returned[a] = Tree THEN "served" ELSE "misled"
      [] step[a] = "done" -> IF returned[a] = Tree THEN "whole" ELSE "misled"
      [] OTHER -> "filling"

Prefix == INSTANCE SourcePrefix WITH
    Trees <- {1..n : n \in Sizes},
    tree <- Tree,
    files <- blobs,
    published <- marked,
    outcome <- [a \in Attempts |-> OutcomeOf(a)]

\* Whatever calls raise, stages fail, processes die, and stages go on after
\* their attempt failed, to the orchestrations the prefix behaves as
\* SourcePrefix specifies: published only when it is whole, an attempt that
\* looks at a published one with files in it uploads nothing, outcomes final
\* (stream_clone_repo, stream_extract_zip, reuse_materialized).
ImplementsPrefix == Prefix!Spec
=============================================================================
