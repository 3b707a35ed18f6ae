----------------------------- MODULE ChatThread -----------------------------
(***************************************************************************)
(* One chat thread: its document, its messages with their `active` flags,  *)
(* the checkpoints that the agent graph keeps of it, and the requests that *)
(* start it, continue it, regenerate an answer, switch to another answer,  *)
(* rename it and delete it.                                                *)
(*                                                                         *)
(* Messages form a tree: a turn follows the resting checkpoint of the turn *)
(* before, and regenerating gives another answer at the same place.  The   *)
(* active messages are to be one branch of it.  A checkpoint at which a    *)
(* stream came to rest is named by the number of that stream, 0 being the  *)
(* start of the thread.                                                    *)
(***************************************************************************)
EXTENDS Naturals, Sequences, FiniteSets

CONSTANTS
    MaxStreams,      \* bound: streams of the agent that come to rest
    Interruptible,   \* what a lost client or a failure may cut short: an
                     \* ordinary "turn", a "retry", or the "store" of either
    Overlaps         \* whether a rename or delete may overlap other requests

ASSUME StreamsAssumption == MaxStreams \in Nat \ {0}
ASSUME ScopeAssumption ==
    /\ Interruptible \subseteq {"turn", "retry", "store"}
    /\ Overlaps \in BOOLEAN

Start == 0         \* a thread's beginning, where its first turn branches off
NoMessage == 0

VARIABLES
    thread,       \* "none", "exists" or "deleted"
    hasVariants,  \* `has_variants` of the thread document
    messages,     \* the messages, in the order of their ids
    active,       \* the ids of those with `active`
    rested,       \* number of streams that came to rest
    head,         \* the resting checkpoint the graph last wrote ...
    stale,        \* ... unless a stream that did not come to rest wrote later
    inputBase,    \* the resting checkpoint below the newest input checkpoint
    pc,           \* next step of the request on the conversation
    target,       \* the answer it regenerates or switches to
    parent,       \* the resting checkpoint its turn follows
    copy,         \* `has_variants` of the document it read
    keep,         \* the messages it is about to show
    titler,       \* next step of the request on the title
    titleCopy     \* `has_variants` of the document that one read

document == <<thread, hasVariants>>
store == <<messages, active>>
graph == <<rested, head, stale, inputBase>>
conversation == <<pc, target, parent, copy, keep>>
title == <<titler, titleCopy>>
vars == <<document, store, graph, conversation, title>>

Steps == {"idle", "touch", "enter", "stream", "human", "answer", "supersede",
          "flag", "hide", "show"}

Ids == 1..Len(messages)
Answers == {m \in Ids : messages[m].role = "ai"}
Questions == {m \in Ids : messages[m].role = "human"}
Group(p) == {m \in Ids : messages[m].parent = p}
AnswersAt(p) == Answers \cap Group(p)
ShownAnswers == Answers \cap active

Largest(S) == CHOOSE m \in S : \A k \in S : k <= m
Smallest(S) == CHOOSE m \in S : \A k \in S : m <= k

Init ==
    /\ thread = "none"
    /\ hasVariants = FALSE
    /\ messages = <<>>
    /\ active = {}
    /\ rested = 0
    /\ head = Start
    /\ stale = FALSE
    /\ inputBase = Start
    /\ pc = "idle"
    /\ target = NoMessage
    /\ parent = Start
    /\ copy = FALSE
    /\ keep = {}
    /\ titler = "idle"
    /\ titleCopy = FALSE

Goto(from, to) == pc = from /\ pc' = to

\* The request returns, raises or is cut short.
End(from) ==
    /\ Goto(from, "idle")
    /\ target' = NoMessage
    /\ parent' = Start
    /\ copy' = FALSE
    /\ keep' = {}

\* thread.save(): the document as it was read, inserted if it is gone.
SaveThread(flag) ==
    /\ thread' = "exists"
    /\ hasVariants' = flag

MayBegin == thread = "exists" /\ (Overlaps \/ titler = "idle")

-----------------------------------------------------------------------------
(* Starting and continuing the conversation.                               *)

\* create_chat_stream: the thread, the title task and the first stream.
CreateThread ==
    /\ thread = "none"
    /\ Goto("idle", "enter")
    /\ thread' = "exists"
    /\ titler' = "save"
    /\ titleCopy' = FALSE
    /\ UNCHANGED <<hasVariants, store, graph, target, parent, copy, keep>>

\* resume_chat_stream, on the thread its dependency read.
BeginResume ==
    /\ MayBegin
    /\ Goto("idle", "touch")
    /\ copy' = hasVariants
    /\ UNCHANGED <<document, store, graph, target, parent, keep, title>>

\* retry_message_stream, for an answer that get_verified_retry_target found
\* on the selected branch, with the question it answers.
BeginRetry(m) ==
    /\ MayBegin
    /\ m \in ShownAnswers
    /\ Questions \cap Group(messages[m].parent) # {}
    /\ Goto("idle", "touch")
    /\ copy' = hasVariants
    /\ target' = m
    /\ UNCHANGED <<document, store, graph, parent, keep, title>>

\* update_thread_timestamp.
Touch ==
    /\ Goto("touch", "enter")
    /\ SaveThread(copy)
    /\ UNCHANGED <<store, graph, target, parent, copy, keep, title>>

\* Mutant: the graph's newest checkpoint is taken for a resting one.
SafeStreamStale == IF stale THEN rested + 1 ELSE head

\* _prepare_safe_stream without a checkpoint: the graph's newest one, or if
\* that is not at rest the one below the newest input of the thread.
SafeStream == IF stale THEN inputBase ELSE head

\* _active_leaf_checkpoint_id, asked for when the document that was read says
\* that there are variants.
EntryPoint ==
    IF copy /\ ShownAnswers # {}
    THEN messages[Largest(ShownAnswers)].checkpoint
    ELSE SafeStream

\* The stream begins, and writes the input checkpoint of its message.
EnterTurn ==
    /\ target = NoMessage
    /\ rested < MaxStreams
    /\ Goto("enter", "stream")
    /\ parent' = EntryPoint
    /\ inputBase' = EntryPoint
    /\ stale' = TRUE
    /\ UNCHANGED <<document, store, rested, head, target, copy, keep, title>>

\* ... at the fork point.  A first turn is replayed from its own input
\* checkpoint and writes none.
EnterRetry ==
    /\ target # NoMessage
    /\ rested < MaxStreams
    /\ Goto("enter", "stream")
    /\ parent' = messages[target].parent
    /\ inputBase' = IF parent' = Start THEN inputBase ELSE parent'
    /\ stale' = TRUE
    /\ UNCHANGED <<document, store, rested, head, target, copy, keep, title>>

\* Mutant: the question is stored again with a regenerated answer.
FirstToStoreAlways == "human"

\* persist_human: the question is stored with its first answer only.
FirstToStore == IF target = NoMessage THEN "human" ELSE "answer"

\* The graph comes to rest.
StreamEnds ==
    /\ Goto("stream", FirstToStore)
    /\ rested' = rested + 1
    /\ head' = rested + 1
    /\ stale' = FALSE
    /\ UNCHANGED <<document, store, inputBase, target, parent, copy, keep,
                   title>>

Insert(role) ==
    /\ messages' = Append(messages, [role |-> role, parent |-> parent,
                                     checkpoint |-> head])
    /\ active' = active \cup {Len(messages) + 1}

\* _persist_turn.
InsertHuman ==
    /\ Goto("human", "answer")
    /\ Insert("human")
    /\ UNCHANGED <<document, graph, target, parent, copy, keep, title>>

InsertAnswer ==
    /\ Insert("ai")
    /\ \/ target = NoMessage /\ End("answer")
       \/ /\ target # NoMessage
          /\ Goto("answer", "supersede")
          /\ UNCHANGED <<target, parent, copy, keep>>
    /\ UNCHANGED <<document, graph, title>>

-----------------------------------------------------------------------------
(* _supersede.                                                             *)

\* Mutant: the follow-ups of the superseded answer are left on the branch.
SupersededOnly == {target}

\* The ids from the superseded answer on, the replacement's excepted.
Superseded == {m \in Ids : m >= target /\ m # Len(messages)}

Supersede ==
    /\ Goto("supersede", "flag")
    /\ active' = active \ Superseded
    /\ UNCHANGED <<document, messages, graph, target, parent, copy, keep, title>>

\* Mutant: the flag is not raised.
SetFlagNever ==
    /\ End("flag")
    /\ UNCHANGED <<document, store, graph, title>>

SetFlag ==
    /\ End("flag")
    /\ hasVariants' = (thread = "exists" \/ hasVariants)
    /\ UNCHANGED <<thread, store, graph, title>>

-----------------------------------------------------------------------------
(* select_variant.                                                         *)

\* The answer that continues a branch: the newest active one, or the newest.
Chosen(S) ==
    IF S \cap active # {} THEN Largest(S \cap active) ELSE Largest(S)

\* Mutant: only the chosen answer itself is shown.
FollowUpsNone(a) == {}

\* The walk goes on, below an answer, with the one that is chosen there.
Continued(W) ==
    \A m \in W : LET below == AnswersAt(messages[m].checkpoint)
                 IN  below # {} => Chosen(below) \in W

\* The answers that the walk down from a comes to, a the first of them: the
\* least set that goes on with every step.
Walk(a) ==
    LET steps == {W \in SUBSET Answers : a \in W /\ Continued(W)}
    IN  {b \in Answers : \A W \in steps : b \in W}

\* The turns below answer a, to the end of its branch.
FollowUps(a) ==
    UNION {LET point == messages[m].checkpoint
           IN  IF AnswersAt(point) = {} THEN {}
               ELSE (Questions \cap Group(point)) \cup {Chosen(AnswersAt(point))}
           : m \in Walk(a)}

\* The page offers the other answers to a question it shows; the thread's
\* messages are loaded, and the branch is walked.
BeginSelect(m) ==
    /\ MayBegin
    /\ \E a \in ShownAnswers : m \in AnswersAt(messages[a].parent)
    /\ Goto("idle", "hide")
    /\ target' = m
    /\ keep' = (Questions \cap Group(messages[m].parent)) \cup {m}
                   \cup FollowUps(m)
    /\ UNCHANGED <<document, store, graph, parent, copy, title>>

\* The two range updates.
Hide ==
    /\ Goto("hide", "show")
    /\ active' = {m \in active : m < Smallest(Group(messages[target].parent))}
    /\ UNCHANGED <<document, messages, graph, target, parent, copy, keep, title>>

Show ==
    /\ End("show")
    /\ active' = active \cup keep
    /\ UNCHANGED <<document, messages, graph, title>>

-----------------------------------------------------------------------------
(* What happens to requests, and the requests on the document alone.       *)

Storing == {"human", "answer", "supersede", "flag", "hide", "show"}

\* The client is lost, an await raises, or the process dies.
Interrupt ==
    /\ \E from \in Steps \ {"idle"} :
        /\ from = "stream" /\ target = NoMessage => "turn" \in Interruptible
        /\ from = "stream" /\ target # NoMessage => "retry" \in Interruptible
        /\ from \in Storing => "store" \in Interruptible
        /\ End(from)
    /\ UNCHANGED <<document, store, graph, title>>

\* update_thread_title, on the thread its dependency read.
BeginRename ==
    /\ thread = "exists"
    /\ Overlaps \/ pc = "idle"
    /\ titler = "idle"
    /\ titler' = "save"
    /\ titleCopy' = hasVariants
    /\ UNCHANGED <<document, store, graph, conversation>>

\* ... and the title task of the first stream, which may fail instead.
SaveTitle ==
    /\ titler = "save"
    /\ titler' = "idle"
    /\ titleCopy' = FALSE
    /\ SaveThread(titleCopy) \/ UNCHANGED document
    /\ UNCHANGED <<store, graph, conversation>>

\* delete_thread and delete_threads_by_repo: the document alone.
Delete ==
    /\ thread = "exists"
    /\ Overlaps \/ (pc = "idle" /\ titler = "idle")
    /\ thread' = "deleted"
    /\ UNCHANGED <<hasVariants, store, graph, conversation, title>>

-----------------------------------------------------------------------------
Conversation ==
    \/ CreateThread \/ BeginResume \/ Touch \/ EnterTurn \/ EnterRetry
    \/ StreamEnds \/ InsertHuman \/ InsertAnswer \/ Supersede \/ SetFlag
    \/ Hide \/ Show
    \/ \E m \in Ids : BeginRetry(m) \/ BeginSelect(m)

Next == Conversation \/ Interrupt \/ BeginRename \/ SaveTitle \/ Delete

Spec == Init /\ [][Next]_vars

-----------------------------------------------------------------------------
(* Properties.                                                             *)

\* Types, with what the code's tree walks rely on: a message lies at a resting
\* checkpoint of the graph that is later than the one it follows.
TypeOK ==
    /\ thread \in {"none", "exists", "deleted"}
    /\ hasVariants \in BOOLEAN
    /\ messages \in Seq([role : {"human", "ai"}, parent : 0..MaxStreams,
                         checkpoint : 1..MaxStreams])
    /\ \A m \in Ids : /\ messages[m].parent < messages[m].checkpoint
                      /\ messages[m].checkpoint <= rested
    /\ active \subseteq Ids
    /\ rested \in 0..MaxStreams
    /\ head \in 0..rested
    /\ stale \in BOOLEAN
    /\ inputBase \in 0..rested
    /\ pc \in Steps
    /\ target \in Ids \cup {NoMessage}
    /\ parent \in 0..rested
    /\ copy \in BOOLEAN
    /\ keep \subseteq Ids
    /\ titler \in {"idle", "save"}
    /\ titleCopy \in BOOLEAN

\* Where a shown turn can follow: the start, or a shown answer.
Points == {Start} \cup {messages[a].checkpoint : a \in ShownAnswers}

\* What the page shows is one conversation: every answer follows the start or
\* an answer that is shown, after its question, and a question shows one
\* answer (ChatMessageDocument.active: "lies on the thread's currently
\* selected branch").
OneConversation ==
    pc # "supersede" =>
        \A a \in ShownAnswers :
            /\ messages[a].parent \in Points
            /\ AnswersAt(messages[a].parent) \cap active = {a}
            /\ \E q \in Questions \cap active :
                   q < a /\ messages[q].parent = messages[a].parent

\* No turn that followed what is shown stays hidden: the selected branch runs
\* to its end, whatever was regenerated and selected before (select_variant:
\* "each answer keeps the conversation that grew out of it").
BranchRunsToItsEnd ==
    pc \notin {"supersede", "show"} =>
        \A p \in Points : AnswersAt(p) # {} => AnswersAt(p) \cap active # {}

\* "a turn is one human message with one or more AI answers hanging off it"
\* (_persist_turn): regenerating stores no second question, and no later turn
\* is stored at the place of an earlier one.
OneQuestionPerTurn ==
    \A q, r \in Questions : messages[q].parent = messages[r].parent => q = r

\* The flag by which the reads skip the look for other answers is up before
\* there is one to be found (ChatThreadDocument.has_variants).
FlagCoversVariants ==
    thread = "exists" /\ pc \notin {"supersede", "flag"} =>
        \A a, b \in Answers :
            a # b /\ messages[a].parent = messages[b].parent => hasVariants
=============================================================================
