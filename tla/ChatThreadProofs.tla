--------------------------- MODULE ChatThreadProofs ---------------------------
(***************************************************************************)
(* Proofs about ChatThread, for any number of streams.  TypeOK holds       *)
(* whatever is cut short.  If nothing but the stream of an ordinary turn   *)
(* is, a turn keeps one question and the shown branch runs to its end,     *)
(* whatever renames and deletions overlap; and if these wait for the other *)
(* requests, what is shown is one conversation.                            *)
(***************************************************************************)
EXTENDS ChatThread, WellFoundedInduction, TLAPS

-----------------------------------------------------------------------------
(* The inductive invariant                                                 *)

\* The resting checkpoints that a message follows and that it lies at.
Base(m) == messages[m].parent
Tip(m) == messages[m].checkpoint

\* The selected branch, without an answer that is about to supersede another.
Branch == IF pc = "supersede" THEN active \ {Len(messages)} ELSE active
BranchAnswers == Answers \cap Branch
BranchPoints == {Start} \cup {Tip(a) : a \in BranchAnswers}

\* The messages are a tree: later ones lie at later checkpoints, each follows
\* an answer, and a turn is one question before its answers.
TreeInv ==
    /\ head = rested
    /\ \A m, k \in Ids : m < k => Tip(m) <= Tip(k)
    /\ \A m \in Answers : \A k \in Ids : m < k => Tip(m) < Tip(k)
    /\ \A m \in Ids : Base(m) = Start \/ \E b \in Answers : Tip(b) = Base(m)
    /\ \A a \in Answers : \E q \in Questions : q < a /\ Base(q) = Base(a)
    /\ OneQuestionPerTurn
    /\ \A q \in Questions :
        \/ \E a \in Answers : Base(a) = Base(q)
        \/ pc = "answer" /\ target = NoMessage /\ parent = Base(q)

\* Every stream that came to rest is stored, but for the one being stored.
RestInv ==
    /\ pc \in {"human", "answer"} => rested > 0 /\ \A a \in Answers : Tip(a) < rested
    /\ pc = "human" => \A m \in Ids : Tip(m) < rested
    /\ pc \notin {"human", "answer"} => rested = 0 \/ \E a \in Answers : Tip(a) = rested

\* The document is what its copies say, and its flag is up in time.
DocumentInv ==
    /\ thread = "none" => ~hasVariants /\ titler = "idle"
    /\ pc # "idle" => thread = "exists"
    /\ titler = "save" => thread = "exists" /\ titleCopy = hasVariants /\ target = NoMessage
    /\ pc = "idle" => ~copy
    /\ pc \in {"touch", "enter"} => copy = hasVariants
    /\ hasVariants => Answers # {}
    /\ pc \notin {"supersede", "flag"} =>
        \A a, b \in Answers : a # b /\ Base(a) = Base(b) => hasVariants

\* Where a turn that is being stored will lie: at the end of the branch.
LeafInv ==
    pc \in {"stream", "human", "answer"} /\ target = NoMessage =>
        /\ parent \in BranchPoints
        /\ \A a \in BranchAnswers : Tip(a) <= parent
        /\ AnswersAt(parent) = {}
        /\ IF pc = "answer" THEN \E q \in Questions \cap active : Base(q) = parent
           ELSE Questions \cap Group(parent) = {}

\* What is known of the answer that is regenerated, and of its replacement.
RetryInv ==
    /\ pc \in {"idle", "human"} => target = NoMessage
    /\ pc \in {"supersede", "flag", "hide", "show"} => target \in Answers
    /\ pc \in {"touch", "enter", "stream", "answer", "supersede"} /\ target # NoMessage =>
        target \in ShownAnswers
    /\ pc \in {"stream", "answer"} /\ target # NoMessage => parent = Base(target)
    /\ pc = "supersede" =>
        /\ Len(messages) \in ShownAnswers /\ target < Len(messages)
        /\ Base(Len(messages)) = Base(target)

\* Until there are variants the graph's own place is where the thread ends.
SafeInv ==
    ~hasVariants /\ ~(pc = "stream" /\ target # NoMessage) => SafeStream = rested

\* The branch is a path from the start to a leaf of the tree.
BranchInv ==
    /\ \A a \in BranchAnswers : Base(a) \in BranchPoints
    /\ \A a, b \in BranchAnswers : a < b => Tip(a) <= Base(b)
    /\ \A a \in BranchAnswers : \E q \in Questions \cap active : q < a /\ Base(q) = Base(a)
    /\ \A p \in BranchPoints :
        AnswersAt(p) # {} =>
            \/ AnswersAt(p) \cap Branch # {}
            \/ pc = "show" /\ p = Base(target)

\* What is kept is a path from the chosen answer to a leaf.
KeepsPath(K, m) ==
    /\ m \in K
    /\ \A b \in K : Base(b) >= Base(m) /\ (b = m \/ \E c \in K : Base(b) = Tip(c))
    /\ \A a, b \in K : a < b => Tip(a) <= Base(b)
    /\ \A b \in K : AnswersAt(Tip(b)) # {} => \E c \in K : Base(c) = Tip(b)

SelectInv ==
    /\ pc \in {"hide", "show"} =>
        /\ KeepsPath(Answers \cap keep, target)
        /\ \A b \in Answers \cap keep :
            \E q \in Questions \cap keep : q < b /\ Base(q) = Base(b)
    /\ pc = "hide" => \E a \in ShownAnswers : Base(a) = Base(target)
    /\ pc = "show" =>
        /\ Base(target) \in BranchPoints
        /\ \A a \in BranchAnswers : Tip(a) <= Base(target)

\* The checkpoints that a turn may follow: the start and those of answers.
Grown(p) == p = Start \/ \E b \in Answers : Tip(b) = p

Branching ==
    /\ TreeInv /\ RestInv /\ DocumentInv /\ LeafInv /\ RetryInv
    /\ SafeInv /\ BranchInv /\ SelectInv

-----------------------------------------------------------------------------
(* The first and the last of a set of messages                             *)

LEMMA LeastOfNaturals ==
  ASSUME NEW S, S \subseteq Nat, S # {}
  PROVE  \E x \in S : \A y \in S : x <= y
<1>1. \E x \in S : \A y \in S : ~(<<y, x>> \in OpToRel(<, Nat))
  BY NatLessThanWellFounded, WFMin
<1>2. PICK x \in S : \A y \in S : ~(<<y, x>> \in OpToRel(<, Nat))
  BY <1>1
<1>3. ASSUME NEW y \in S PROVE x <= y
  <2>1. x \in Nat /\ y \in Nat
    OBVIOUS
  <2>2. ~(y < x)
    BY <1>2, <2>1 DEF OpToRel
  <2> HIDE <1>2
  <2> QED
    BY <2>1, <2>2
<1> QED
  BY <1>3

LEMMA SmallestIsLeast ==
  ASSUME NEW S, S \subseteq Nat, S # {}
  PROVE  Smallest(S) \in S /\ \A k \in S : Smallest(S) <= k
BY LeastOfNaturals DEF Smallest

LEMMA LargestIsLast ==
  ASSUME NEW n \in Nat, NEW S, S \subseteq 1..n, S # {}
  PROVE  Largest(S) \in S /\ \A k \in S : k <= Largest(S)
<1> DEFINE T == {k \in Nat : n - k \in S}
<1>1. T # {}
  <2>1. PICK k \in S : TRUE
    OBVIOUS
  <2>2. n - k \in Nat /\ n - (n - k) = k
    BY <2>1
  <2> QED
    BY <2>1, <2>2
<1>2. PICK x \in T : \A y \in T : x <= y
  BY <1>1, LeastOfNaturals
<1>3. n - x \in S
  OBVIOUS
<1>4. ASSUME NEW k \in S PROVE k <= n - x
  <2>1. n - k \in Nat /\ n - (n - k) = k /\ x \in Nat
    BY <1>4
  <2>2. n - k \in T
    BY <2>1
  <2> QED
    BY <1>2, <2>1, <2>2
<1> HIDE DEF T
<1> QED
  BY <1>3, <1>4 DEF Largest

-----------------------------------------------------------------------------
(* The tree of messages                                                    *)

\* What a step that stores no message leaves as it is.
LEMMA SameTree ==
  ASSUME messages' = messages
  PROVE  /\ Ids' = Ids /\ Answers' = Answers /\ Questions' = Questions
         /\ \A m : Base(m)' = Base(m) /\ Tip(m)' = Tip(m)
         /\ \A p : Group(p)' = Group(p) /\ AnswersAt(p)' = AnswersAt(p)
BY DEF Ids, Answers, Questions, Base, Tip, Group, AnswersAt

LEMMA MessageTypes ==
  ASSUME TypeOK
  PROVE  /\ Len(messages) \in Nat /\ Ids \subseteq Nat /\ Ids = 1..Len(messages)
         /\ Answers \subseteq Ids /\ Questions \subseteq Ids
         /\ Answers \cap Questions = {} /\ Answers \cup Questions = Ids
         /\ \A m \in Ids : /\ Base(m) \in Nat /\ Tip(m) \in Nat
                           /\ Base(m) < Tip(m) /\ Tip(m) <= rested
         /\ rested \in Nat /\ parent \in Nat /\ NoMessage \notin Ids
         /\ active \subseteq Ids /\ ShownAnswers \subseteq Answers
<1>1. Len(messages) \in Nat /\ DOMAIN messages = 1..Len(messages) /\ Ids = 1..Len(messages)
  BY DEF TypeOK, Ids
<1>2. \A m \in Ids : messages[m] \in [role : {"human", "ai"}, parent : 0..MaxStreams,
                                      checkpoint : 1..MaxStreams]
  <2> DEFINE R == [role : {"human", "ai"}, parent : 0..MaxStreams,
                   checkpoint : 1..MaxStreams]
  <2>1. messages \in Seq(R)
    BY DEF TypeOK
  <2> HIDE DEF R
  <2>2. \A m \in 1..Len(messages) : messages[m] \in R
    BY <2>1
  <2> QED
    BY <1>1, <2>2 DEF R
<1>3. MaxStreams \in Nat /\ rested \in Nat /\ parent \in Nat
  BY StreamsAssumption DEF TypeOK
<1>4. \A m \in Ids : /\ Base(m) \in Nat /\ Tip(m) \in Nat
                     /\ Base(m) < Tip(m) /\ Tip(m) <= rested
  BY <1>2, <1>3 DEF TypeOK, Base, Tip
<1>5. Answers \cap Questions = {} /\ Answers \cup Questions = Ids
  BY <1>2 DEF Answers, Questions
<1>6. Answers \subseteq Ids /\ Questions \subseteq Ids
  BY DEF Answers, Questions
<1>7. active \subseteq Ids
  BY DEF TypeOK
<1>8. ShownAnswers \subseteq Answers /\ NoMessage \notin Ids
  BY <1>1 DEF ShownAnswers, NoMessage
<1>9. Ids \subseteq Nat
  BY <1>1
<1> QED
  BY <1>1, <1>3, <1>4, <1>5, <1>6, <1>7, <1>8, <1>9

\* What storing a message adds to the tree.
LEMMA InsertGrows ==
  ASSUME TypeOK, NEW role \in {"human", "ai"}, Insert(role)
  PROVE  LET n == Len(messages) + 1 IN
         /\ Len(messages)' = n /\ n \in Nat /\ n \notin Ids
         /\ Ids' = Ids \cup {n} /\ active' = active \cup {n}
         /\ Answers' = IF role = "ai" THEN Answers \cup {n} ELSE Answers
         /\ Questions' = IF role = "human" THEN Questions \cup {n} ELSE Questions
         /\ \A m \in Ids : /\ m < n /\ Base(m)' = Base(m) /\ Tip(m)' = Tip(m)
                           /\ messages'[m] = messages[m]
         /\ messages'[n].role = role
         /\ messages'[n].parent = parent /\ messages'[n].checkpoint = head
         /\ messages'[n] = [role |-> role, parent |-> parent, checkpoint |-> head]
         /\ messages' = Append(messages, messages'[n])
<1> DEFINE n == Len(messages) + 1
           new == [role |-> role, parent |-> parent, checkpoint |-> head]
<1>1. /\ Len(messages) \in Nat /\ DOMAIN messages = 1..Len(messages)
      /\ Ids = 1..Len(messages)
      /\ \E S : messages \in Seq(S)
  BY DEF TypeOK, Ids
<1>2. /\ messages' = Append(messages, new) /\ active' = active \cup {n}
  BY DEF Insert
<1>3. /\ Len(messages') = n /\ messages'[n] = new
      /\ \A m \in Ids : messages'[m] = messages[m]
  BY <1>1, <1>2
<1>4. /\ n \in Nat /\ n \notin Ids /\ Ids' = 1..n /\ Ids' = Ids \cup {n}
      /\ \A m \in Ids : m < n
  BY <1>1, <1>3 DEF Ids
<1> HIDE DEF n
<1>5. /\ new.role = role /\ new.parent = parent /\ new.checkpoint = head
  OBVIOUS
<1> HIDE DEF new
<1>6. /\ \A m \in Ids : Base(m)' = Base(m) /\ Tip(m)' = Tip(m)
      /\ messages'[n].role = role
      /\ messages'[n].parent = parent /\ messages'[n].checkpoint = head
  BY <1>3, <1>4, <1>5 DEF Base, Tip
<1>7. /\ Answers' = IF role = "ai" THEN Answers \cup {n} ELSE Answers
      /\ Questions' = IF role = "human" THEN Questions \cup {n} ELSE Questions
  BY <1>3, <1>4, <1>5 DEF Answers, Questions
<1> QED
  BY <1>2, <1>3, <1>4, <1>6, <1>7 DEF n, new

-----------------------------------------------------------------------------
(* Types                                                                   *)

\* A turn is stored at the graph's own place, later than the one it follows.
Typed ==
    /\ TypeOK
    /\ head = rested
    /\ pc \in {"human", "answer"} => parent < rested
    /\ pc = "stream" => rested < MaxStreams

LEMMA ChosenIsThere ==
  ASSUME TypeOK, NEW S, S \subseteq Ids, S # {}
  PROVE  Chosen(S) \in S
<1>1. Len(messages) \in Nat /\ S \subseteq 1..Len(messages)
  BY MessageTypes
<1> QED
  BY <1>1, LargestIsLast DEF Chosen

LEMMA WalkOfAnswers ==
  ASSUME TypeOK, NEW a
  PROVE  Walk(a) \subseteq Answers /\ FollowUps(a) \subseteq Ids
<1>1. Walk(a) \subseteq Answers
  BY DEF Walk
<1>2. ASSUME NEW m \in Walk(a), AnswersAt(messages[m].checkpoint) # {}
      PROVE  Chosen(AnswersAt(messages[m].checkpoint)) \in Ids
  <2>1. AnswersAt(messages[m].checkpoint) \subseteq Ids
    BY DEF AnswersAt, Answers
  <2> QED
    BY <1>2, <2>1, ChosenIsThere
<1> QED
  BY <1>1, <1>2 DEF FollowUps, Questions

LEMMA EntryIsRested ==
  ASSUME TypeOK
  PROVE  EntryPoint \in 0..rested
<1>1. CASE copy /\ ShownAnswers # {}
  <2>1. Largest(ShownAnswers) \in Ids
    BY <1>1, LargestIsLast, MessageTypes
  <2> QED
    BY <1>1, <2>1, MessageTypes DEF EntryPoint, Tip
<1>2. CASE ~(copy /\ ShownAnswers # {})
  BY <1>2 DEF EntryPoint, SafeStream, TypeOK
<1> QED
  BY <1>1, <1>2

\* The types that storing a message keeps.
LEMMA InsertTypes ==
  ASSUME Typed, NEW role \in {"human", "ai"}, Insert(role), parent < rested,
         rested' = rested
  PROVE  /\ messages' \in Seq([role : {"human", "ai"}, parent : 0..MaxStreams,
                              checkpoint : 1..MaxStreams])
         /\ \A m \in Ids' : /\ messages'[m].parent < messages'[m].checkpoint
                            /\ messages'[m].checkpoint <= rested'
         /\ active' \subseteq Ids' /\ Ids \subseteq Ids'
<1> DEFINE R == [role : {"human", "ai"}, parent : 0..MaxStreams, checkpoint : 1..MaxStreams]
           n == Len(messages) + 1
<1>1. TypeOK /\ head = rested
  BY DEF Typed
<1>2. /\ n \notin Ids /\ Ids' = Ids \cup {n} /\ active' = active \cup {n}
      /\ \A m \in Ids : messages'[m] = messages[m]
      /\ messages'[n].parent = parent /\ messages'[n].checkpoint = head
      /\ messages'[n] = [role |-> role, parent |-> parent, checkpoint |-> head]
      /\ messages' = Append(messages, messages'[n])
  BY <1>1, InsertGrows
<1>3. /\ rested \in 0..MaxStreams /\ parent \in 0..rested /\ MaxStreams \in Nat
      /\ messages \in Seq(R) /\ active \subseteq Ids
      /\ \A m \in Ids : /\ messages[m].parent < messages[m].checkpoint
                        /\ messages[m].checkpoint <= rested
  BY <1>1, StreamsAssumption DEF TypeOK
<1> HIDE DEF n
<1>4. messages'[n] \in R
  <2>1. parent \in 0..MaxStreams /\ head \in 1..MaxStreams
    BY <1>1, <1>3
  <2> QED
    BY <1>2, <2>1
<1> HIDE DEF R
<1>5. messages' \in Seq(R)
  BY <1>2, <1>3, <1>4
<1>6. ASSUME NEW m \in Ids'
      PROVE  /\ messages'[m].parent < messages'[m].checkpoint
             /\ messages'[m].checkpoint <= rested'
  BY <1>1, <1>2, <1>3
<1> QED
  BY <1>2, <1>3, <1>5, <1>6 DEF R

LEMMA TypedInit == Init => Typed
<1> SUFFICES ASSUME Init PROVE Typed
  OBVIOUS
<1>1. messages = <<>> /\ Ids = {} /\ MaxStreams \in Nat \ {0}
  BY StreamsAssumption DEF Init, Ids
<1>2. messages \in Seq([role : {"human", "ai"}, parent : 0..MaxStreams,
                       checkpoint : 1..MaxStreams])
  BY <1>1
<1>3. hasVariants \in BOOLEAN /\ copy \in BOOLEAN /\ stale \in BOOLEAN /\ titleCopy \in BOOLEAN
  BY DEF Init
<1>4. \A m \in Ids : messages[m].parent < messages[m].checkpoint
                   /\ messages[m].checkpoint <= rested
  BY <1>1
<1>5. active \subseteq Ids /\ keep \subseteq Ids
  BY DEF Init
<1>6. /\ rested = 0 /\ head = 0 /\ inputBase = 0 /\ parent = 0 /\ target = NoMessage
      /\ pc = "idle" /\ thread = "none" /\ titler = "idle"
  BY DEF Init, Start
<1>7. rested \in 0..MaxStreams /\ head \in 0..rested /\ inputBase \in 0..rested
      /\ parent \in 0..rested
  BY <1>1, <1>6
<1> QED
  BY <1>2, <1>3, <1>4, <1>5, <1>6, <1>7 DEF Typed, TypeOK, Steps

\* A request that is over has forgotten its variables.
LEMMA EndTypes ==
  ASSUME NEW from, End(from), rested' \in Nat
  PROVE  /\ pc = from /\ pc' = "idle" /\ target' = NoMessage /\ copy' \in BOOLEAN
         /\ parent' = 0 /\ parent' \in 0..rested' /\ keep' \subseteq Ids'
<1>1. /\ pc = from /\ pc' = "idle" /\ target' = NoMessage /\ copy' = FALSE
      /\ parent' = 0 /\ keep' = {}
  BY DEF End, Goto, Start
<1>2. 0 \in 0..rested'
  OBVIOUS
<1>3. copy' \in BOOLEAN
  BY <1>1
<1>4. keep' \subseteq Ids'
  BY <1>1
<1> QED
  BY <1>1, <1>2, <1>3, <1>4

LEMMA TypedStep == Typed /\ [Next]_vars => Typed'
<1> SUFFICES ASSUME Typed, [Next]_vars PROVE Typed'
  OBVIOUS
<1>0. /\ TypeOK /\ head = rested /\ MaxStreams \in Nat
      /\ pc \in {"human", "answer"} => parent < rested
      /\ pc = "stream" => rested < MaxStreams
  BY StreamsAssumption DEF Typed
<1>i. ASSUME messages' = messages PROVE Ids' = Ids
  BY <1>i DEF Ids
<1>a. CASE CreateThread
  BY <1>0, <1>a, <1>i
  DEF CreateThread, Typed, TypeOK, Goto, Steps, store, graph
<1>b. CASE BeginResume
  BY <1>0, <1>b, <1>i
  DEF BeginResume, Typed, TypeOK, Goto, Steps, document, store, graph, title
<1>c. ASSUME NEW m \in Ids, BeginRetry(m) PROVE Typed'
  BY <1>0, <1>c, <1>i
  DEF BeginRetry, Typed, TypeOK, Goto, Steps, document, store, graph, title
<1>d. CASE Touch
  BY <1>0, <1>d, <1>i
  DEF Touch, SaveThread, Typed, TypeOK, Goto, Steps, store, graph, title
<1>e. CASE EnterTurn
  BY <1>0, <1>e, <1>i, EntryIsRested
  DEF EnterTurn, Typed, TypeOK, Goto, Steps, document, store, title
<1>f. CASE EnterRetry
  <2>1. target \in Ids
    BY <1>0, <1>f DEF EnterRetry, TypeOK
  <2>2. Base(target) \in 0..rested
    BY <1>0, <2>1, MessageTypes
  <2>3. parent' \in 0..rested /\ inputBase' \in 0..rested
    BY <1>0, <1>f, <2>2 DEF EnterRetry, Base, TypeOK
  <2> QED
    BY <1>0, <1>f, <1>i, <2>3
    DEF EnterRetry, Typed, TypeOK, Goto, Steps, document, store, title
<1>g. CASE StreamEnds
  <2>1. rested < MaxStreams
    BY <1>0, <1>g DEF StreamEnds, Goto
  <2> QED
    <3>1. /\ rested' = rested + 1 /\ head' = rested + 1 /\ stale' = FALSE
          /\ pc' \in {"human", "answer"}
          /\ UNCHANGED <<thread, hasVariants, messages, active, inputBase, target, parent,
                         copy, keep, titler, titleCopy>>
      BY <1>g DEF StreamEnds, FirstToStore, Goto, document, store, title
    <3>2. /\ rested \in Nat /\ rested' \in 0..MaxStreams /\ head' \in 0..rested'
          /\ inputBase \in 0..rested' /\ parent \in 0..rested' /\ parent < rested'
      BY <1>0, <2>1, <3>1 DEF TypeOK
    <3>3. \A m \in Ids : messages[m].checkpoint <= rested'
      BY <1>0, <3>1, <3>2, MessageTypes DEF Tip
    <3> QED
      BY <1>0, <1>i, <3>1, <3>2, <3>3 DEF Typed, TypeOK, Steps
<1>h. CASE InsertHuman
  BY <1>0, <1>h, InsertTypes
  DEF InsertHuman, Typed, TypeOK, Goto, Steps, document, graph, title
<1>j. CASE InsertAnswer
  <2>1. parent < rested /\ rested' = rested
    BY <1>0, <1>j DEF InsertAnswer, End, Goto, graph
  <2>2. /\ messages' \in Seq([role : {"human", "ai"}, parent : 0..MaxStreams,
                              checkpoint : 1..MaxStreams])
        /\ \A m \in Ids' : /\ messages'[m].parent < messages'[m].checkpoint
                           /\ messages'[m].checkpoint <= rested'
        /\ active' \subseteq Ids' /\ Ids \subseteq Ids'
    BY <1>j, <2>1, InsertTypes DEF InsertAnswer
  <2>3. CASE End("answer")
    BY <1>0, <1>j, <2>2, <2>3, EndTypes
    DEF InsertAnswer, Typed, TypeOK, Steps, document, graph, title
  <2>4. CASE Goto("answer", "supersede") /\ UNCHANGED <<target, parent, copy, keep>>
    BY <1>0, <1>j, <2>2, <2>4
    DEF InsertAnswer, Typed, TypeOK, Goto, Steps, document, graph, title
  <2> QED
    BY <1>j, <2>3, <2>4 DEF InsertAnswer
<1>k. CASE Supersede
  BY <1>0, <1>k, <1>i
  DEF Supersede, Typed, TypeOK, Goto, Steps, document, graph, title
<1>l. CASE SetFlag
  BY <1>0, <1>l, <1>i, EndTypes
  DEF SetFlag, Typed, TypeOK, Steps, store, graph, title
<1>m. ASSUME NEW m \in Ids, BeginSelect(m) PROVE Typed'
  <2>1. keep' \subseteq Ids
    BY <1>0, <1>m, WalkOfAnswers DEF BeginSelect, Questions
  <2> QED
    BY <1>0, <1>m, <1>i, <2>1
    DEF BeginSelect, Typed, TypeOK, Goto, Steps, document, store, graph, title
<1>n. CASE Hide
  BY <1>0, <1>n, <1>i
  DEF Hide, Typed, TypeOK, Goto, Steps, document, graph, title
<1>o. CASE Show
  BY <1>0, <1>o, <1>i, EndTypes
  DEF Show, Typed, TypeOK, Steps, document, graph, title
<1>p. CASE Interrupt
  <2>1. PICK from \in Steps : End(from)
    BY <1>p DEF Interrupt
  <2>2. UNCHANGED <<document, store, graph, title>>
    BY <1>p DEF Interrupt
  <2> QED
    BY <1>0, <1>i, <2>1, <2>2, EndTypes
    DEF Typed, TypeOK, Steps, document, store, graph, title
<1>q. CASE BeginRename \/ SaveTitle \/ Delete
  <2>1. /\ thread' \in {"exists", "deleted"} \cup {thread} /\ hasVariants' \in BOOLEAN
        /\ titler' \in {"idle", "save"} /\ titleCopy' \in BOOLEAN
        /\ UNCHANGED <<messages, active, rested, head, stale, inputBase, pc, target, parent,
                       copy, keep>>
    BY <1>0, <1>q
    DEF BeginRename, SaveTitle, Delete, SaveThread, Typed, TypeOK, document, store, graph,
        title, conversation
  <2> QED
    BY <1>0, <1>i, <2>1 DEF Typed, TypeOK
<1>r. CASE UNCHANGED vars
  BY <1>0, <1>r, <1>i
  DEF vars, Typed, TypeOK, document, store, graph, title, conversation
<1> QED
  BY <1>a, <1>b, <1>c, <1>d, <1>e, <1>f, <1>g, <1>h, <1>j, <1>k, <1>l, <1>m, <1>n, <1>o,
     <1>p, <1>q, <1>r
  DEF Next, Conversation

(* The types, with what the code's tree walks rely on: a message lies at a *)
(* resting checkpoint that is later than the one it follows.  They hold    *)
(* whatever is cut short and whatever overlaps.                            *)
THEOREM ThreadTypes == Spec => []TypeOK
<1>1. Typed => TypeOK
  BY DEF Typed
<1> QED
  BY <1>1, TypedInit, TypedStep, PTL DEF Spec

-----------------------------------------------------------------------------
(* The walk of select_variant                                              *)

\* The walk goes on with each of its steps, and any set that does has it.
LEMMA WalkGoesOn ==
  ASSUME TypeOK, NEW m \in Answers
  PROVE  /\ Walk(m) \subseteq Answers /\ m \in Walk(m)
         /\ \A b \in Walk(m) : AnswersAt(Tip(b)) # {} => Chosen(AnswersAt(Tip(b))) \in Walk(m)
         /\ \A W \in SUBSET Answers :
                m \in W /\ (\A b \in W : AnswersAt(Tip(b)) # {} => Chosen(AnswersAt(Tip(b))) \in W)
                    => Walk(m) \subseteq W
<1>1. \A W : Continued(W) <=>
            \A b \in W : AnswersAt(Tip(b)) # {} => Chosen(AnswersAt(Tip(b))) \in W
  BY DEF Continued, Tip
<1>2. \A b : b \in Walk(m) <=>
            b \in Answers /\ \A W \in SUBSET Answers : m \in W /\ Continued(W) => b \in W
  BY DEF Walk
<1>3. ASSUME NEW b \in Walk(m), AnswersAt(Tip(b)) # {}
      PROVE  Chosen(AnswersAt(Tip(b))) \in Walk(m)
  <2> DEFINE d == Chosen(AnswersAt(Tip(b)))
  <2>1. d \in Answers
    <3>1. AnswersAt(Tip(b)) \subseteq Ids /\ AnswersAt(Tip(b)) \subseteq Answers
      BY DEF AnswersAt, Answers
    <3> QED
      BY <1>3, <3>1, ChosenIsThere
  <2>2. ASSUME NEW W \in SUBSET Answers, m \in W, Continued(W) PROVE d \in W
    BY <1>1, <1>2, <1>3, <2>2
  <2> HIDE DEF d
  <2>3. d \in Walk(m)
    BY <1>2, <2>1, <2>2
  <2> QED
    BY <2>3 DEF d
<1>4. ASSUME NEW W \in SUBSET Answers, m \in W,
             \A b \in W : AnswersAt(Tip(b)) # {} => Chosen(AnswersAt(Tip(b))) \in W
      PROVE  Walk(m) \subseteq W
  BY <1>1, <1>2, <1>4
<1> QED
  BY <1>2, <1>3, <1>4

\* What is chosen at a place lies there.
LEMMA ChosenLiesThere ==
  ASSUME TypeOK, NEW p, AnswersAt(p) # {}
  PROVE  Chosen(AnswersAt(p)) \in Answers /\ Base(Chosen(AnswersAt(p))) = p
<1>1. AnswersAt(p) \subseteq Ids
  BY DEF AnswersAt, Answers
<1>2. Chosen(AnswersAt(p)) \in AnswersAt(p)
  BY <1>1, ChosenIsThere
<1> QED
  BY <1>2 DEF AnswersAt, Group, Base

\* The walk is a path from its first answer to a leaf.
LEMMA WalkIsPath ==
  ASSUME TypeOK, TreeInv, NEW m \in Answers
  PROVE  /\ KeepsPath(Walk(m), m) /\ Walk(m) \subseteq Answers
         /\ \A b \in Walk(m) : b = m \/ \E c \in Walk(m) : /\ AnswersAt(Tip(c)) # {}
                                                        /\ b = Chosen(AnswersAt(Tip(c)))
<1> DEFINE On == Walk(m)
           Next1(b) == Chosen(AnswersAt(Tip(b)))
           Goes(b) == AnswersAt(Tip(b)) # {}
<1>1. /\ On \subseteq Answers /\ m \in On
      /\ \A b \in On : Goes(b) => Next1(b) \in On
      /\ \A W \in SUBSET Answers :
            m \in W /\ (\A b \in W : Goes(b) => Next1(b) \in W) => On \subseteq W
  BY WalkGoesOn
<1>2. \A b \in On : Goes(b) => Base(Next1(b)) = Tip(b)
  BY ChosenLiesThere
<1>3. \A b \in On : Base(b) \in Nat /\ Tip(b) \in Nat /\ Base(b) < Tip(b) /\ b \in Nat
  BY <1>1, MessageTypes
<1>4. \A a, b \in On : a < b => Tip(a) < Tip(b)
  BY <1>1, MessageTypes DEF TreeInv
<1> HIDE DEF On, Goes, Next1
\* Each answer but the first was chosen on the walk.
<1>5. \A b \in On : b = m \/ \E c \in On : Goes(c) /\ b = Next1(c)
  <2> DEFINE W == {b \in On : b = m \/ \E c \in On : Goes(c) /\ b = Next1(c)}
  <2>1. W \in SUBSET Answers /\ m \in W
    BY <1>1
  <2>2. \A b \in W : Goes(b) => Next1(b) \in W
    BY <1>1
  <2> QED
    BY <1>1, <2>1, <2>2
\* All but the first lie behind it.
<1>6. \A b \in On : b = m \/ Base(b) >= Tip(m)
  <2> DEFINE W == {b \in On : b = m \/ Base(b) >= Tip(m)}
  <2>1. W \in SUBSET Answers /\ m \in W
    BY <1>1
  <2>2. ASSUME NEW b \in W, Goes(b) PROVE Next1(b) \in W
    <3>1. Next1(b) \in On /\ Base(Next1(b)) = Tip(b)
      BY <1>1, <1>2, <2>2
    <3>2. Tip(b) >= Tip(m)
      BY <1>1, <1>3
    <3> QED
      BY <3>1, <3>2
  <2> QED
    BY <1>1, <2>1, <2>2
<1>7. \A b \in On : b >= m /\ Base(b) >= Base(m)
  BY <1>1, <1>3, <1>4, <1>6
\* Each place has one answer on the walk.
<1>8. \A a, b \in On : Base(a) = Base(b) => a = b
  <2> SUFFICES ASSUME NEW a \in On, NEW b \in On, Base(a) = Base(b) PROVE a = b
    OBVIOUS
  <2>1. CASE a = m \/ b = m
    BY <1>1, <1>3, <1>6, <2>1
  <2>2. CASE a # m /\ b # m
    <3>1. PICK c \in On : Goes(c) /\ a = Next1(c)
      BY <1>5, <2>2
    <3>2. PICK d \in On : Goes(d) /\ b = Next1(d)
      BY <1>5, <2>2
    <3>3. Tip(c) = Tip(d)
      BY <1>2, <3>1, <3>2
    <3> QED
      BY <3>1, <3>2, <3>3 DEF Next1
  <2> QED
    BY <2>1, <2>2
\* Whoever comes after b lies behind it.
<1>9. \A b, c \in On : c <= b \/ Base(c) >= Tip(b)
  <2> DEFINE S == {b \in On : \A c \in On : c <= b \/ Base(c) >= Tip(b)}
  <2>1. S \in SUBSET Answers /\ m \in S
    BY <1>1, <1>6, <1>3
  <2>2. ASSUME NEW b \in S, Goes(b) PROVE Next1(b) \in S
    <3> DEFINE d == Next1(b)
               W == {c \in On : c <= b \/ c = d \/ Base(c) >= Tip(d)}
    <3>1. b \in On /\ d \in On /\ Base(d) = Tip(b) /\ \A c \in On : c <= b \/ Base(c) >= Tip(b)
      BY <1>1, <1>2, <2>2
    <3> HIDE DEF d
    <3>2. b < d /\ Tip(b) < Tip(d)
      BY <1>3, <1>4, <3>1
    <3>3. W \in SUBSET Answers /\ m \in W
      BY <1>1, <1>7, <3>1
    <3>4. ASSUME NEW c \in W, Goes(c) PROVE Next1(c) \in W
      <4>1. c \in On /\ Next1(c) \in On /\ Base(Next1(c)) = Tip(c)
        BY <1>1, <1>2, <3>4
      <4>2. CASE c < b
        BY <1>3, <1>4, <3>1, <4>1, <4>2
      <4>3. CASE c = b
        BY <4>1, <4>3 DEF d
      <4>4. CASE c = d
        BY <1>3, <3>1, <4>1, <4>4
      <4>5. CASE Base(c) >= Tip(d)
        BY <1>3, <3>1, <4>1, <4>5
      <4> QED
        BY <1>3, <3>1, <4>1, <4>2, <4>3, <4>4, <4>5
    <3>5. On \subseteq W
      BY <1>1, <3>3, <3>4
    <3>6. ASSUME NEW c \in On PROVE c <= d \/ Base(c) >= Tip(d)
      BY <1>3, <3>1, <3>2, <3>5
    <3> QED
      BY <3>1, <3>6 DEF d
  <2>3. On \subseteq S
    BY <1>1, <2>1, <2>2
  <2> QED
    BY <2>3
<1>10. \A a, b \in On : a < b => Tip(a) <= Base(b)
  BY <1>3, <1>9
<1>11. \A b \in On : b = m \/ \E c \in On : Base(b) = Tip(c)
  BY <1>2, <1>5
<1>12. \A b \in On : AnswersAt(Tip(b)) # {} => \E c \in On : Base(c) = Tip(b)
  BY <1>1, <1>2 DEF Goes
<1>13. KeepsPath(On, m)
  BY <1>1, <1>7, <1>10, <1>11, <1>12 DEF KeepsPath
<1> QED
  BY <1>1, <1>5, <1>13 DEF On, Goes, Next1

\* What select_variant is about to show: the walk, each answer under its question.
LEMMA KeepIsPath ==
  ASSUME TypeOK, TreeInv, NEW m \in Answers, NEW K,
         K = (Questions \cap Group(messages[m].parent)) \cup {m} \cup FollowUps(m)
  PROVE  /\ KeepsPath(Answers \cap K, m)
         /\ \A b \in Answers \cap K : \E q \in Questions \cap K : q < b /\ Base(q) = Base(b)
<1>1. /\ Walk(m) \subseteq Answers /\ m \in Walk(m)
      /\ \A b \in Walk(m) : AnswersAt(Tip(b)) # {} => Chosen(AnswersAt(Tip(b))) \in Walk(m)
  BY WalkGoesOn
<1>2. /\ KeepsPath(Walk(m), m)
      /\ \A b \in Walk(m) : b = m \/ \E c \in Walk(m) : /\ AnswersAt(Tip(c)) # {}
                                                     /\ b = Chosen(AnswersAt(Tip(c)))
  BY WalkIsPath
<1>3. \A x : x \in FollowUps(m) <=>
        \E c \in Walk(m) : /\ AnswersAt(Tip(c)) # {}
                           /\ \/ x \in Questions \cap Group(Tip(c))
                              \/ x = Chosen(AnswersAt(Tip(c)))
  <2> DEFINE Turn(c) == IF AnswersAt(Tip(c)) = {} THEN {}
                        ELSE (Questions \cap Group(Tip(c))) \cup {Chosen(AnswersAt(Tip(c)))}
  <2>1. FollowUps(m) = UNION {Turn(c) : c \in Walk(m)}
    BY DEF FollowUps, Tip
  <2>2. \A c, x : x \in Turn(c) <=> /\ AnswersAt(Tip(c)) # {}
                                   /\ \/ x \in Questions \cap Group(Tip(c))
                                      \/ x = Chosen(AnswersAt(Tip(c)))
    OBVIOUS
  <2> HIDE DEF Turn
  <2>3. \A x : x \in FollowUps(m) <=> \E c \in Walk(m) : x \in Turn(c)
    BY <2>1
  <2> QED
    BY <2>2, <2>3
<1>4. \A q \in Questions, p \in Nat : Base(q) = p => q \in Group(p)
  BY MessageTypes DEF Group, Base
<1>5. Answers \cap Questions = {} /\ Answers \subseteq Ids
      /\ \A b \in Ids : Base(b) \in Nat /\ Tip(b) \in Nat
  BY MessageTypes
<1>6. Answers \cap K = Walk(m)
  <2>1. ASSUME NEW x \in Answers \cap K PROVE x \in Walk(m)
    BY <1>1, <1>3, <1>5, <2>1
  <2>2. ASSUME NEW x \in Walk(m) PROVE x \in Answers \cap K
    BY <1>1, <1>2, <1>3, <2>2
  <2> QED
    BY <2>1, <2>2
<1>7. ASSUME NEW b \in Walk(m)
      PROVE  \E q \in Questions \cap K : q < b /\ Base(q) = Base(b)
  <2>1. b \in Answers
    BY <1>1
  <2>2. PICK q \in Questions : q < b /\ Base(q) = Base(b)
    BY <2>1 DEF TreeInv
  <2>3. CASE b = m
    BY <1>4, <1>5, <2>1, <2>2, <2>3 DEF Base
  <2>4. CASE b # m
    <3>1. PICK c \in Walk(m) : AnswersAt(Tip(c)) # {} /\ b = Chosen(AnswersAt(Tip(c)))
      BY <1>2, <2>4
    <3>2. Base(b) = Tip(c)
      BY <3>1, ChosenLiesThere
    <3>3. q \in Group(Tip(c))
      BY <1>4, <1>5, <2>1, <2>2, <3>2
    <3> QED
      BY <1>3, <2>2, <3>1, <3>3
  <2> QED
    BY <2>3, <2>4
<1> QED
  BY <1>2, <1>6, <1>7

-----------------------------------------------------------------------------
(* Steps that store and show nothing                                       *)

\* What it takes for the shown messages to be one conversation: only a turn that
\* has not come to rest is cut short, and a title or a deletion waits its turn.
Sheltered == Interruptible \subseteq {"turn"} /\ Overlaps = FALSE

Placed == TreeInv /\ RestInv /\ BranchInv

LEMMA QuietKeeps ==
  ASSUME TypeOK, Placed, UNCHANGED <<messages, active, rested, head>>,
         pc \notin {"human", "answer", "supersede", "show"},
         pc' \notin {"human", "answer", "supersede", "show"}
  PROVE  /\ Placed'
         /\ BranchAnswers' = BranchAnswers /\ BranchPoints' = BranchPoints
         /\ ShownAnswers' = ShownAnswers /\ BranchAnswers = ShownAnswers
<1>1. /\ Ids' = Ids /\ Answers' = Answers /\ Questions' = Questions
      /\ \A m : Base(m)' = Base(m) /\ Tip(m)' = Tip(m)
      /\ \A p : Group(p)' = Group(p) /\ AnswersAt(p)' = AnswersAt(p)
  BY SameTree
<1>2. Branch' = Branch /\ Branch = active
  BY DEF Branch
<1>3. /\ BranchAnswers' = BranchAnswers /\ ShownAnswers' = ShownAnswers
      /\ BranchAnswers = ShownAnswers
  BY <1>1, <1>2 DEF BranchAnswers, ShownAnswers
<1>4. BranchPoints' = BranchPoints
  BY <1>1, <1>3 DEF BranchPoints
<1>5. TreeInv'
  <2>1. OneQuestionPerTurn'
    BY <1>1 DEF Placed, TreeInv, OneQuestionPerTurn
  <2> QED
    BY <1>1, <2>1 DEF Placed, TreeInv
<1>6. RestInv'
  BY <1>1 DEF Placed, RestInv
<1>7. BranchInv'
  BY <1>1, <1>2, <1>3, <1>4 DEF Placed, BranchInv
<1> QED
  BY <1>3, <1>4, <1>5, <1>6, <1>7 DEF Placed

\* Nobody waits at a leaf of the tree, or beyond its last checkpoint.
LEMMA LeafIsFree ==
  ASSUME TypeOK, Placed, DocumentInv, pc \notin {"human", "answer", "supersede", "show"},
         SafeInv, pc = "enter"
  PROVE  /\ EntryPoint \in BranchPoints
         /\ \A a \in BranchAnswers : Tip(a) <= EntryPoint
         /\ AnswersAt(EntryPoint) = {} /\ Questions \cap Group(EntryPoint) = {}
         /\ ~hasVariants => EntryPoint = rested
<1> USE DEF Placed
<1>1. /\ Ids \subseteq Nat /\ Answers \subseteq Ids /\ Questions \subseteq Ids
      /\ rested \in Nat /\ ShownAnswers \subseteq Answers
      /\ \A m \in Ids : /\ Base(m) \in Nat /\ Tip(m) \in Nat
                        /\ Base(m) < Tip(m) /\ Tip(m) <= rested
  BY MessageTypes
<1>2. BranchAnswers = ShownAnswers /\ Branch = active /\ copy = hasVariants
  BY DEF BranchAnswers, ShownAnswers, Branch, DocumentInv
<1>3. \A p, m : m \in AnswersAt(p) <=> m \in Answers /\ Base(m) = p
  BY DEF AnswersAt, Group, Answers, Base
<1>4. \A p, m : m \in Questions \cap Group(p) <=> m \in Questions /\ Base(m) = p
  BY DEF Questions, Group, Base
<1>5. \A q \in Questions : \E a \in Answers : Base(a) = Base(q)
  BY DEF TreeInv
\* The thread's first answers are among the shown ones.
<1>6. Answers # {} => ShownAnswers # {}
  <2> SUFFICES ASSUME Answers # {} PROVE ShownAnswers # {}
    OBVIOUS
  <2>1. PICK a \in Answers : \A b \in Answers : a <= b
    BY <1>1, LeastOfNaturals
  <2>2. Base(a) = Start
    <3>1. ASSUME NEW b \in Answers, Tip(b) = Base(a) PROVE FALSE
      <4>1. a = b \/ a < b
        BY <1>1, <2>1
      <4>2. a < b => Tip(a) < Tip(b)
        BY <1>1 DEF TreeInv
      <4> QED
        BY <1>1, <3>1, <4>1, <4>2
    <3> QED
      BY <1>1, <3>1 DEF TreeInv
  <2>3. AnswersAt(Start) # {} /\ Start \in BranchPoints
    BY <1>3, <2>2 DEF BranchPoints
  <2>4. AnswersAt(Start) \cap Branch # {}
    BY <2>3 DEF BranchInv
  <2> QED
    BY <1>2, <1>3, <2>4 DEF ShownAnswers
<1>7. CASE copy /\ ShownAnswers # {}
  <2> DEFINE l == Largest(ShownAnswers)
  <2>1. l \in ShownAnswers /\ \A k \in ShownAnswers : k <= l
    BY <1>1, <1>7, LargestIsLast, MessageTypes
  <2>2. EntryPoint = Tip(l)
    BY <1>7 DEF EntryPoint, Tip
  <2> HIDE DEF l
  <2>3. Tip(l) \in BranchPoints
    BY <1>2, <2>1 DEF BranchPoints
  <2>4. ASSUME NEW a \in ShownAnswers PROVE Tip(a) <= Tip(l)
    <3>1. a \in Answers /\ a \in Ids /\ l \in Ids /\ a <= l
      BY <1>1, <2>1
    <3>2. a < l => Tip(a) < Tip(l)
      BY <3>1 DEF TreeInv
    <3>3. a = l \/ a < l
      BY <1>1, <3>1
    <3> QED
      BY <1>1, <3>1, <3>2, <3>3
  <2>5. AnswersAt(Tip(l)) = {}
    <3>1. ASSUME AnswersAt(Tip(l)) # {} PROVE FALSE
      <4>1. PICK b \in ShownAnswers : Base(b) = Tip(l)
        BY <1>2, <1>3, <2>3, <3>1 DEF BranchInv, ShownAnswers
      <4> QED
        BY <1>1, <2>4, <4>1
    <3> QED
      BY <3>1
  <2>6. Questions \cap Group(Tip(l)) = {}
    BY <1>3, <1>4, <1>5, <2>5
  <2> QED
    BY <1>2, <1>7, <2>2, <2>3, <2>4, <2>5, <2>6
<1>8. CASE ~(copy /\ ShownAnswers # {})
  <2>1. ~hasVariants
    BY <1>2, <1>6, <1>8 DEF DocumentInv
  <2>2. EntryPoint = rested
    BY <1>8, <2>1 DEF EntryPoint, SafeInv
  <2>3. AnswersAt(rested) = {} /\ Questions \cap Group(rested) = {}
    <3>1. \A m \in Ids : Base(m) # rested
      BY <1>1
    <3>2. ASSUME NEW m \in AnswersAt(rested) PROVE FALSE
      BY <1>1, <1>3, <3>1
    <3>3. ASSUME NEW m \in Questions \cap Group(rested) PROVE FALSE
      BY <1>1, <1>4, <3>1
    <3> QED
      BY <3>2, <3>3
  <2>4. \A a \in Answers : Tip(a) <= rested
    BY <1>1
  \* Without variants every answer is shown.
  <2>5. Answers \subseteq ShownAnswers
    <3> SUFFICES ASSUME Answers \ ShownAnswers # {} PROVE FALSE
      OBVIOUS
    <3>1. PICK a \in Answers \ ShownAnswers : \A b \in Answers \ ShownAnswers : a <= b
      BY <1>1, LeastOfNaturals
    <3>2. Base(a) \in BranchPoints
      <4>1. CASE Base(a) = Start
        BY <4>1 DEF BranchPoints
      <4>2. CASE \E b \in Answers : Tip(b) = Base(a)
        <5>1. PICK b \in Answers : Tip(b) = Base(a)
          BY <4>2
        <5>2. b < a
          <6>1. a < b => Tip(a) < Tip(b)
            BY <1>1 DEF TreeInv
          <6> QED
            BY <1>1, <3>1, <5>1, <6>1
        <5>3. b \in ShownAnswers
          BY <1>1, <3>1, <5>2
        <5> QED
          BY <1>2, <5>1, <5>3 DEF BranchPoints
      <4> QED
        BY <1>1, <3>1, <4>1, <4>2 DEF TreeInv
    <3>3. AnswersAt(Base(a)) # {}
      BY <1>3, <3>1
    <3>4. PICK b \in ShownAnswers : Base(b) = Base(a)
      BY <1>2, <1>3, <3>2, <3>3 DEF BranchInv, ShownAnswers
    <3> QED
      BY <1>1, <2>1, <3>1, <3>4 DEF DocumentInv
  <2>6. rested \in BranchPoints
    <3>1. rested = 0 \/ \E a \in Answers : Tip(a) = rested
      BY DEF RestInv
    <3> QED
      BY <1>2, <2>5, <3>1 DEF BranchPoints, Start
  <2> QED
    BY <1>1, <1>2, <2>2, <2>3, <2>4, <2>6
<1> QED
  BY <1>7, <1>8

LEMMA BranchingInit == Init => Branching
<1> SUFFICES ASSUME Init PROVE Branching
  OBVIOUS
<1>1. messages = <<>> /\ Ids = {} /\ Answers = {} /\ Questions = {} /\ BranchAnswers = {}
  BY DEF Init, Ids, Answers, Questions, BranchAnswers
<1>2. pc = "idle" /\ target = NoMessage /\ head = 0 /\ rested = 0 /\ stale = FALSE
      /\ thread = "none" /\ hasVariants = FALSE /\ copy = FALSE /\ titler = "idle"
  BY DEF Init, Start
<1>3. \A p : AnswersAt(p) = {}
  BY <1>1 DEF AnswersAt
<1>4. TreeInv
  BY <1>1, <1>2 DEF TreeInv, OneQuestionPerTurn
<1>5. RestInv /\ DocumentInv
  BY <1>1, <1>2 DEF RestInv, DocumentInv
<1>6. LeafInv /\ RetryInv /\ SafeInv /\ SelectInv
  BY <1>1, <1>2 DEF LeafInv, RetryInv, SafeInv, SelectInv, SafeStream
<1>7. BranchInv
  BY <1>1, <1>3 DEF BranchInv
<1> QED
  BY <1>4, <1>5, <1>6, <1>7 DEF Branching

\* A request that begins, ends or goes on without the messages.
LEMMA QuietlyKept ==
  ASSUME TypeOK, Branching, UNCHANGED <<messages, active, rested, head, stale, inputBase>>,
         pc \notin {"human", "answer", "supersede", "show"},
         ~(pc = "stream" /\ target # NoMessage),
         pc' \in {"idle", "touch", "enter"},
         target' = NoMessage \/ (pc' # "idle" /\ target' \in ShownAnswers),
         hasVariants => hasVariants', DocumentInv'
  PROVE  Branching'
<1>1. /\ Placed' /\ ShownAnswers' = ShownAnswers
  BY QuietKeeps DEF Branching, Placed
<1>2. LeafInv' /\ SelectInv'
  BY DEF LeafInv, SelectInv
<1>3. RetryInv'
  BY <1>1 DEF RetryInv
<1>4. SafeInv'
  BY DEF Branching, SafeInv, SafeStream
<1> QED
  BY <1>1, <1>2, <1>3, <1>4 DEF Branching, Placed

\* What the document's copies say, when the messages stay.
LEMMA SameVariants ==
  ASSUME TypeOK, DocumentInv, UNCHANGED messages
  PROVE  /\ Answers' = Answers
         /\ (pc \notin {"supersede", "flag"} /\ (hasVariants => hasVariants')) =>
                \A a, b \in Answers' : a # b /\ Base(a)' = Base(b)' => hasVariants'
<1>1. Answers' = Answers /\ \A m : Base(m)' = Base(m)
  BY SameTree
<1> QED
  BY <1>1 DEF DocumentInv

LEMMA RequestSteps ==
  ASSUME Sheltered, TypeOK, Branching,
         \/ CreateThread \/ BeginResume \/ Touch \/ SetFlag \/ Interrupt
         \/ BeginRename \/ Delete \/ \E m \in Ids : BeginRetry(m)
  PROVE  Branching'
<1> USE DEF Goto, document, store, graph, title, conversation
<1>0. /\ DocumentInv /\ RetryInv /\ NoMessage \notin Answers /\ ShownAnswers \subseteq Answers
      /\ hasVariants \in BOOLEAN
  BY MessageTypes DEF Branching, TypeOK
<1>1. CASE CreateThread
  <2>1. /\ pc = "idle" /\ pc' = "enter" /\ thread = "none" /\ thread' = "exists"
        /\ titleCopy' = FALSE /\ target = NoMessage
        /\ UNCHANGED <<hasVariants, messages, active, rested, head, stale, inputBase, target, copy>>
    BY <1>0, <1>1 DEF CreateThread, RetryInv
  <2>2. hasVariants = FALSE /\ copy = FALSE
    BY <1>0, <2>1 DEF DocumentInv, TypeOK
  <2>3. DocumentInv'
    BY <1>0, <2>1, <2>2, SameVariants DEF DocumentInv
  <2> QED
    BY <2>1, <2>3, QuietlyKept
<1>2. CASE BeginResume
  <2>1. /\ pc = "idle" /\ pc' = "touch" /\ thread = "exists" /\ titler = "idle"
        /\ target = NoMessage /\ copy' = hasVariants
        /\ UNCHANGED <<thread, hasVariants, messages, active, rested, head, stale, inputBase,
                       target, titler>>
    BY <1>0, <1>2 DEF BeginResume, RetryInv, MayBegin, Sheltered
  <2>2. DocumentInv'
    BY <1>0, <2>1, SameVariants DEF DocumentInv
  <2> QED
    BY <2>1, <2>2, QuietlyKept
<1>3. ASSUME NEW m \in Ids, BeginRetry(m) PROVE Branching'
  <2>1. /\ pc = "idle" /\ pc' = "touch" /\ thread = "exists" /\ titler = "idle"
        /\ target' = m /\ m \in ShownAnswers /\ copy' = hasVariants
        /\ UNCHANGED <<thread, hasVariants, messages, active, rested, head, stale, inputBase,
                       titler>>
    BY <1>0, <1>3 DEF BeginRetry, MayBegin, Sheltered
  <2>2. DocumentInv'
    BY <1>0, <2>1, SameVariants DEF DocumentInv
  <2> QED
    BY <2>1, <2>2, QuietlyKept
<1>4. CASE Touch
  <2>1. /\ pc = "touch" /\ pc' = "enter" /\ thread = "exists" /\ copy = hasVariants
        /\ UNCHANGED <<thread, hasVariants, messages, active, rested, head, stale, inputBase, target, copy, titler,
                       titleCopy>>
    BY <1>0, <1>4 DEF Touch, SaveThread, DocumentInv
  <2>2. DocumentInv'
    BY <1>0, <2>1, SameVariants DEF DocumentInv
  <2>3. target = NoMessage \/ target \in ShownAnswers
    BY <1>0, <2>1 DEF RetryInv
  <2> QED
    BY <2>1, <2>2, <2>3, QuietlyKept
<1>5. CASE SetFlag
  <2>1. /\ pc = "flag" /\ pc' = "idle" /\ target' = NoMessage /\ copy' = FALSE
        /\ thread = "exists" /\ hasVariants' = TRUE /\ target \in Answers
        /\ UNCHANGED <<thread, messages, active, rested, head, stale, inputBase, titler,
                       titleCopy>>
    BY <1>0, <1>5 DEF SetFlag, End, DocumentInv, RetryInv
  <2>2. titler # "save"
    BY <1>0, <2>1 DEF DocumentInv
  <2>3. DocumentInv'
    BY <1>0, <2>1, <2>2, SameVariants DEF DocumentInv
  <2> QED
    BY <2>1, <2>3, QuietlyKept
<1>6. CASE Interrupt
  <2>1. /\ pc \in {"touch", "enter", "stream"} /\ ~(pc = "stream" /\ target # NoMessage)
        /\ pc' = "idle" /\ target' = NoMessage /\ copy' = FALSE
        /\ UNCHANGED <<thread, hasVariants, messages, active, rested, head, stale, inputBase,
                       titler, titleCopy>>
    <3>1. PICK from \in Steps \ {"idle"} :
            /\ from = "stream" /\ target # NoMessage => "retry" \in Interruptible
            /\ from \in Storing => "store" \in Interruptible
            /\ End(from)
      BY <1>6 DEF Interrupt
    <3>2. "retry" \notin Interruptible /\ "store" \notin Interruptible
      BY DEF Sheltered
    <3>3. /\ pc = from /\ pc' = "idle" /\ target' = NoMessage /\ copy' = FALSE
      BY <3>1 DEF End
    <3>4. from \in {"touch", "enter", "stream"}
      BY <3>1, <3>2 DEF Steps, Storing
    <3>5. UNCHANGED <<document, store, graph, title>>
      BY <1>6 DEF Interrupt
    <3> QED
      BY <3>1, <3>2, <3>3, <3>4, <3>5
  <2>2. DocumentInv'
    BY <1>0, <2>1, SameVariants DEF DocumentInv
  <2> QED
    BY <2>1, <2>2, QuietlyKept
<1>7. CASE BeginRename
  <2>1. /\ pc = "idle" /\ pc' = "idle" /\ target = NoMessage /\ thread = "exists"
        /\ titleCopy' = hasVariants
        /\ UNCHANGED <<thread, hasVariants, messages, active, rested, head, stale, inputBase,
                       target, copy>>
    BY <1>0, <1>7 DEF BeginRename, RetryInv, Sheltered
  <2>2. DocumentInv'
    BY <1>0, <2>1, SameVariants DEF DocumentInv
  <2> QED
    BY <2>1, <2>2, QuietlyKept
<1>8. CASE Delete
  <2>1. /\ pc = "idle" /\ pc' = "idle" /\ target = NoMessage /\ titler = "idle"
        /\ thread' = "deleted"
        /\ UNCHANGED <<hasVariants, messages, active, rested, head, stale, inputBase,
                       target, copy, titler>>
    BY <1>0, <1>8 DEF Delete, RetryInv, Sheltered
  <2>2. DocumentInv'
    BY <1>0, <2>1, SameVariants DEF DocumentInv
  <2> QED
    BY <2>1, <2>2, QuietlyKept
<1> QED
  BY <1>1, <1>2, <1>3, <1>4, <1>5, <1>6, <1>7, <1>8

\* The title's writer finds the document as it read it.
LEMMA TitleStep ==
  ASSUME TypeOK, Branching, SaveTitle
  PROVE  Branching'
<1>1. /\ thread = "exists" /\ titleCopy = hasVariants
  BY DEF SaveTitle, Branching, DocumentInv
<1>2. /\ titler' = "idle"
      /\ UNCHANGED <<thread, hasVariants, messages, active, rested, head, stale, inputBase,
                     pc, target, parent, copy, keep>>
  BY <1>1 DEF SaveTitle, SaveThread, document, store, graph, conversation
<1>3. /\ Ids' = Ids /\ Answers' = Answers /\ Questions' = Questions
      /\ \A m : Base(m)' = Base(m) /\ Tip(m)' = Tip(m)
      /\ \A p : Group(p)' = Group(p) /\ AnswersAt(p)' = AnswersAt(p)
  BY <1>2, SameTree
<1>4. /\ Branch' = Branch /\ BranchAnswers' = BranchAnswers /\ ShownAnswers' = ShownAnswers
      /\ BranchPoints' = BranchPoints /\ SafeStream' = SafeStream
  BY <1>2, <1>3 DEF Branch, BranchAnswers, ShownAnswers, BranchPoints, SafeStream
<1>5. TreeInv'
  <2>1. OneQuestionPerTurn'
    BY <1>2, <1>3 DEF Branching, TreeInv, OneQuestionPerTurn
  <2> QED
    BY <1>2, <1>3, <2>1 DEF Branching, TreeInv
<1>6. RestInv' /\ DocumentInv'
  BY <1>2, <1>3 DEF Branching, RestInv, DocumentInv
<1>7. LeafInv' /\ RetryInv' /\ SafeInv'
  BY <1>2, <1>3, <1>4 DEF Branching, LeafInv, RetryInv, SafeInv
<1>8. BranchInv'
  BY <1>2, <1>3, <1>4 DEF Branching, BranchInv
<1>9. SelectInv'
  BY <1>2, <1>3, <1>4 DEF Branching, SelectInv, KeepsPath
<1> QED
  BY <1>5, <1>6, <1>7, <1>8, <1>9 DEF Branching

-----------------------------------------------------------------------------
(* Steps of a stream, and the start of a selection                         *)

LEMMA EnterTurnStep ==
  ASSUME TypeOK, Branching, EnterTurn
  PROVE  Branching'
<1>0. /\ TreeInv /\ RestInv /\ DocumentInv /\ SafeInv /\ BranchInv /\ Placed
  BY DEF Branching, Placed
<1>1. /\ pc = "enter" /\ pc' = "stream" /\ target = NoMessage /\ target' = NoMessage
      /\ parent' = EntryPoint /\ inputBase' = EntryPoint /\ stale' = TRUE
      /\ UNCHANGED <<thread, hasVariants, messages, active, rested, head, copy, titler, titleCopy>>
  BY DEF EnterTurn, Goto, document, store, title
<1>2. /\ Placed' /\ BranchAnswers' = BranchAnswers /\ BranchPoints' = BranchPoints
  BY <1>0, <1>1, QuietKeeps
<1>3. /\ \A m : Base(m)' = Base(m) /\ Tip(m)' = Tip(m)
      /\ \A p : Group(p)' = Group(p) /\ AnswersAt(p)' = AnswersAt(p)
      /\ Questions' = Questions
  BY <1>1, SameTree
<1>4. /\ EntryPoint \in BranchPoints
      /\ \A a \in BranchAnswers : Tip(a) <= EntryPoint
      /\ AnswersAt(EntryPoint) = {} /\ Questions \cap Group(EntryPoint) = {}
      /\ ~hasVariants => EntryPoint = rested
  BY <1>0, <1>1, LeafIsFree
<1>5. LeafInv'
  BY <1>1, <1>2, <1>3, <1>4 DEF LeafInv, AnswersAt, Group
<1>6. DocumentInv'
  BY <1>0, <1>1, SameVariants DEF DocumentInv
<1>7. RetryInv' /\ SelectInv'
  BY <1>1 DEF RetryInv, SelectInv
<1>8. SafeInv'
  BY <1>1, <1>4 DEF SafeInv, SafeStream
<1> QED
  BY <1>2, <1>5, <1>6, <1>7, <1>8 DEF Branching, Placed

LEMMA EnterRetryStep ==
  ASSUME TypeOK, Branching, EnterRetry
  PROVE  Branching'
<1>0. DocumentInv /\ RetryInv /\ Placed
  BY DEF Branching, Placed
<1>1. /\ pc = "enter" /\ pc' = "stream" /\ target # NoMessage /\ target' = target
      /\ parent' = Base(target)
      /\ UNCHANGED <<thread, hasVariants, messages, active, rested, head, copy, titler, titleCopy>>
  BY DEF EnterRetry, Goto, document, store, title, Base
<1>2. Placed' /\ ShownAnswers' = ShownAnswers
  BY <1>0, <1>1, QuietKeeps
<1>3. Base(target)' = Base(target)
  BY <1>1 DEF Base
<1>4. RetryInv'
  BY <1>0, <1>1, <1>2, <1>3 DEF RetryInv
<1>5. DocumentInv'
  BY <1>0, <1>1, SameVariants DEF DocumentInv
<1>6. LeafInv' /\ SafeInv' /\ SelectInv'
  BY <1>1 DEF LeafInv, SafeInv, SelectInv
<1> QED
  BY <1>2, <1>4, <1>5, <1>6 DEF Branching, Placed

\* Coming to rest, a stream leaves the tree as it is and adds its own place.
LEMMA StreamEndsTree ==
  ASSUME TypeOK, TreeInv, RestInv, pc = "stream", pc' \in {"human", "answer"},
         rested' = rested + 1, head' = rested + 1, UNCHANGED messages
  PROVE  TreeInv' /\ RestInv'
<1>1. /\ Ids' = Ids /\ Answers' = Answers /\ Questions' = Questions
      /\ \A m : Base(m)' = Base(m) /\ Tip(m)' = Tip(m)
  BY SameTree
<1>2. TreeInv'
  <2>1. OneQuestionPerTurn'
    BY <1>1 DEF TreeInv, OneQuestionPerTurn
  <2>2. \A q \in Questions : \E a \in Answers : Base(a) = Base(q)
    BY DEF TreeInv
  <2> QED
    BY <1>1, <2>1, <2>2 DEF TreeInv
<1>3. RestInv'
  <2>1. /\ rested \in Nat /\ Answers \subseteq Ids
        /\ \A m \in Ids : Tip(m) \in Nat /\ Tip(m) <= rested
    BY MessageTypes
  <2>2. rested' > 0 /\ \A m \in Ids : Tip(m) < rested'
    BY <2>1
  <2> QED
    BY <1>1, <2>1, <2>2 DEF RestInv
<1> QED
  BY <1>2, <1>3

LEMMA StreamEndsStep ==
  ASSUME TypeOK, Branching, StreamEnds
  PROVE  Branching'
<1>0. /\ TreeInv /\ RestInv /\ DocumentInv /\ RetryInv /\ LeafInv /\ BranchInv
  BY DEF Branching
<1>1. /\ pc = "stream" /\ pc' = FirstToStore /\ rested' = rested + 1 /\ head' = rested + 1
      /\ stale' = FALSE
      /\ UNCHANGED <<thread, hasVariants, messages, active, target, parent, copy, titler, titleCopy>>
  BY DEF StreamEnds, Goto, document, store, title
<1>2. \/ pc' = "human" /\ target = NoMessage
      \/ pc' = "answer" /\ target # NoMessage
  BY <1>1 DEF FirstToStore
<1>3. /\ Ids' = Ids /\ Answers' = Answers /\ Questions' = Questions
      /\ \A m : Base(m)' = Base(m) /\ Tip(m)' = Tip(m)
      /\ \A p : Group(p)' = Group(p) /\ AnswersAt(p)' = AnswersAt(p)
  BY <1>1, SameTree
<1>4. /\ Branch' = active /\ Branch = active /\ BranchAnswers' = BranchAnswers
      /\ ShownAnswers' = ShownAnswers
  BY <1>1, <1>2, <1>3 DEF Branch, BranchAnswers, ShownAnswers
<1>5. BranchPoints' = BranchPoints
  BY <1>3, <1>4 DEF BranchPoints
<1>6. TreeInv' /\ RestInv'
  BY <1>0, <1>1, <1>2, StreamEndsTree
<1>7. DocumentInv'
  BY <1>0, <1>1, <1>2, SameVariants DEF DocumentInv
<1>8. LeafInv'
  <2>1. CASE target = NoMessage
    <3>1. /\ parent \in BranchPoints /\ \A a \in BranchAnswers : Tip(a) <= parent
          /\ AnswersAt(parent) = {} /\ Questions \cap Group(parent) = {}
      BY <1>0, <1>1, <2>1 DEF LeafInv
    <3>2. AnswersAt(parent)' = {} /\ Questions' \cap Group(parent)' = {}
      BY <1>1, <1>3, <3>1 DEF AnswersAt, Group
    <3> QED
      BY <1>1, <1>2, <1>3, <1>4, <1>5, <2>1, <3>1, <3>2 DEF LeafInv
  <2>2. CASE target # NoMessage
    BY <1>1, <2>2 DEF LeafInv
  <2> QED
    BY <2>1, <2>2
<1>9. RetryInv'
  <2>1. Base(target)' = Base(target)
    BY <1>1 DEF Base
  <2> QED
    BY <1>0, <1>1, <1>2, <1>4, <2>1 DEF RetryInv
<1>10. SafeInv' /\ SelectInv'
  BY <1>1, <1>2 DEF SafeInv, SelectInv, SafeStream
<1>11. BranchInv'
  BY <1>0, <1>1, <1>2, <1>3, <1>4, <1>5 DEF BranchInv
<1> QED
  BY <1>6, <1>7, <1>8, <1>9, <1>10, <1>11 DEF Branching

LEMMA BeginSelectStep ==
  ASSUME Sheltered, TypeOK, Branching, NEW m \in Ids, BeginSelect(m)
  PROVE  Branching'
<1>0. TreeInv /\ DocumentInv /\ RetryInv /\ SafeInv /\ Placed
  BY DEF Branching, Placed
<1>1. /\ pc = "idle" /\ pc' = "hide" /\ thread = "exists" /\ titler = "idle" /\ target' = m
      /\ keep' = (Questions \cap Group(messages[m].parent)) \cup {m} \cup FollowUps(m)
      /\ UNCHANGED <<thread, hasVariants, messages, active, rested, head, stale, inputBase,
                     copy, titler, titleCopy>>
  BY DEF BeginSelect, MayBegin, Sheltered, Goto, document, store, graph, title
<1>2. PICK a \in ShownAnswers : m \in AnswersAt(messages[a].parent)
  BY DEF BeginSelect
<1>3. m \in Answers /\ Base(a) = Base(m)
  BY <1>2 DEF AnswersAt, Group, Base
<1>4. Placed' /\ ShownAnswers' = ShownAnswers
  BY <1>0, <1>1, QuietKeeps
<1>5. /\ Answers' = Answers /\ Questions' = Questions
      /\ \A k : Base(k)' = Base(k) /\ Tip(k)' = Tip(k)
      /\ \A p : AnswersAt(p)' = AnswersAt(p)
  BY <1>1, SameTree
<1>6. SelectInv'
  <2>1. /\ KeepsPath(Answers \cap keep', m)
        /\ \A b \in Answers \cap keep' :
              \E q \in Questions \cap keep' : q < b /\ Base(q) = Base(b)
    BY <1>0, <1>1, <1>3, KeepIsPath
  <2>2. KeepsPath(Answers \cap keep, target)'
    BY <1>1, <1>5, <2>1 DEF KeepsPath
  <2>3. (\E s \in ShownAnswers : Base(s) = Base(target))'
    BY <1>1, <1>2, <1>3, <1>4, <1>5
  <2> QED
    BY <1>1, <1>5, <2>1, <2>2, <2>3 DEF SelectInv
<1>7. DocumentInv'
  BY <1>0, <1>1, SameVariants DEF DocumentInv
<1>8. RetryInv' /\ LeafInv'
  BY <1>1, <1>3, <1>5 DEF RetryInv, LeafInv
<1>9. SafeInv'
  BY <1>0, <1>1 DEF SafeInv, SafeStream
<1> QED
  BY <1>4, <1>6, <1>7, <1>8, <1>9 DEF Branching, Placed

-----------------------------------------------------------------------------
(* Storing a message                                                       *)

\* What a question adds to the tree, at a place that has nothing yet.
LEMMA QuestionGrows ==
  ASSUME TypeOK, TreeInv, RestInv, pc = "human", target = NoMessage, Insert("human"),
         pc' = "answer", UNCHANGED <<rested, head, target, parent>>,
         Grown(parent), AnswersAt(parent) = {}, Questions \cap Group(parent) = {}
  PROVE  /\ TreeInv' /\ RestInv'
         /\ \E n \in Nat :
                /\ n \notin Ids /\ n \notin active
                /\ Ids' = Ids \cup {n} /\ active' = active \cup {n}
                /\ Answers' = Answers /\ Questions' = Questions \cup {n}
                /\ \A m \in Ids : m < n /\ Base(m)' = Base(m) /\ Tip(m)' = Tip(m)
                /\ Base(n)' = parent /\ Tip(n)' = rested
                /\ \A p : AnswersAt(p)' = AnswersAt(p)
<1>1. PICK n \in Nat :
        /\ Len(messages)' = n /\ n \notin Ids
        /\ Ids' = Ids \cup {n} /\ active' = active \cup {n}
        /\ Answers' = Answers /\ Questions' = Questions \cup {n}
        /\ \A m \in Ids : m < n /\ Base(m)' = Base(m) /\ Tip(m)' = Tip(m)
        /\ messages'[n].parent = parent /\ messages'[n].checkpoint = head
  BY InsertGrows
<1>2. /\ Base(n)' = parent /\ Tip(n)' = rested
  BY <1>1 DEF Base, Tip, TreeInv
<1>3. /\ Answers \subseteq Ids /\ Questions \subseteq Ids /\ Ids \subseteq Nat
      /\ active \subseteq Ids /\ rested \in Nat /\ n \notin Answers /\ n \notin active
      /\ \A m \in Ids : Base(m) \in Nat /\ Tip(m) \in Nat /\ Base(m) < Tip(m)
  BY <1>1, MessageTypes
<1>4. ASSUME NEW p PROVE AnswersAt(p)' = AnswersAt(p)
  <2>1. \A m \in Answers : messages'[m].parent = messages[m].parent
    BY <1>1, <1>3 DEF Base
  <2> QED
    BY <1>1, <1>3, <2>1 DEF AnswersAt, Group
<1>5. \A q \in Questions : Base(q) # parent
  BY <1>3 DEF Group, Base
<1>6. TreeInv'
  <2>1. head' = rested'
    BY DEF TreeInv
  <2>2. \A m \in Ids : Tip(m) < rested
    BY DEF RestInv
  <2>3. \A m, k \in Ids' : m < k => Tip(m)' <= Tip(k)'
    BY <1>1, <1>2, <1>3, <2>2 DEF TreeInv
  <2>4. ASSUME NEW m \in Answers', NEW k \in Ids', m < k
        PROVE  Tip(m)' < Tip(k)'
    <3>1. m \in Answers /\ m \in Ids /\ Tip(m)' = Tip(m)
      BY <1>1, <1>3
    <3>2. CASE k = n
      BY <1>2, <2>2, <3>1, <3>2
    <3>3. CASE k \in Ids
      <4>1. Tip(m) < Tip(k)
        BY <2>4, <3>1, <3>3 DEF TreeInv
      <4> QED
        BY <1>1, <3>1, <3>3, <4>1
    <3> QED
      BY <1>1, <3>2, <3>3
  <2>5. \A m \in Ids' : Base(m)' = Start \/ \E b \in Answers' : Tip(b)' = Base(m)'
    <3>1. parent = Start \/ \E b \in Answers : Tip(b) = parent
      BY DEF Grown
    <3>2. \A b \in Answers : b \in Answers' /\ Tip(b)' = Tip(b)
      BY <1>1, <1>3
    <3>3. ASSUME NEW m \in Ids
          PROVE  Base(m)' = Start \/ \E b \in Answers' : Tip(b)' = Base(m)'
      <4>1. Base(m)' = Base(m) /\ (Base(m) = Start \/ \E b \in Answers : Tip(b) = Base(m))
        BY <1>1 DEF TreeInv
      <4> QED
        BY <3>2, <4>1
    <3>4. Base(n)' = Start \/ \E b \in Answers' : Tip(b)' = Base(n)'
      BY <1>2, <3>1, <3>2
    <3> QED
      BY <1>1, <3>3, <3>4
  <2>6. ASSUME NEW a \in Answers'
        PROVE  \E q \in Questions' : q < a /\ Base(q)' = Base(a)'
    <3>1. a \in Answers
      BY <1>1
    <3>2. PICK q \in Questions : q < a /\ Base(q) = Base(a)
      BY <3>1 DEF TreeInv
    <3>3. q \in Questions' /\ Base(q)' = Base(q) /\ Base(a)' = Base(a)
      BY <1>1, <1>3, <3>1
    <3> QED
      BY <3>2, <3>3
  <2>7. \A q, r \in Questions' : Base(q)' = Base(r)' => q = r
    <3>1. \A q, r \in Questions : Base(q) = Base(r) => q = r
      BY DEF TreeInv, OneQuestionPerTurn, Base
    <3> QED
      BY <1>1, <1>2, <1>3, <1>5, <3>1
  <2>8. OneQuestionPerTurn'
    BY <2>7 DEF OneQuestionPerTurn, Base
  <2>9. \A q \in Questions : \E a \in Answers : Base(a) = Base(q)
    BY DEF TreeInv
  <2>10. \A q \in Questions' :
            \/ \E a \in Answers' : Base(a)' = Base(q)'
            \/ pc' = "answer" /\ target' = NoMessage /\ parent' = Base(q)'
    <3>1. ASSUME NEW q \in Questions PROVE \E a \in Answers' : Base(a)' = Base(q)'
      <4>1. PICK a \in Answers : Base(a) = Base(q)
        BY <2>9
      <4>2. Base(a)' = Base(a) /\ Base(q)' = Base(q) /\ a \in Answers'
        BY <1>1, <1>3
      <4> QED
        BY <4>1, <4>2
    <3>2. target' = NoMessage /\ parent' = Base(n)'
      BY <1>2
    <3> QED
      BY <1>1, <3>1, <3>2
  <2> QED
    BY <2>1, <2>3, <2>4, <2>5, <2>6, <2>8, <2>10 DEF TreeInv
<1>7. RestInv'
  BY <1>1, <1>3 DEF RestInv
<1> QED
  BY <1>1, <1>2, <1>3, <1>4, <1>6, <1>7

LEMMA InsertHumanStep ==
  ASSUME TypeOK, Branching, InsertHuman
  PROVE  Branching'
<1>0. /\ TreeInv /\ RestInv /\ DocumentInv /\ RetryInv /\ LeafInv /\ BranchInv /\ SafeInv
  BY DEF Branching
<1>1. /\ pc = "human" /\ pc' = "answer" /\ target = NoMessage /\ Insert("human")
      /\ UNCHANGED <<thread, hasVariants, rested, head, stale, inputBase, target, parent, copy,
                     titler, titleCopy>>
  BY <1>0 DEF InsertHuman, RetryInv, Goto, document, graph, title
<1>2. /\ parent \in BranchPoints /\ \A a \in BranchAnswers : Tip(a) <= parent
      /\ AnswersAt(parent) = {} /\ Questions \cap Group(parent) = {}
  BY <1>0, <1>1 DEF LeafInv
<1>3. Grown(parent)
  BY <1>2 DEF BranchPoints, BranchAnswers, Grown
<1>4. TreeInv' /\ RestInv'
  BY <1>0, <1>1, <1>2, <1>3, QuestionGrows
<1>5. PICK n \in Nat :
        /\ n \notin Ids /\ n \notin active
        /\ Ids' = Ids \cup {n} /\ active' = active \cup {n}
        /\ Answers' = Answers /\ Questions' = Questions \cup {n}
        /\ \A m \in Ids : m < n /\ Base(m)' = Base(m) /\ Tip(m)' = Tip(m)
        /\ Base(n)' = parent /\ Tip(n)' = rested
        /\ \A p : AnswersAt(p)' = AnswersAt(p)
  BY <1>0, <1>1, <1>2, <1>3, QuestionGrows
<1>6. /\ Answers \subseteq Ids /\ Questions \subseteq Ids /\ Ids \subseteq Nat
      /\ active \subseteq Ids /\ n \notin Answers
      /\ \A m \in Ids : Base(m) \in Nat /\ Tip(m) \in Nat /\ Base(m) < Tip(m)
  BY <1>5, MessageTypes
<1>7. /\ Branch = active /\ Branch' = active \cup {n} /\ BranchAnswers' = BranchAnswers
  <2>1. /\ Branch = active /\ Branch' = active \cup {n}
    BY <1>1, <1>5 DEF Branch
  <2> QED
    BY <1>5, <1>6, <2>1 DEF BranchAnswers
<1>8. BranchAnswers \subseteq Answers /\ BranchPoints' = BranchPoints
  BY <1>5, <1>6, <1>7 DEF BranchAnswers, BranchPoints
<1>9. DocumentInv'
  BY <1>0, <1>1, <1>5, <1>6 DEF DocumentInv
<1>10. LeafInv'
  <2>1. n \in Questions' \cap active' /\ Base(n)' = parent'
    BY <1>1, <1>5
  <2>2. AnswersAt(parent)' = {}
    BY <1>1, <1>2, <1>5
  <2>3. parent' \in BranchPoints' /\ \A a \in BranchAnswers' : Tip(a)' <= parent'
    BY <1>1, <1>2, <1>5, <1>6, <1>7, <1>8
  <2> QED
    BY <1>1, <2>1, <2>2, <2>3 DEF LeafInv
<1>11. RetryInv' /\ SafeInv' /\ SelectInv'
  BY <1>0, <1>1 DEF RetryInv, SafeInv, SelectInv, SafeStream
<1>12. BranchInv'
  <2>1. \A a \in BranchAnswers' : Base(a)' \in BranchPoints'
    BY <1>0, <1>5, <1>6, <1>7, <1>8 DEF BranchInv
  <2>2. \A a, b \in BranchAnswers' : a < b => Tip(a)' <= Base(b)'
    BY <1>0, <1>5, <1>6, <1>7, <1>8 DEF BranchInv
  <2>3. \A a \in BranchAnswers' :
            \E q \in Questions' \cap active' : q < a /\ Base(q)' = Base(a)'
    BY <1>0, <1>5, <1>6, <1>7, <1>8 DEF BranchInv
  <2>4. \A p \in BranchPoints' : AnswersAt(p)' # {} => AnswersAt(p)' \cap Branch' # {}
    BY <1>0, <1>1, <1>5, <1>7, <1>8 DEF BranchInv
  <2> QED
    BY <2>1, <2>2, <2>3, <2>4 DEF BranchInv
<1> QED
  BY <1>4, <1>9, <1>10, <1>11, <1>12 DEF Branching

\* What an answer adds to the tree, at a place that has its question.
LEMMA AnswerGrows ==
  ASSUME TypeOK, TreeInv, RestInv, pc = "answer", Insert("ai"), UNCHANGED <<rested, head>>,
         pc' \notin {"human", "answer"},
         Grown(parent), \E q \in Questions : Base(q) = parent
  PROVE  /\ TreeInv' /\ RestInv'
         /\ \E n \in Nat :
                /\ Len(messages)' = n /\ n \notin Ids /\ n \notin active
                /\ Ids' = Ids \cup {n}
                /\ active' = active \cup {n} /\ Answers' = Answers \cup {n}
                /\ Questions' = Questions
                /\ \A m \in Ids : m < n /\ Base(m)' = Base(m) /\ Tip(m)' = Tip(m)
                /\ Base(n)' = parent /\ Tip(n)' = rested
                /\ \A p : AnswersAt(p)' = AnswersAt(p) \cup (IF p = parent THEN {n} ELSE {})
<1>1. PICK n \in Nat :
        /\ Len(messages)' = n /\ n \notin Ids
        /\ Ids' = Ids \cup {n} /\ active' = active \cup {n}
        /\ Answers' = Answers \cup {n} /\ Questions' = Questions
        /\ \A m \in Ids : m < n /\ Base(m)' = Base(m) /\ Tip(m)' = Tip(m)
        /\ messages'[n].parent = parent /\ messages'[n].checkpoint = head
  BY InsertGrows
<1>2. /\ Base(n)' = parent /\ Tip(n)' = rested
  BY <1>1 DEF Base, Tip, TreeInv
<1>3. /\ Answers \subseteq Ids /\ Questions \subseteq Ids /\ Ids \subseteq Nat
      /\ active \subseteq Ids /\ rested \in Nat /\ n \notin Answers /\ n \notin active
      /\ ShownAnswers \subseteq Answers
      /\ \A m \in Ids : /\ Base(m) \in Nat /\ Tip(m) \in Nat
                        /\ Base(m) < Tip(m) /\ Tip(m) <= rested
  BY <1>1, MessageTypes
<1>4. ASSUME NEW p PROVE AnswersAt(p)' = AnswersAt(p) \cup (IF p = parent THEN {n} ELSE {})
  <2>1. \A m \in Answers : messages'[m].parent = messages[m].parent
    BY <1>1, <1>3 DEF Base
  <2>2. AnswersAt(p) = {m \in Answers : messages[m].parent = p}
    BY <1>3 DEF AnswersAt, Group
  <2>3. AnswersAt(p)' = {m \in Answers' : messages'[m].parent = p}
    BY <1>1, <1>3 DEF AnswersAt, Group
  <2> QED
    BY <1>1, <2>1, <2>2, <2>3
<1>5. /\ parent = Start \/ \E b \in Answers : Tip(b) = parent
      /\ \E q \in Questions : Base(q) = parent
  BY DEF Grown
<1>6. TreeInv'
  <2>1. head' = rested'
    BY DEF TreeInv
  <2>2. \A a \in Answers : Tip(a) < rested
    BY DEF RestInv
  <2>3. \A m, k \in Ids' : m < k => Tip(m)' <= Tip(k)'
    BY <1>1, <1>2, <1>3 DEF TreeInv
  <2>4. \A m \in Answers' : \A k \in Ids' : m < k => Tip(m)' < Tip(k)'
    BY <1>1, <1>2, <1>3, <2>2 DEF TreeInv
  <2>5. \A m \in Ids' : Base(m)' = Start \/ \E b \in Answers' : Tip(b)' = Base(m)'
    BY <1>1, <1>2, <1>3, <1>5 DEF TreeInv
  <2>6. \A a \in Answers' : \E q \in Questions' : q < a /\ Base(q)' = Base(a)'
    BY <1>1, <1>2, <1>3, <1>5 DEF TreeInv
  <2>7. \A q, r \in Questions : Base(q) = Base(r) => q = r
    BY DEF TreeInv, OneQuestionPerTurn, Base
  <2>8. ASSUME NEW q \in Questions', NEW r \in Questions', Base(q)' = Base(r)'
        PROVE  q = r
    <3>1. q \in Questions /\ r \in Questions
      BY <1>1
    <3>2. Base(q)' = Base(q) /\ Base(r)' = Base(r)
      BY <1>1, <1>3, <3>1
    <3> QED
      BY <2>7, <2>8, <3>1, <3>2
  <2>9. OneQuestionPerTurn'
    BY <2>8 DEF OneQuestionPerTurn, Base
  <2>10. \A q \in Questions' : \E a \in Answers' : Base(a)' = Base(q)'
    <3>1. \A q \in Questions : Base(q) = parent \/ \E a \in Answers : Base(a) = Base(q)
      BY DEF TreeInv
    <3>2. ASSUME NEW q \in Questions PROVE \E a \in Answers' : Base(a)' = Base(q)'
      <4>1. Base(q)' = Base(q)
        BY <1>1, <1>3
      <4>2. CASE Base(q) = parent
        BY <1>1, <1>2, <4>1, <4>2
      <4>3. CASE \E a \in Answers : Base(a) = Base(q)
        <5>1. PICK a \in Answers : Base(a) = Base(q)
          BY <4>3
        <5>2. Base(a)' = Base(a) /\ a \in Answers'
          BY <1>1, <1>3
        <5> QED
          BY <4>1, <5>1, <5>2
      <4> QED
        BY <3>1, <4>2, <4>3
    <3> QED
      BY <1>1, <3>2
  <2> QED
    BY <2>1, <2>3, <2>4, <2>5, <2>6, <2>9, <2>10 DEF TreeInv
<1>7. RestInv'
  BY <1>1, <1>2 DEF RestInv
<1> QED
  BY <1>1, <1>2, <1>3, <1>4, <1>6, <1>7

\* A regenerated answer goes where the one it replaces lies.
LEMMA RetryPlace ==
  ASSUME TypeOK, TreeInv, RetryInv, pc = "answer", target # NoMessage
  PROVE  /\ target \in ShownAnswers /\ parent = Base(target)
         /\ Grown(parent) /\ \E q \in Questions : Base(q) = parent
<1>1. target \in ShownAnswers /\ target \in Answers /\ target \in Ids /\ parent = Base(target)
  BY MessageTypes DEF RetryInv
<1> QED
  BY <1>1 DEF TreeInv, Grown

LEMMA InsertAnswerStep ==
  ASSUME TypeOK, Branching, InsertAnswer
  PROVE  Branching'
<1>0. /\ TreeInv /\ RestInv /\ DocumentInv /\ RetryInv /\ LeafInv /\ BranchInv /\ SafeInv
  BY DEF Branching
<1>1. /\ pc = "answer" /\ Insert("ai")
      /\ \/ target = NoMessage /\ pc' = "idle" /\ target' = NoMessage /\ copy' = FALSE
         \/ target # NoMessage /\ pc' = "supersede" /\ target' = target /\ copy' = copy
      /\ UNCHANGED <<thread, hasVariants, rested, head, stale, inputBase, titler, titleCopy>>
  BY DEF InsertAnswer, End, Goto, document, graph, title
\* The place follows an answer and has its question.
<1>2. Grown(parent) /\ \E q \in Questions : Base(q) = parent
  <2>1. CASE target = NoMessage
    <3>1. parent \in BranchPoints /\ \E q \in Questions : Base(q) = parent
      BY <1>0, <1>1, <2>1 DEF LeafInv
    <3> QED
      BY <3>1 DEF BranchPoints, BranchAnswers, Grown
  <2>2. CASE target # NoMessage
    BY <1>0, <1>1, <2>2, RetryPlace
  <2> QED
    BY <2>1, <2>2
<1>3. TreeInv' /\ RestInv'
  BY <1>0, <1>1, <1>2, AnswerGrows
<1>4. PICK n \in Nat :
        /\ Len(messages)' = n /\ n \notin Ids /\ n \notin active
        /\ active' = active \cup {n} /\ Answers' = Answers \cup {n}
        /\ Questions' = Questions
        /\ \A m \in Ids : m < n /\ Base(m)' = Base(m) /\ Tip(m)' = Tip(m)
        /\ Base(n)' = parent /\ Tip(n)' = rested
        /\ \A p : AnswersAt(p)' = AnswersAt(p) \cup (IF p = parent THEN {n} ELSE {})
  BY <1>0, <1>1, <1>2, AnswerGrows
<1>5. /\ Answers \subseteq Ids /\ Questions \subseteq Ids /\ Ids \subseteq Nat
      /\ active \subseteq Ids /\ rested \in Nat /\ n \notin Answers
      /\ ShownAnswers \subseteq Answers /\ BranchAnswers \subseteq Answers
      /\ \A m \in Ids : /\ Base(m) \in Nat /\ Tip(m) \in Nat
                        /\ Base(m) < Tip(m) /\ Tip(m) <= rested
  BY <1>4, MessageTypes DEF BranchAnswers
<1>6. Branch = active
  BY <1>1 DEF Branch
<1>7. \A m : m \in AnswersAt(rested) => FALSE
  BY <1>5 DEF AnswersAt, Group, Base
<1>8. SafeInv' /\ LeafInv' /\ SelectInv'
  BY <1>0, <1>1 DEF SafeInv, SafeStream, LeafInv, SelectInv
<1>9. CASE target = NoMessage
  <2>1. /\ pc' = "idle" /\ target' = NoMessage /\ copy' = FALSE
    BY <1>1, <1>9
  <2>2. /\ parent \in BranchPoints /\ \A a \in BranchAnswers : Tip(a) <= parent
        /\ AnswersAt(parent) = {} /\ \E q \in Questions \cap active : Base(q) = parent
    BY <1>0, <1>1, <1>9 DEF LeafInv
  <2>3. /\ Branch' = active \cup {n} /\ BranchAnswers' = BranchAnswers \cup {n}
    <3>1. Branch' = active \cup {n}
      BY <1>4, <2>1 DEF Branch
    <3> QED
      BY <1>4, <1>5, <1>6, <3>1 DEF BranchAnswers
  <2>4. BranchPoints' = BranchPoints \cup {rested}
    <3>1. BranchPoints' = {Start} \cup {Tip(a)' : a \in BranchAnswers'}
      BY DEF BranchPoints
    <3>2. \A a \in BranchAnswers : Tip(a)' = Tip(a)
      BY <1>4, <1>5
    <3> QED
      BY <1>4, <2>3, <3>1, <3>2 DEF BranchPoints
  <2>5. DocumentInv'
    <3>1. \A a, b \in Answers' : a # b /\ Base(a)' = Base(b)' => hasVariants
      <4>1. \A a \in Answers : Base(a) # parent
        BY <1>5, <2>2 DEF AnswersAt, Group, Base
      <4>2. \A a, b \in Answers : a # b /\ Base(a) = Base(b) => hasVariants
        BY <1>0, <1>1 DEF DocumentInv
      <4> QED
        BY <1>4, <1>5, <4>1, <4>2
    <3> QED
      BY <1>0, <1>1, <1>4, <2>1, <3>1 DEF DocumentInv
  <2>6. RetryInv'
    BY <2>1 DEF RetryInv
  <2>7. BranchInv'
    <3>1. \A a \in BranchAnswers' : Base(a)' \in BranchPoints'
      BY <1>0, <1>4, <1>5, <2>2, <2>3, <2>4 DEF BranchInv
    <3>2. \A a, b \in BranchAnswers' : a < b => Tip(a)' <= Base(b)'
      <4>1. \A a, b \in BranchAnswers : a < b => Tip(a) <= Base(b)
        BY <1>0 DEF BranchInv
      <4>2. \A a \in BranchAnswers : a \in Nat /\ a < n
        BY <1>4, <1>5
      <4> QED
        BY <1>4, <1>5, <2>2, <2>3, <4>1, <4>2
    <3>3. \A a \in BranchAnswers' :
              \E q \in Questions' \cap active' : q < a /\ Base(q)' = Base(a)'
      BY <1>0, <1>4, <1>5, <2>2, <2>3 DEF BranchInv
    <3>4. ASSUME NEW p \in BranchPoints', AnswersAt(p)' # {}
          PROVE  AnswersAt(p)' \cap Branch' # {}
      <4>1. CASE p = parent
        BY <1>4, <2>3, <4>1
      <4>2. CASE p # parent
        <5>1. AnswersAt(p)' = AnswersAt(p)
          BY <1>4, <4>2
        <5>2. p \in BranchPoints
          BY <1>7, <2>4, <3>4, <5>1
        <5>3. AnswersAt(p) \cap Branch # {}
          BY <1>0, <1>1, <3>4, <5>1, <5>2 DEF BranchInv
        <5> QED
          BY <1>6, <2>3, <5>1, <5>3
      <4> QED
        BY <4>1, <4>2
    <3> QED
      BY <3>1, <3>2, <3>3, <3>4 DEF BranchInv
  <2> QED
    BY <1>3, <1>8, <2>5, <2>6, <2>7 DEF Branching
<1>10. CASE target # NoMessage
  <2>1. /\ pc' = "supersede" /\ target' = target /\ copy' = copy
        /\ target \in ShownAnswers /\ parent = Base(target)
    BY <1>0, <1>1, <1>10 DEF RetryInv
  <2>2. target \in Answers /\ target \in Ids /\ target \in active
    BY <1>5, <2>1 DEF ShownAnswers
  <2>3. /\ Branch' = Branch /\ BranchAnswers' = BranchAnswers
    <3>1. Branch' = active' \ {n}
      BY <1>4, <2>1 DEF Branch
    <3>2. Branch' = active
      BY <1>4, <3>1
    <3> QED
      BY <1>4, <1>6, <3>2 DEF BranchAnswers
  <2>4. BranchPoints' = BranchPoints
    BY <1>4, <1>5, <2>3 DEF BranchPoints
  <2>5. DocumentInv'
    BY <1>0, <1>1, <1>4, <2>1 DEF DocumentInv
  <2>6. RetryInv'
    <3>1. /\ n \in ShownAnswers' /\ target \in ShownAnswers' /\ target < n
          /\ Base(n)' = Base(target)'
      BY <1>4, <2>1, <2>2 DEF ShownAnswers
    <3>2. Base(Len(messages))' = Base(target)'
      BY <1>4, <3>1 DEF Base
    <3>3. (Base(Len(messages)) = Base(target))'
      BY <2>1, <3>2 DEF Base
    <3> QED
      BY <1>4, <2>1, <2>2, <3>1, <3>3 DEF RetryInv
  <2>7. BranchInv'
    <3>1. \A a \in BranchAnswers' : Base(a)' \in BranchPoints'
      BY <1>0, <1>4, <1>5, <2>3, <2>4 DEF BranchInv
    <3>2. \A a, b \in BranchAnswers' : a < b => Tip(a)' <= Base(b)'
      BY <1>0, <1>4, <1>5, <2>3 DEF BranchInv
    <3>3. \A a \in BranchAnswers' :
              \E q \in Questions' \cap active' : q < a /\ Base(q)' = Base(a)'
      BY <1>0, <1>4, <1>5, <2>3 DEF BranchInv
    <3>4. ASSUME NEW p \in BranchPoints', AnswersAt(p)' # {}
          PROVE  AnswersAt(p)' \cap Branch' # {}
      <4>1. CASE p = parent
        <5>1. target \in AnswersAt(p)
          BY <2>1, <2>2, <4>1 DEF AnswersAt, Group, Base
        <5> QED
          BY <1>4, <1>6, <2>2, <2>3, <5>1
      <4>2. CASE p # parent
        <5>1. AnswersAt(p)' = AnswersAt(p)
          BY <1>4, <4>2
        <5>2. AnswersAt(p) \cap Branch # {}
          BY <1>0, <1>1, <2>4, <3>4, <5>1 DEF BranchInv
        <5> QED
          BY <2>3, <5>1, <5>2
      <4> QED
        BY <4>1, <4>2
    <3> QED
      BY <3>1, <3>2, <3>3, <3>4 DEF BranchInv
  <2> QED
    BY <1>3, <1>8, <2>5, <2>6, <2>7 DEF Branching
<1> QED
  BY <1>9, <1>10

-----------------------------------------------------------------------------
(* Steps that change what is shown                                         *)

\* What the steps that hide and show messages keep.
LEMMA ShownTree ==
  ASSUME TypeOK, TreeInv, RestInv, UNCHANGED <<messages, rested, head>>,
         pc \notin {"human", "answer"}, pc' \notin {"human", "answer"}
  PROVE  TreeInv' /\ RestInv'
<1>1. /\ Ids' = Ids /\ Answers' = Answers /\ Questions' = Questions
      /\ \A m : Base(m)' = Base(m) /\ Tip(m)' = Tip(m)
  BY SameTree
<1>2. OneQuestionPerTurn'
  BY <1>1 DEF TreeInv, OneQuestionPerTurn
<1> QED
  BY <1>1, <1>2 DEF TreeInv, RestInv

\* What a branch and its tree say of the order of answers.
LEMMA TreeOrder ==
  ASSUME TypeOK, TreeInv
  PROVE  /\ Answers \subseteq Ids /\ Questions \subseteq Ids /\ Ids \subseteq Nat
         /\ \A m \in Ids : Base(m) \in Nat /\ Tip(m) \in Nat /\ Base(m) < Tip(m)
         \* Whoever is followed comes first.
         /\ \A a \in Answers, m \in Ids : Tip(a) <= Base(m) => a < m
         /\ \A a \in Answers, m \in Ids : a < m => Tip(a) < Tip(m)
<1>1. /\ Answers \subseteq Ids /\ Questions \subseteq Ids /\ Ids \subseteq Nat
      /\ \A m \in Ids : Base(m) \in Nat /\ Tip(m) \in Nat /\ Base(m) < Tip(m)
  BY MessageTypes
<1>2. ASSUME NEW a \in Answers, NEW m \in Ids, Tip(a) <= Base(m) PROVE a < m
  <2>1. m < a => Tip(m) <= Tip(a)
    BY <1>1 DEF TreeInv
  <2>2. a \in Ids /\ m # a
    BY <1>1, <1>2
  <2> QED
    BY <1>1, <1>2, <2>1, <2>2
<1> QED
  BY <1>1, <1>2 DEF TreeInv

LEMMA SupersedeStep ==
  ASSUME TypeOK, Branching, Supersede
  PROVE  Branching'
<1>0. /\ TreeInv /\ RestInv /\ DocumentInv /\ RetryInv /\ BranchInv /\ SafeInv
  BY DEF Branching
<1> DEFINE n == Len(messages)
<1>1. /\ pc = "supersede" /\ pc' = "flag" /\ active' = active \ Superseded
      /\ UNCHANGED <<thread, hasVariants, messages, rested, head, stale, inputBase, target,
                     copy, titler, titleCopy>>
  BY DEF Supersede, Goto, document, graph, title
<1>2. TreeInv' /\ RestInv'
  BY <1>0, <1>1, ShownTree
<1>3. /\ Ids' = Ids /\ Answers' = Answers /\ Questions' = Questions
      /\ \A m : Base(m)' = Base(m) /\ Tip(m)' = Tip(m)
      /\ \A p : AnswersAt(p)' = AnswersAt(p)
  BY <1>1, SameTree
<1>4. DocumentInv'
  BY <1>0, <1>1, <1>3 DEF DocumentInv
<1>5. /\ target \in Answers /\ n \in ShownAnswers /\ target < n /\ Base(n) = Base(target)
      /\ target \in ShownAnswers
  <2>1. target \in Answers /\ target # NoMessage
    BY <1>0, <1>1, MessageTypes DEF RetryInv
  <2> QED
    BY <1>0, <1>1, <2>1 DEF RetryInv
<1>6. RetryInv' /\ LeafInv' /\ SelectInv' /\ SafeInv'
  BY <1>0, <1>1, <1>3, <1>5 DEF RetryInv, LeafInv, SelectInv, SafeInv, SafeStream
<1>7. /\ Answers \subseteq Ids /\ Questions \subseteq Ids /\ Ids \subseteq Nat
      /\ \A m \in Ids : Base(m) \in Nat /\ Tip(m) \in Nat /\ Base(m) < Tip(m)
      /\ \A a \in Answers, m \in Ids : Tip(a) <= Base(m) => a < m
      /\ \A a \in Answers, m \in Ids : a < m => Tip(a) < Tip(m)
      /\ active \subseteq Ids
  BY <1>0, TreeOrder DEF TypeOK
<1>8. /\ n \in Nat /\ n \in Answers /\ n \in active /\ target \in active
      /\ \A m \in Ids : m <= n
  BY <1>5, MessageTypes DEF ShownAnswers
<1>9. Superseded = {m \in Ids : m >= target /\ m # n}
  BY DEF Superseded
<1> HIDE DEF n
<1>10. active' = {m \in active : m < target} \cup {n}
  <2>1. \A m : m \in Superseded <=> m \in Ids /\ m >= target /\ m # n
    BY <1>9
  <2>2. target \in Nat
    BY <1>5, <1>7
  <2>3. \A m \in active : m \in Superseded <=> ~(m < target) /\ m # n
    BY <1>7, <2>1, <2>2
  <2> QED
    BY <1>1, <1>8, <2>3
<1>11. /\ Branch = active \ {n} /\ Branch' = active'
  BY <1>1 DEF Branch, n
<1>12. /\ BranchAnswers = (Answers \cap active) \ {n}
       /\ BranchAnswers' = {a \in BranchAnswers : a < target} \cup {n}
       /\ BranchAnswers \subseteq Answers /\ target \in BranchAnswers
  BY <1>3, <1>5, <1>7, <1>8, <1>10, <1>11 DEF BranchAnswers
<1> HIDE <1>9, <1>11
<1>13. \A p : p \in BranchPoints <=> p = Start \/ \E a \in BranchAnswers : p = Tip(a)
  BY DEF BranchPoints
<1>14. \A p : p \in BranchPoints' <=>
                p = Start \/ p = Tip(n) \/ \E a \in BranchAnswers : a < target /\ p = Tip(a)
  <2>1. BranchPoints' = {Start} \cup {Tip(a)' : a \in BranchAnswers'}
    BY DEF BranchPoints
  <2> QED
    BY <1>3, <1>12, <2>1
\* The answers before the superseded one keep their place.
<1>15. ASSUME NEW a \in BranchAnswers, a <= target PROVE Base(a) \in BranchPoints'
  <2>1. Base(a) \in BranchPoints
    BY <1>0 DEF BranchInv
  <2>2. CASE Base(a) = Start
    BY <1>14, <2>2
  <2>3. CASE \E b \in BranchAnswers : Base(a) = Tip(b)
    <3>1. PICK b \in BranchAnswers : Base(a) = Tip(b)
      BY <2>3
    <3>2. b < a
      BY <1>7, <1>12, <3>1
    <3>3. b < target
      BY <1>5, <1>7, <1>12, <1>15, <3>2
    <3> QED
      BY <1>14, <3>1, <3>3
  <2> QED
    BY <1>13, <2>1, <2>2, <2>3
<1>16. BranchInv'
  <2>1. \A a \in BranchAnswers' : Base(a)' \in BranchPoints'
    <3>1. Base(n) \in BranchPoints'
      BY <1>5, <1>7, <1>12, <1>15
    <3> QED
      BY <1>3, <1>5, <1>7, <1>12, <1>15, <3>1
  <2>2. \A a, b \in BranchAnswers' : a < b => Tip(a)' <= Base(b)'
    <3>1. \A a, b \in BranchAnswers : a < b => Tip(a) <= Base(b)
      BY <1>0 DEF BranchInv
    <3> QED
      BY <1>3, <1>5, <1>7, <1>8, <1>12, <3>1
  <2>3. \A a \in BranchAnswers' :
            \E q \in Questions' \cap active' : q < a /\ Base(q)' = Base(a)'
    <3>1. \A a \in BranchAnswers : \E q \in Questions \cap active : q < a /\ Base(q) = Base(a)
      BY <1>0 DEF BranchInv
    <3>2. ASSUME NEW a \in BranchAnswers, a <= target
          PROVE  \E q \in Questions \cap active' : q < a /\ Base(q) = Base(a)
      <4>1. PICK q \in Questions \cap active : q < a /\ Base(q) = Base(a)
        BY <3>1
      <4>2. q \in active'
        BY <1>5, <1>7, <1>10, <1>12, <3>2, <4>1
      <4> QED
        BY <4>1, <4>2
    <3>3. \E q \in Questions \cap active' : q < n /\ Base(q) = Base(n)
      <4>1. PICK q \in Questions \cap active' : q < target /\ Base(q) = Base(target)
        BY <1>5, <1>7, <1>12, <3>2
      <4> QED
        BY <1>5, <1>7, <1>8, <4>1
    <3> QED
      BY <1>3, <1>5, <1>7, <1>12, <3>2, <3>3
  <2>4. ASSUME NEW p \in BranchPoints', AnswersAt(p) # {}
        PROVE  AnswersAt(p) \cap active' # {}
    <3>1. \A b : b \in AnswersAt(p) <=> b \in Answers /\ Base(b) = p
      BY <1>7 DEF AnswersAt, Group, Base
    <3>2. CASE p = Tip(n)
      <4>1. PICK b \in Answers : Base(b) = Tip(n)
        BY <2>4, <3>1, <3>2
      <4>2. n < b
        BY <1>7, <1>8, <4>1
      <4> QED
        BY <1>7, <1>8, <4>2
    <3>3. CASE p = Start \/ \E a \in BranchAnswers : a < target /\ p = Tip(a)
      <4>1. p \in BranchPoints
        BY <1>13, <3>3
      <4>2. PICK b \in BranchAnswers : Base(b) = p
        BY <1>0, <1>1, <2>4, <3>1, <4>1 DEF BranchInv, BranchAnswers
      <4>3. CASE b < target
        BY <1>10, <1>12, <3>1, <4>2, <4>3
      <4>4. CASE b = target
        <5>1. Base(n) = p
          BY <1>5, <4>2, <4>4
        <5>2. n \in AnswersAt(p) /\ n \in active'
          BY <1>8, <1>10, <3>1, <5>1
        <5> QED
          BY <5>2
      <4>5. CASE b > target
        <5>1. Tip(target) <= p
          BY <1>0, <1>5, <1>12, <4>2, <4>5 DEF BranchInv
        <5>2. p < Tip(target)
          BY <1>5, <1>7, <1>12, <3>3 DEF Start
        <5> QED
          BY <1>5, <1>7, <1>12, <4>2, <5>1, <5>2
      <4> QED
        BY <1>5, <1>7, <1>12, <4>2, <4>3, <4>4, <4>5
    <3> QED
      BY <1>14, <3>2, <3>3
  <2>5. Branch' = active'
    BY <1>1 DEF Branch
  <2> QED
    BY <1>3, <2>1, <2>2, <2>3, <2>4, <2>5 DEF BranchInv
<1> QED
  BY <1>2, <1>4, <1>6, <1>16 DEF Branching

\* What hiding leaves is the branch as far as the place that is chosen anew.
LEMMA HideStep ==
  ASSUME TypeOK, Branching, Hide
  PROVE  Branching'
<1>0. /\ TreeInv /\ RestInv /\ DocumentInv /\ RetryInv /\ BranchInv /\ SafeInv /\ SelectInv
  BY DEF Branching
<1>1. /\ pc = "hide" /\ pc' = "show"
      /\ active' = {m \in active : m < Smallest(Group(Base(target)))}
      /\ UNCHANGED <<thread, hasVariants, messages, rested, head, stale, inputBase, target,
                     copy, keep, titler, titleCopy>>
  BY DEF Hide, Goto, document, graph, title, Base
<1>2. TreeInv' /\ RestInv'
  BY <1>0, <1>1, ShownTree
<1>3. /\ Ids' = Ids /\ Answers' = Answers /\ Questions' = Questions
      /\ \A m : Base(m)' = Base(m) /\ Tip(m)' = Tip(m)
      /\ \A p : AnswersAt(p)' = AnswersAt(p)
  BY <1>1, SameTree
<1>4. DocumentInv'
  BY <1>0, <1>1, <1>3 DEF DocumentInv
<1>5. RetryInv' /\ LeafInv' /\ SafeInv'
  BY <1>0, <1>1, <1>3 DEF RetryInv, LeafInv, SafeInv, SafeStream
<1>6. /\ Answers \subseteq Ids /\ Questions \subseteq Ids /\ Ids \subseteq Nat
      /\ \A m \in Ids : Base(m) \in Nat /\ Tip(m) \in Nat /\ Base(m) < Tip(m)
      /\ \A a \in Answers, m \in Ids : Tip(a) <= Base(m) => a < m
      /\ \A a \in Answers, m \in Ids : a < m => Tip(a) < Tip(m)
      /\ active \subseteq Ids
  BY <1>0, TreeOrder DEF TypeOK
<1>7. target \in Answers
  BY <1>0, <1>1 DEF RetryInv
<1> DEFINE lo == Smallest(Group(Base(target)))
<1>8. /\ lo \in Ids /\ Base(lo) = Base(target)
      /\ \A m \in Ids : Base(m) = Base(target) => lo <= m
  <2>1. /\ Group(Base(target)) \subseteq Ids /\ target \in Group(Base(target))
        /\ \A m : m \in Group(Base(target)) <=> m \in Ids /\ Base(m) = Base(target)
    BY <1>6, <1>7 DEF Group, Base
  <2>2. Group(Base(target)) \subseteq Nat /\ Group(Base(target)) # {}
    BY <1>6, <2>1
  <2>3. lo \in Group(Base(target)) /\ \A k \in Group(Base(target)) : lo <= k
    BY <2>2, SmallestIsLeast
  <2> HIDE DEF lo
  <2> QED
    BY <2>1, <2>3
<1> HIDE DEF lo
<1>9. active' = {m \in active : m < lo}
  BY <1>1 DEF lo
<1>10. /\ Branch = active /\ Branch' = active' /\ BranchAnswers \subseteq Answers
       /\ BranchAnswers' = {a \in BranchAnswers : a < lo}
  <2>1. /\ Branch = active /\ Branch' = active'
    BY <1>1 DEF Branch
  <2> QED
    BY <1>3, <1>9, <2>1 DEF BranchAnswers
<1>11. \A p : p \in BranchPoints <=> p = Start \/ \E a \in BranchAnswers : p = Tip(a)
  BY DEF BranchPoints
<1>12. \A p : p \in BranchPoints' <=> p = Start \/ \E a \in BranchAnswers : a < lo /\ p = Tip(a)
  <2>1. BranchPoints' = {Start} \cup {Tip(a)' : a \in BranchAnswers'}
    BY DEF BranchPoints
  <2> QED
    BY <1>3, <1>10, <2>1
<1>13. PICK s \in BranchAnswers : Base(s) = Base(target)
  BY <1>0, <1>1, <1>10 DEF SelectInv, BranchAnswers, ShownAnswers
\* The branch comes to the place, and nothing of it that is left lies beyond.
<1>14. ASSUME NEW a \in BranchAnswers, a < lo PROVE Tip(a) <= Base(target)
  <2>1. lo <= s /\ lo \in Nat /\ a \in Nat /\ s \in Nat
    BY <1>6, <1>8, <1>10, <1>13
  <2>2. a < s
    BY <1>14, <2>1
  <2>3. Tip(a) <= Base(s)
    BY <1>0, <2>2 DEF BranchInv
  <2> QED
    BY <1>13, <2>3
<1>15. ASSUME NEW m \in Ids, m <= lo \/ Base(m) = Base(target), Base(m) \in BranchPoints
       PROVE  Base(m) \in BranchPoints'
  <2>1. CASE Base(m) = Start
    BY <1>12, <2>1
  <2>2. CASE \E b \in BranchAnswers : Base(m) = Tip(b)
    <3>1. PICK b \in BranchAnswers : Base(m) = Tip(b)
      BY <2>2
    <3>2. b \in Answers /\ b \in Nat /\ lo \in Nat /\ m \in Nat
      BY <1>6, <1>8, <1>10
    <3>3. b < m /\ (Base(m) = Base(target) => b < lo)
      BY <1>6, <1>8, <3>1, <3>2
    <3>4. b < lo
      BY <1>15, <3>2, <3>3
    <3> QED
      BY <1>12, <3>1, <3>4
  <2> QED
    BY <1>11, <1>15, <2>1, <2>2
<1>16. Base(target) \in BranchPoints'
  <2>1. Base(s) \in BranchPoints /\ s \in Ids
    BY <1>0, <1>6, <1>10 DEF BranchInv
  <2> QED
    BY <1>13, <1>15, <2>1
<1>17. SelectInv'
  <2>1. /\ KeepsPath(Answers \cap keep, target)
        /\ \A b \in Answers \cap keep :
            \E q \in Questions \cap keep : q < b /\ Base(q) = Base(b)
    BY <1>0, <1>1 DEF SelectInv
  <2>2. KeepsPath(Answers \cap keep, target)'
    BY <1>1, <1>3, <2>1 DEF KeepsPath
  <2>3. \A b \in (Answers \cap keep)' :
            \E q \in (Questions \cap keep)' : q < b /\ Base(q)' = Base(b)'
    BY <1>1, <1>3, <2>1
  <2>4. Base(target)' = Base(target)
    BY <1>1 DEF Base
  <2>5. \A a \in BranchAnswers' : Tip(a)' <= Base(target)'
    BY <1>3, <1>10, <1>14, <2>4
  <2>6. Base(target)' \in BranchPoints'
    BY <1>16, <2>4
  <2> QED
    BY <1>1, <2>2, <2>3, <2>5, <2>6 DEF SelectInv
<1>18. BranchInv'
  <2>1. \A a \in BranchAnswers' : Base(a)' \in BranchPoints'
    <3>1. \A a \in BranchAnswers : Base(a) \in BranchPoints
      BY <1>0 DEF BranchInv
    <3>2. ASSUME NEW a \in BranchAnswers' PROVE Base(a) \in BranchPoints'
      <4>1. a \in BranchAnswers /\ a \in Ids /\ a <= lo
        BY <1>6, <1>8, <1>10
      <4> QED
        BY <1>15, <3>1, <4>1
    <3> QED
      BY <1>3, <3>2
  <2>2. \A a, b \in BranchAnswers' : a < b => Tip(a)' <= Base(b)'
    <3>1. \A a, b \in BranchAnswers : a < b => Tip(a) <= Base(b)
      BY <1>0 DEF BranchInv
    <3> QED
      BY <1>3, <1>10, <3>1
  <2>3. \A a \in BranchAnswers' :
            \E q \in Questions' \cap active' : q < a /\ Base(q)' = Base(a)'
    <3>1. ASSUME NEW a \in BranchAnswers'
          PROVE  \E q \in Questions \cap active' : q < a /\ Base(q) = Base(a)
      <4>1. a \in BranchAnswers /\ a < lo /\ a \in Nat /\ lo \in Nat
        BY <1>6, <1>8, <1>10
      <4>2. PICK q \in Questions \cap active : q < a /\ Base(q) = Base(a)
        BY <1>0, <4>1 DEF BranchInv
      <4>3. q \in Nat /\ q < lo
        BY <1>6, <4>1, <4>2
      <4> QED
        BY <1>9, <4>2, <4>3
    <3> QED
      BY <1>3, <3>1
  <2>4. ASSUME NEW p \in BranchPoints', AnswersAt(p) # {}
        PROVE  AnswersAt(p) \cap active' # {} \/ p = Base(target)
    <3>1. \A b : b \in AnswersAt(p) <=> b \in Answers /\ Base(b) = p
      BY <1>6 DEF AnswersAt, Group, Base
    <3>2. p \in BranchPoints
      BY <1>11, <1>12
    <3>3. PICK b \in BranchAnswers : Base(b) = p
      BY <1>0, <1>1, <2>4, <3>1, <3>2 DEF BranchInv, BranchAnswers
    <3>4. b \in Answers /\ b \in active /\ b \in Nat /\ lo \in Nat
      BY <1>6, <1>8, <1>10, <3>3 DEF BranchAnswers
    <3>5. CASE b < lo
      BY <1>9, <3>1, <3>3, <3>4, <3>5
    <3>6. CASE ~(b < lo)
      <4>1. p \in Nat /\ Base(target) \in Nat
        BY <1>6, <1>7, <3>3, <3>4
      <4>2. p <= Base(target)
        <5>1. p = Start \/ \E a \in BranchAnswers : a < lo /\ p = Tip(a)
          BY <1>12
        <5> QED
          BY <1>14, <4>1, <5>1 DEF Start
      <4>3. Base(target) <= p
        <5>1. CASE Base(target) = Start
          BY <4>1, <5>1 DEF Start
        <5>2. CASE \E c \in BranchAnswers : c < lo /\ Base(target) = Tip(c)
          <6>1. PICK c \in BranchAnswers : c < lo /\ Base(target) = Tip(c)
            BY <5>2
          <6>2. c < b
            <7>1. c \in Nat
              BY <1>6, <1>10
            <7> QED
              BY <3>4, <3>6, <6>1, <7>1
          <6>3. Tip(c) <= Base(b)
            BY <1>0, <3>3, <6>2 DEF BranchInv
          <6> QED
            BY <3>3, <6>1, <6>3
        <5> QED
          BY <1>12, <1>16, <5>1, <5>2
      <4> QED
        BY <4>1, <4>2, <4>3
    <3> QED
      BY <3>5, <3>6
  <2>5. Base(target)' = Base(target)
    BY <1>1 DEF Base
  <2> QED
    BY <1>1, <1>3, <1>10, <2>1, <2>2, <2>3, <2>4, <2>5 DEF BranchInv
<1> QED
  BY <1>2, <1>4, <1>5, <1>17, <1>18 DEF Branching

\* What is shown then continues it with the path that is kept.
LEMMA ShowStep ==
  ASSUME TypeOK, Branching, Show
  PROVE  Branching'
<1>0. /\ TreeInv /\ RestInv /\ DocumentInv /\ RetryInv /\ BranchInv /\ SafeInv /\ SelectInv
  BY DEF Branching
<1>1. /\ pc = "show" /\ pc' = "idle" /\ target' = NoMessage /\ copy' = FALSE
      /\ active' = active \cup keep
      /\ UNCHANGED <<thread, hasVariants, messages, rested, head, stale, inputBase, titler,
                     titleCopy>>
  BY DEF Show, End, Goto, document, graph, title
<1>2. TreeInv' /\ RestInv'
  BY <1>0, <1>1, ShownTree
<1>3. /\ Ids' = Ids /\ Answers' = Answers /\ Questions' = Questions
      /\ \A m : Base(m)' = Base(m) /\ Tip(m)' = Tip(m)
      /\ \A p : AnswersAt(p)' = AnswersAt(p)
  BY <1>1, SameTree
<1>4. DocumentInv'
  BY <1>0, <1>1, <1>3 DEF DocumentInv
<1>5. RetryInv' /\ LeafInv' /\ SafeInv' /\ SelectInv'
  BY <1>0, <1>1 DEF RetryInv, LeafInv, SafeInv, SafeStream, SelectInv
<1>6. /\ Answers \subseteq Ids /\ Questions \subseteq Ids /\ Ids \subseteq Nat
      /\ \A m \in Ids : Base(m) \in Nat /\ Tip(m) \in Nat /\ Base(m) < Tip(m)
      /\ \A a \in Answers, m \in Ids : Tip(a) <= Base(m) => a < m
      /\ \A a \in Answers, m \in Ids : a < m => Tip(a) < Tip(m)
      /\ active \subseteq Ids
  BY <1>0, TreeOrder DEF TypeOK
<1>7. target \in Answers
  BY <1>0, <1>1 DEF RetryInv
<1> DEFINE K == Answers \cap keep
<1>8. /\ target \in K
      /\ \A b \in K : Base(b) >= Base(target) /\ (b = target \/ \E c \in K : Base(b) = Tip(c))
      /\ \A a, b \in K : a < b => Tip(a) <= Base(b)
      /\ \A b \in K : AnswersAt(Tip(b)) # {} => \E c \in K : Base(c) = Tip(b)
  BY <1>0, <1>1 DEF SelectInv, KeepsPath
<1>9. /\ \A b \in K : \E q \in Questions \cap keep : q < b /\ Base(q) = Base(b)
      /\ Base(target) \in BranchPoints
      /\ \A a \in BranchAnswers : Tip(a) <= Base(target)
  BY <1>0, <1>1 DEF SelectInv
<1>10. K \subseteq Answers
  OBVIOUS
<1>11. /\ Branch = active /\ Branch' = active \cup keep /\ BranchAnswers \subseteq Answers
       /\ BranchAnswers' = BranchAnswers \cup K
  <2>1. /\ Branch = active /\ Branch' = active \cup keep
    BY <1>1 DEF Branch
  <2> QED
    BY <1>3, <2>1 DEF BranchAnswers
<1> HIDE DEF K
<1>12. \A p : p \in BranchPoints <=> p = Start \/ \E a \in BranchAnswers : p = Tip(a)
  BY DEF BranchPoints
<1>13. \A p : p \in BranchPoints' <=> p \in BranchPoints \/ \E b \in K : p = Tip(b)
  <2>1. BranchPoints' = {Start} \cup {Tip(a)' : a \in BranchAnswers'}
    BY DEF BranchPoints
  <2> QED
    BY <1>3, <1>11, <1>12, <2>1
<1>14. BranchInv'
  <2>1. \A a \in BranchAnswers' : Base(a)' \in BranchPoints'
    <3>1. \A a \in BranchAnswers : Base(a) \in BranchPoints
      BY <1>0 DEF BranchInv
    <3> QED
      BY <1>3, <1>8, <1>9, <1>11, <1>13, <3>1
  <2>2. ASSUME NEW a \in BranchAnswers', NEW b \in BranchAnswers', a < b
        PROVE  Tip(a) <= Base(b)
    <3>1. a \in Ids /\ b \in Ids /\ a \in Answers /\ b \in Answers /\ target \in Ids
      BY <1>6, <1>7, <1>10, <1>11
    <3>2. CASE a \in BranchAnswers /\ b \in BranchAnswers
      BY <1>0, <2>2, <3>2 DEF BranchInv
    <3>3. CASE a \in K /\ b \in K
      BY <1>8, <2>2, <3>3
    <3>4. CASE a \in BranchAnswers /\ b \in K
      BY <1>6, <1>8, <1>9, <3>1, <3>4
    <3>5. CASE a \in K /\ b \in BranchAnswers
      <4>1. Tip(b) <= Base(target) /\ Base(target) <= Base(a)
        BY <1>6, <1>8, <1>9, <3>1, <3>5
      <4>2. Tip(a) < Tip(b)
        BY <1>6, <2>2, <3>1
      <4> QED
        BY <1>6, <3>1, <4>1, <4>2
    <3> QED
      BY <1>11, <3>2, <3>3, <3>4, <3>5
  <2>3. \A a \in BranchAnswers' :
            \E q \in Questions' \cap active' : q < a /\ Base(q)' = Base(a)'
    <3>1. \A a \in BranchAnswers : \E q \in Questions \cap active : q < a /\ Base(q) = Base(a)
      BY <1>0 DEF BranchInv
    <3>2. \A a \in BranchAnswers \cup K :
              \E q \in Questions \cap (active \cup keep) : q < a /\ Base(q) = Base(a)
      BY <1>9, <3>1
    <3> QED
      BY <1>1, <1>3, <1>11, <3>2
  <2>4. ASSUME NEW p \in BranchPoints', AnswersAt(p) # {}
        PROVE  AnswersAt(p) \cap Branch' # {}
    <3>1. \A b : b \in AnswersAt(p) <=> b \in Answers /\ Base(b) = p
      BY <1>6 DEF AnswersAt, Group, Base
    <3>2. CASE p = Base(target)
      BY <1>7, <1>8, <1>11, <3>1, <3>2 DEF K
    <3>3. CASE p # Base(target) /\ p \in BranchPoints
      <4>1. AnswersAt(p) \cap Branch # {}
        BY <1>0, <1>1, <2>4, <3>3 DEF BranchInv
      <4> QED
        BY <1>11, <4>1
    <3>4. CASE \E b \in K : p = Tip(b)
      <4>1. PICK c \in K : Base(c) = p
        BY <1>8, <2>4, <3>4
      <4> QED
        BY <1>11, <3>1, <4>1 DEF K
    <3> QED
      BY <1>13, <3>2, <3>3, <3>4
  <2>5. \A a, b \in BranchAnswers' : a < b => Tip(a)' <= Base(b)'
    BY <1>3, <2>2
  <2>6. \A p \in BranchPoints' : AnswersAt(p)' # {} => AnswersAt(p)' \cap Branch' # {}
    BY <1>3, <2>4
  <2> QED
    BY <2>1, <2>3, <2>5, <2>6 DEF BranchInv
<1> QED
  BY <1>2, <1>4, <1>5, <1>14 DEF Branching

-----------------------------------------------------------------------------
(* What is shown                                                           *)

LEMMA BranchingStep ==
  ASSUME Sheltered, TypeOK, Branching, [Next]_vars
  PROVE  Branching'
<1>1. CASE \/ CreateThread \/ BeginResume \/ Touch \/ SetFlag \/ Interrupt
           \/ BeginRename \/ Delete \/ \E m \in Ids : BeginRetry(m)
  BY <1>1, RequestSteps
<1>2. CASE SaveTitle
  BY <1>2, TitleStep
<1>3. CASE EnterTurn \/ EnterRetry \/ StreamEnds
  BY <1>3, EnterTurnStep, EnterRetryStep, StreamEndsStep
<1>4. CASE InsertHuman \/ InsertAnswer
  BY <1>4, InsertHumanStep, InsertAnswerStep
<1>5. CASE Supersede \/ Hide \/ Show
  BY <1>5, SupersedeStep, HideStep, ShowStep
<1>6. CASE \E m \in Ids : BeginSelect(m)
  BY <1>6, BeginSelectStep
<1>7. CASE UNCHANGED vars
  <2>1. UNCHANGED <<thread, hasVariants, messages, active, rested, head, stale, inputBase,
                    pc, target, parent, copy, keep, titler, titleCopy>>
    BY <1>7 DEF vars, document, store, graph, conversation, title
  <2>2. /\ Ids' = Ids /\ Answers' = Answers /\ Questions' = Questions
        /\ \A m : Base(m)' = Base(m) /\ Tip(m)' = Tip(m)
        /\ \A p : Group(p)' = Group(p) /\ AnswersAt(p)' = AnswersAt(p)
    BY <2>1, SameTree
  <2>3. /\ Branch' = Branch /\ BranchAnswers' = BranchAnswers /\ ShownAnswers' = ShownAnswers
        /\ BranchPoints' = BranchPoints /\ SafeStream' = SafeStream
    BY <2>1, <2>2 DEF Branch, BranchAnswers, ShownAnswers, BranchPoints, SafeStream
  <2>4. TreeInv'
    <3>1. OneQuestionPerTurn'
      BY <2>1, <2>2 DEF Branching, TreeInv, OneQuestionPerTurn
    <3> QED
      BY <2>1, <2>2, <3>1 DEF Branching, TreeInv
  <2>5. RestInv' /\ DocumentInv'
    BY <2>1, <2>2 DEF Branching, RestInv, DocumentInv
  <2>6. LeafInv' /\ RetryInv' /\ SafeInv'
    BY <2>1, <2>2, <2>3 DEF Branching, LeafInv, RetryInv, SafeInv
  <2>7. BranchInv'
    BY <2>1, <2>2, <2>3 DEF Branching, BranchInv
  <2>8. SelectInv'
    BY <2>1, <2>2, <2>3 DEF Branching, SelectInv, KeepsPath
  <2> QED
    BY <2>4, <2>5, <2>6, <2>7, <2>8 DEF Branching
<1> QED
  BY <1>1, <1>2, <1>3, <1>4, <1>5, <1>6, <1>7 DEF Next, Conversation

LEMMA BranchingAlways == Sheltered /\ Spec => [](TypeOK /\ Branching)
<1> SUFFICES ASSUME Sheltered PROVE Spec => [](TypeOK /\ Branching)
  OBVIOUS
<1>1. Init => Branching
  BY BranchingInit
<1>2. TypeOK /\ Branching /\ [Next]_vars => Branching'
  BY BranchingStep
<1>3. Spec => []TypeOK
  BY ThreadTypes
<1> QED
  BY <1>1, <1>2, <1>3, PTL DEF Spec

(* What the page shows is one conversation: each answer follows the start  *)
(* or a shown answer, after its question, and a question shows one answer  *)
(* -- ChatMessageDocument.active lies "on the thread's currently selected  *)
(* branch".                                                                *)
THEOREM ShownIsOneConversation == Sheltered /\ Spec => []OneConversation
<1>1. TypeOK /\ Branching => OneConversation
  <2> SUFFICES ASSUME TypeOK, Branching, pc # "supersede", NEW a \in ShownAnswers
               PROVE  /\ messages[a].parent \in Points
                      /\ AnswersAt(messages[a].parent) \cap active = {a}
                      /\ \E q \in Questions \cap active :
                             q < a /\ messages[q].parent = messages[a].parent
    BY DEF OneConversation
  <2>1. /\ Branch = active /\ BranchAnswers = ShownAnswers /\ BranchPoints = Points
        /\ TreeInv /\ BranchInv
    BY DEF Branching, Branch, BranchAnswers, ShownAnswers, BranchPoints, Points, Tip
  <2>2. /\ Answers \subseteq Ids /\ Ids \subseteq Nat
        /\ \A m \in Ids : Base(m) \in Nat /\ Tip(m) \in Nat /\ Base(m) < Tip(m)
    BY MessageTypes
  <2>3. \A b : b \in AnswersAt(Base(a)) \cap active <=> b \in ShownAnswers /\ Base(b) = Base(a)
    BY <2>2 DEF AnswersAt, Group, Base, ShownAnswers
  <2>4. ASSUME NEW b \in ShownAnswers, Base(b) = Base(a) PROVE b = a
    <3>1. a \in Ids /\ b \in Ids
      BY <2>2 DEF ShownAnswers
    <3>2. (a < b => Tip(a) <= Base(b)) /\ (b < a => Tip(b) <= Base(a))
      BY <2>1 DEF BranchInv
    <3> QED
      BY <2>2, <2>4, <3>1, <3>2
  <2>5. AnswersAt(Base(a)) \cap active = {a}
    BY <2>3, <2>4
  <2>6. Base(a) \in Points /\ \E q \in Questions \cap active : q < a /\ Base(q) = Base(a)
    BY <2>1 DEF BranchInv
  <2> QED
    BY <2>5, <2>6 DEF Base
<1> QED
  BY <1>1, BranchingAlways, PTL

(* has_variants is up before another answer can be found, so that the      *)
(* reads that go by it miss none -- ChatThreadDocument.has_variants.       *)
THEOREM FlagIsUpInTime == Sheltered /\ Spec => []FlagCoversVariants
<1>1. Branching => FlagCoversVariants
  BY DEF Branching, DocumentInv, FlagCoversVariants, Base
<1> QED
  BY <1>1, BranchingAlways, PTL

-----------------------------------------------------------------------------
(* The tree of messages, whatever overlaps.  A rename that puts an old      *)
(* document back may lower the flag, and a turn then follows the graph's    *)
(* own place instead of the shown branch; but it still finds a place that   *)
(* nothing follows yet.                                                     *)
TurnsOnly == Interruptible \subseteq {"turn"}

\* Nothing follows checkpoint p.
Free(p) == \A m \in Ids : Base(m) # p

\* The place of a turn that is under way.
PlaceInv ==
    pc \in {"stream", "human", "answer"} /\ target = NoMessage =>
        /\ Grown(parent) /\ AnswersAt(parent) = {}
        /\ IF pc = "answer" THEN \E q \in Questions : Base(q) = parent
           ELSE Questions \cap Group(parent) = {}

\* The place where a turn restarts after one that was cut short.
RestartInv ==
    stale =>
        /\ pc \notin {"human", "answer"}
        /\ ~(pc = "stream" /\ target # NoMessage) => Grown(inputBase) /\ Free(inputBase)

\* Nothing follows the last answer that is shown.
EndInv ==
    pc # "show" =>
        \A a \in ShownAnswers :
            (\A b \in ShownAnswers : b <= a) => AnswersAt(Tip(a)) = {}

\* What a selection is about to show reaches an end as well.
PickInv ==
    /\ pc \in {"hide", "show"} => KeepsPath(Answers \cap keep, target)
    /\ pc = "show" => \A m \in active : m <= target

Growing ==
    /\ TreeInv /\ RestInv /\ RetryInv
    /\ PlaceInv /\ RestartInv /\ EndInv /\ PickInv

LEMMA GrowingInit == Init => Growing
<1> SUFFICES ASSUME Init PROVE Growing
  OBVIOUS
<1>1. TypeOK /\ TreeInv /\ RestInv /\ RetryInv
  BY BranchingInit, TypedInit DEF Branching, Typed
<1>2. ShownAnswers = {} /\ pc = "idle" /\ stale = FALSE
  BY DEF Init, ShownAnswers
<1> QED
  BY <1>1, <1>2 DEF Growing, PlaceInv, RestartInv, EndInv, PickInv

\* Steps of the tree leave the places as they are if they store nothing.
LEMMA SamePlaces ==
  ASSUME messages' = messages
  PROVE  /\ Ids' = Ids /\ Answers' = Answers /\ Questions' = Questions
         /\ \A m : Base(m)' = Base(m) /\ Tip(m)' = Tip(m)
         /\ \A p : Group(p)' = Group(p) /\ AnswersAt(p)' = AnswersAt(p)
         /\ \A p : Grown(p)' = Grown(p) /\ Free(p)' = Free(p)
         /\ active' = active => ShownAnswers' = ShownAnswers
BY SameTree DEF Grown, Free, ShownAnswers

\* A checkpoint without answers and questions is free, and conversely.
LEMMA FreePlace ==
  ASSUME TypeOK, NEW p
  PROVE  Free(p) <=> AnswersAt(p) = {} /\ Questions \cap Group(p) = {}
<1>1. Answers \subseteq Ids /\ Questions \subseteq Ids /\ Answers \cup Questions = Ids
  BY MessageTypes
<1>2. \A m : /\ m \in AnswersAt(p) <=> m \in Answers /\ Base(m) = p
             /\ m \in Questions \cap Group(p) <=> m \in Questions /\ Base(m) = p
  BY <1>1 DEF AnswersAt, Group, Base
<1> QED
  BY <1>1, <1>2 DEF Free

\* Nothing follows the checkpoint at which the last stream came to rest.
LEMMA RestIsFree ==
  ASSUME TypeOK
  PROVE  Free(rested)
<1>1. \A m \in Ids : Base(m) \in Nat /\ Tip(m) \in Nat /\ Base(m) < Tip(m) /\ Tip(m) <= rested
  BY MessageTypes
<1>2. rested \in Nat
  BY MessageTypes
<1> QED
  BY <1>1, <1>2 DEF Free

\* The rest of the conversation is not touched by what happens to the document.
LEMMA DocumentSteps ==
  ASSUME TypeOK, Growing, UNCHANGED <<messages, active, rested, head, stale, inputBase, pc,
                                      target, parent, keep>>
  PROVE  Growing'
<1>1. /\ Ids' = Ids /\ Answers' = Answers /\ Questions' = Questions
      /\ \A m : Base(m)' = Base(m) /\ Tip(m)' = Tip(m)
      /\ \A p : Group(p)' = Group(p) /\ AnswersAt(p)' = AnswersAt(p)
      /\ \A p : Grown(p)' = Grown(p) /\ Free(p)' = Free(p)
      /\ ShownAnswers' = ShownAnswers
  BY SamePlaces
<1>2. TreeInv' /\ RestInv'
  <2>1. OneQuestionPerTurn'
    BY <1>1 DEF Growing, TreeInv, OneQuestionPerTurn
  <2>2. TreeInv'
    BY <1>1, <2>1 DEF Growing, TreeInv
  <2> QED
    BY <1>1, <2>2 DEF Growing, RestInv
<1>3. RetryInv'
  BY <1>1 DEF Growing, RetryInv
<1>4. PlaceInv' /\ RestartInv' /\ EndInv'
  BY <1>1 DEF Growing, PlaceInv, RestartInv, EndInv
<1>5. PickInv'
  BY <1>1 DEF Growing, PickInv, KeepsPath
<1> QED
  BY <1>2, <1>3, <1>4, <1>5 DEF Growing

\* A request that begins, goes on to the stream, is cut short or is over.
LEMMA QuietGrowing ==
  ASSUME TypeOK, Growing, UNCHANGED <<messages, active, rested, head, stale, inputBase>>,
         pc \notin {"human", "answer", "supersede", "show"},
         ~(pc = "stream" /\ target # NoMessage),
         pc' \in {"idle", "touch", "enter"},
         target' = NoMessage \/ (pc' # "idle" /\ target' \in ShownAnswers)
  PROVE  Growing'
<1>1. /\ Ids' = Ids /\ Answers' = Answers /\ Questions' = Questions
      /\ \A m : Base(m)' = Base(m) /\ Tip(m)' = Tip(m)
      /\ \A p : Group(p)' = Group(p) /\ AnswersAt(p)' = AnswersAt(p)
      /\ \A p : Grown(p)' = Grown(p) /\ Free(p)' = Free(p)
      /\ ShownAnswers' = ShownAnswers
  BY SamePlaces
<1>2. TreeInv' /\ RestInv'
  BY ShownTree DEF Growing
<1>3. RetryInv'
  BY <1>1 DEF RetryInv
<1>4. PlaceInv' /\ RestartInv' /\ EndInv' /\ PickInv'
  BY <1>1 DEF Growing, PlaceInv, RestartInv, EndInv, PickInv
<1> QED
  BY <1>2, <1>3, <1>4 DEF Growing

\* Where a turn enters, nothing follows yet.
LEMMA EntryIsFree ==
  ASSUME TypeOK, Growing, pc = "enter"
  PROVE  Grown(EntryPoint) /\ Free(EntryPoint)
<1>1. CASE copy /\ ShownAnswers # {}
  <2> DEFINE l == Largest(ShownAnswers)
  <2>1. l \in ShownAnswers /\ (\A k \in ShownAnswers : k <= l) /\ l \in Answers
    BY <1>1, LargestIsLast, MessageTypes
  <2>2. EntryPoint = Tip(l)
    BY <1>1 DEF EntryPoint, Tip
  <2> HIDE DEF l
  <2>3. AnswersAt(Tip(l)) = {}
    BY <2>1 DEF Growing, EndInv
  <2>4. ASSUME NEW q \in Questions \cap Group(Tip(l)) PROVE FALSE
    <3>1. PICK a \in Answers : Base(a) = Base(q)
      BY DEF Growing, TreeInv
    <3>2. Base(q) = Tip(l)
      BY DEF Group, Base
    <3>3. a \in Ids /\ Base(a) = Tip(l)
      BY <3>1, <3>2, MessageTypes
    <3>4. a \in AnswersAt(Tip(l))
      BY <3>3 DEF AnswersAt, Group, Base
    <3> QED
      BY <2>3, <3>4
  <2> QED
    BY <2>1, <2>2, <2>3, <2>4, FreePlace DEF Grown
<1>2. CASE ~(copy /\ ShownAnswers # {}) /\ stale
  <2>1. EntryPoint = inputBase
    BY <1>2 DEF EntryPoint, SafeStream
  <2> QED
    BY <1>2, <2>1 DEF Growing, RestartInv
<1>3. CASE ~(copy /\ ShownAnswers # {}) /\ ~stale
  <2>1. EntryPoint = rested
    BY <1>3 DEF EntryPoint, SafeStream, Growing, TreeInv
  <2>2. Grown(rested)
    BY DEF Growing, RestInv, Grown, Start
  <2> QED
    BY <2>1, <2>2, RestIsFree
<1> QED
  BY <1>1, <1>2, <1>3

LEMMA GrowingRequests ==
  ASSUME TurnsOnly, TypeOK, Growing,
         \/ CreateThread \/ BeginResume \/ Touch \/ SetFlag \/ Interrupt
         \/ BeginRename \/ SaveTitle \/ Delete \/ UNCHANGED vars
         \/ \E m \in Ids : BeginRetry(m)
  PROVE  Growing'
<1> USE DEF Goto, document, store, graph, title, conversation
<1>0. RetryInv
  BY DEF Growing
<1>1. CASE CreateThread \/ BeginResume
  <2>1. /\ pc = "idle" /\ pc' \in {"touch", "enter"} /\ target = NoMessage /\ target' = target
        /\ UNCHANGED <<messages, active, rested, head, stale, inputBase>>
    BY <1>0, <1>1 DEF CreateThread, BeginResume, RetryInv
  <2> QED
    BY <2>1, QuietGrowing
<1>2. ASSUME NEW m \in Ids, BeginRetry(m) PROVE Growing'
  <2>1. /\ pc = "idle" /\ pc' = "touch" /\ target' = m /\ m \in ShownAnswers
        /\ UNCHANGED <<messages, active, rested, head, stale, inputBase>>
    BY <1>2 DEF BeginRetry
  <2> QED
    BY <2>1, QuietGrowing
<1>3. CASE Touch
  <2>1. /\ pc = "touch" /\ pc' = "enter" /\ target' = target
        /\ UNCHANGED <<messages, active, rested, head, stale, inputBase>>
    BY <1>3 DEF Touch
  <2>2. target = NoMessage \/ target \in ShownAnswers
    BY <1>0, <2>1 DEF RetryInv
  <2> QED
    BY <2>1, <2>2, QuietGrowing
<1>4. CASE SetFlag
  <2>1. /\ pc = "flag" /\ pc' = "idle" /\ target' = NoMessage
        /\ UNCHANGED <<messages, active, rested, head, stale, inputBase>>
    BY <1>4 DEF SetFlag, End
  <2> QED
    BY <2>1, QuietGrowing
<1>5. CASE Interrupt
  <2>1. PICK from \in Steps \ {"idle"} :
          /\ from = "stream" /\ target # NoMessage => "retry" \in Interruptible
          /\ from \in Storing => "store" \in Interruptible
          /\ End(from)
    BY <1>5 DEF Interrupt
  <2>2. "retry" \notin Interruptible /\ "store" \notin Interruptible
    BY DEF TurnsOnly
  <2>3. pc = from /\ pc' = "idle" /\ target' = NoMessage
    BY <2>1 DEF End
  <2>4. from \in {"touch", "enter", "stream"} /\ ~(pc = "stream" /\ target # NoMessage)
    BY <2>1, <2>2, <2>3 DEF Steps, Storing
  <2>5. UNCHANGED <<messages, active, rested, head, stale, inputBase>>
    BY <1>5 DEF Interrupt
  <2> QED
    BY <2>3, <2>4, <2>5, QuietGrowing
<1>6. CASE BeginRename \/ SaveTitle \/ Delete \/ UNCHANGED vars
  <2>1. UNCHANGED <<messages, active, rested, head, stale, inputBase, pc, target, parent, keep>>
    BY <1>6 DEF BeginRename, SaveTitle, Delete, vars
  <2> QED
    BY <2>1, DocumentSteps
<1> QED
  BY <1>1, <1>2, <1>3, <1>4, <1>5, <1>6

LEMMA GrowingStreams ==
  ASSUME TypeOK, Growing, EnterTurn \/ EnterRetry \/ StreamEnds
  PROVE  Growing'
<1> USE DEF Goto, document, store, graph, title
<1>0. TreeInv /\ RestInv /\ RetryInv /\ EndInv
  BY DEF Growing
<1>1. CASE EnterTurn
  <2>1. /\ pc = "enter" /\ pc' = "stream" /\ target = NoMessage /\ target' = NoMessage
        /\ parent' = EntryPoint /\ inputBase' = EntryPoint /\ stale' = TRUE
        /\ UNCHANGED <<messages, active, rested, head>>
    BY <1>1 DEF EnterTurn
  <2>2. /\ AnswersAt(EntryPoint) = {} /\ Questions \cap Group(EntryPoint) = {}
        /\ Grown(EntryPoint) /\ Free(EntryPoint)
    BY <2>1, EntryIsFree, FreePlace
  <2>3. /\ Questions' = Questions
        /\ \A p : Group(p)' = Group(p) /\ AnswersAt(p)' = AnswersAt(p)
        /\ \A m : Tip(m)' = Tip(m) /\ ShownAnswers' = ShownAnswers
        /\ \A p : Grown(p)' = Grown(p) /\ Free(p)' = Free(p)
    BY <2>1, SamePlaces
  <2>4. PlaceInv'
    <3>1. AnswersAt(parent)' = AnswersAt(parent') /\ Group(parent)' = Group(parent')
      BY <2>1 DEF AnswersAt, Group, Answers, Ids
    <3>2. Grown(parent)' = Grown(parent')
      BY <2>1, <2>3 DEF Grown, Answers, Ids, Tip
    <3> QED
      BY <2>1, <2>2, <2>3, <3>1, <3>2 DEF PlaceInv
  <2>5. RestartInv'
    <3>1. (Grown(inputBase))'
      BY <2>1, <2>2, SameTree DEF Grown
    <3>2. (Free(inputBase))'
      BY <2>1, <2>2, SameTree DEF Free
    <3> QED
      BY <2>1, <3>1, <3>2 DEF RestartInv
  <2>6. RetryInv' /\ EndInv' /\ PickInv'
    BY <1>0, <2>1, <2>3 DEF RetryInv, EndInv, PickInv
  <2> QED
    BY <1>0, <2>1, <2>4, <2>5, <2>6, ShownTree DEF Growing
<1>2. CASE EnterRetry
  <2>1. /\ pc = "enter" /\ pc' = "stream" /\ target # NoMessage /\ target' = target
        /\ parent' = Base(target)
        /\ UNCHANGED <<messages, active, rested, head>>
    BY <1>2 DEF EnterRetry, Base
  <2>2. /\ ShownAnswers' = ShownAnswers /\ Base(target)' = Base(target)
        /\ \A p : AnswersAt(p)' = AnswersAt(p)
        /\ \A m : Tip(m)' = Tip(m)
    BY <2>1, SamePlaces DEF Base
  <2>3. RetryInv'
    BY <1>0, <2>1, <2>2 DEF RetryInv
  <2>4. PlaceInv' /\ RestartInv' /\ EndInv' /\ PickInv'
    BY <1>0, <2>1, <2>2 DEF PlaceInv, RestartInv, EndInv, PickInv
  <2> QED
    BY <1>0, <2>1, <2>3, <2>4, ShownTree DEF Growing
<1>3. CASE StreamEnds
  <2>1. /\ pc = "stream" /\ pc' = FirstToStore /\ rested' = rested + 1 /\ head' = rested + 1
        /\ stale' = FALSE
        /\ UNCHANGED <<messages, active, target, parent>>
    BY <1>3 DEF StreamEnds
  <2>2. \/ pc' = "human" /\ target = NoMessage
        \/ pc' = "answer" /\ target # NoMessage
    BY <2>1 DEF FirstToStore
  <2>3. /\ Ids' = Ids /\ Answers' = Answers /\ Questions' = Questions
        /\ \A m : Base(m)' = Base(m) /\ Tip(m)' = Tip(m)
        /\ \A p : Group(p)' = Group(p) /\ AnswersAt(p)' = AnswersAt(p)
        /\ \A p : Grown(p)' = Grown(p)
        /\ ShownAnswers' = ShownAnswers
    BY <2>1, SamePlaces
  <2>4. TreeInv' /\ RestInv'
    BY <1>0, <2>1, <2>2, StreamEndsTree
  <2>5. PlaceInv'
    <3>1. CASE target = NoMessage
      <4>1. Grown(parent) /\ AnswersAt(parent) = {} /\ Questions \cap Group(parent) = {}
        BY <2>1, <3>1 DEF Growing, PlaceInv
      <4>2. /\ Grown(parent)' = Grown(parent) /\ AnswersAt(parent)' = AnswersAt(parent)
            /\ Group(parent)' = Group(parent)
        BY <2>1, <2>3 DEF Grown, AnswersAt, Group
      <4> QED
        BY <2>2, <2>3, <3>1, <4>1, <4>2 DEF PlaceInv
    <3>2. CASE target # NoMessage
      BY <2>1, <3>2 DEF PlaceInv
    <3> QED
      BY <3>1, <3>2
  <2>6. RetryInv'
    <3>1. Base(target)' = Base(target)
      BY <2>1 DEF Base
    <3> QED
      BY <1>0, <2>1, <2>2, <2>3, <3>1 DEF RetryInv
  <2>7. RestartInv' /\ EndInv' /\ PickInv'
    BY <1>0, <2>1, <2>2, <2>3 DEF RestartInv, EndInv, PickInv
  <2> QED
    BY <2>4, <2>5, <2>6, <2>7 DEF Growing
<1> QED
  BY <1>1, <1>2, <1>3

LEMMA GrowingQuestion ==
  ASSUME TypeOK, Growing, InsertHuman
  PROVE  Growing'
<1>0. /\ TreeInv /\ RestInv /\ RetryInv /\ PlaceInv /\ RestartInv /\ EndInv
  BY DEF Growing
<1>1. /\ pc = "human" /\ pc' = "answer" /\ target = NoMessage /\ Insert("human") /\ ~stale
      /\ UNCHANGED <<rested, head, stale, inputBase, target, parent>>
  BY <1>0 DEF InsertHuman, RetryInv, RestartInv, Goto, document, graph, title
<1>2. Grown(parent) /\ AnswersAt(parent) = {} /\ Questions \cap Group(parent) = {}
  BY <1>0, <1>1 DEF PlaceInv
<1>3. TreeInv' /\ RestInv'
  BY <1>0, <1>1, <1>2, QuestionGrows
<1>4. PICK n \in Nat :
        /\ n \notin Ids /\ active' = active \cup {n}
        /\ Answers' = Answers /\ Questions' = Questions \cup {n}
        /\ \A m \in Ids : Base(m)' = Base(m) /\ Tip(m)' = Tip(m)
        /\ Base(n)' = parent
        /\ \A p : AnswersAt(p)' = AnswersAt(p)
  BY <1>0, <1>1, <1>2, QuestionGrows
<1>5. Answers \subseteq Ids
  BY MessageTypes
<1>6. ShownAnswers' = ShownAnswers /\ ShownAnswers \subseteq Ids
  BY <1>4, <1>5 DEF ShownAnswers
<1>7. PlaceInv'
  <2>1. (Grown(parent))'
    BY <1>1, <1>2, <1>4, <1>5 DEF Grown
  <2>2. (AnswersAt(parent) = {})'
    BY <1>1, <1>2, <1>4
  <2>3. (\E q \in Questions : Base(q) = parent)'
    BY <1>1, <1>4
  <2> QED
    BY <1>1, <2>1, <2>2, <2>3 DEF PlaceInv
<1>8. EndInv'
  <2>1. \A a \in ShownAnswers : AnswersAt(Tip(a))' = AnswersAt(Tip(a))
    BY <1>4, <1>6
  <2> QED
    BY <1>0, <1>1, <1>4, <1>6, <2>1 DEF EndInv
<1>9. RetryInv' /\ RestartInv' /\ PickInv'
  BY <1>1 DEF RetryInv, RestartInv, PickInv
<1> QED
  BY <1>3, <1>7, <1>8, <1>9 DEF Growing

\* Nothing follows an answer that was stored just now, and none is newer.
LEMMA GrowingAnswer ==
  ASSUME TypeOK, Growing, InsertAnswer
  PROVE  Growing'
<1>0. /\ TreeInv /\ RestInv /\ RetryInv /\ PlaceInv /\ RestartInv
  BY DEF Growing
<1>1. /\ pc = "answer" /\ Insert("ai") /\ ~stale
      /\ \/ target = NoMessage /\ pc' = "idle" /\ target' = NoMessage
         \/ target # NoMessage /\ pc' = "supersede" /\ target' = target
      /\ UNCHANGED <<rested, head, stale, inputBase>>
  BY <1>0 DEF InsertAnswer, RestartInv, End, Goto, document, graph, title
<1>2. Grown(parent) /\ \E q \in Questions : Base(q) = parent
  <2>1. CASE target = NoMessage
    BY <1>0, <1>1, <2>1 DEF PlaceInv
  <2>2. CASE target # NoMessage
    BY <1>0, <1>1, <2>2, RetryPlace
  <2> QED
    BY <2>1, <2>2
<1>3. TreeInv' /\ RestInv'
  BY <1>0, <1>1, <1>2, AnswerGrows
<1>4. PICK n \in Nat :
        /\ Len(messages)' = n /\ n \notin Ids
        /\ active' = active \cup {n} /\ Answers' = Answers \cup {n}
        /\ \A m \in Ids : m < n /\ Base(m)' = Base(m) /\ Tip(m)' = Tip(m)
        /\ Base(n)' = parent /\ Tip(n)' = rested
        /\ \A p : AnswersAt(p)' = AnswersAt(p) \cup (IF p = parent THEN {n} ELSE {})
  BY <1>0, <1>1, <1>2, AnswerGrows
<1>5. /\ Answers \subseteq Ids /\ Ids \subseteq Nat /\ active \subseteq Ids /\ rested \in Nat
      /\ ShownAnswers \subseteq Answers
      /\ \A m \in Ids : Tip(m) \in Nat
  BY MessageTypes
<1>6. ShownAnswers' = ShownAnswers \cup {n}
  BY <1>4, <1>5 DEF ShownAnswers
<1>7. EndInv'
  <2>1. parent # rested
    BY <1>0, <1>1, <1>2, <1>5 DEF Grown, RestInv, Start
  <2>2. AnswersAt(rested) = {}
    BY RestIsFree, FreePlace
  <2>3. AnswersAt(rested)' = {}
    BY <1>1, <1>4, <2>1, <2>2
  <2>4. ASSUME NEW a \in ShownAnswers', \A b \in ShownAnswers' : b <= a
        PROVE  a = n
    <3>1. n <= a /\ a \in ShownAnswers \cup {n}
      BY <1>6, <2>4
    <3> QED
      BY <1>4, <1>5, <3>1
  <2>5. (AnswersAt(Tip(n)))' = {}
    BY <1>1, <1>4, <2>3 DEF AnswersAt, Group
  <2> QED
    BY <2>4, <2>5 DEF EndInv
<1>8. RetryInv'
  <2>1. CASE target = NoMessage
    BY <1>1, <2>1 DEF RetryInv
  <2>2. CASE target # NoMessage
    <3>1. /\ pc' = "supersede" /\ target' = target
          /\ target \in ShownAnswers /\ parent = Base(target)
      BY <1>0, <1>1, <2>2 DEF RetryInv
    <3>2. /\ target \in Ids /\ target < n /\ target \in ShownAnswers' /\ n \in ShownAnswers'
          /\ target \in Answers'
      BY <1>4, <1>5, <1>6, <3>1
    <3>3. Base(Len(messages))' = Base(target)'
      BY <1>4, <3>1, <3>2 DEF Base
    <3>4. (Base(Len(messages)) = Base(target))'
      BY <3>1, <3>3 DEF Base
    <3> QED
      BY <1>4, <3>1, <3>2, <3>4 DEF RetryInv
  <2> QED
    BY <2>1, <2>2
<1>9. PlaceInv' /\ RestartInv' /\ PickInv'
  BY <1>1 DEF PlaceInv, RestartInv, PickInv
<1> QED
  BY <1>3, <1>7, <1>8, <1>9 DEF Growing

\* The answer that supersedes is the newest, and stays shown.
LEMMA GrowingSupersede ==
  ASSUME TypeOK, Growing, Supersede
  PROVE  Growing'
<1>0. TreeInv /\ RestInv /\ RetryInv /\ RestartInv /\ EndInv
  BY DEF Growing
<1> DEFINE n == Len(messages)
<1>1. /\ pc = "supersede" /\ pc' = "flag" /\ active' = active \ Superseded
      /\ UNCHANGED <<messages, rested, head, stale, inputBase, target>>
  BY DEF Supersede, Goto, document, graph, title
<1>2. TreeInv' /\ RestInv'
  BY <1>0, <1>1, ShownTree
<1>3. /\ Answers' = Answers /\ \A m : Tip(m)' = Tip(m)
      /\ \A p : AnswersAt(p)' = AnswersAt(p)
      /\ \A p : Grown(p)' = Grown(p) /\ Free(p)' = Free(p)
  BY <1>1, SamePlaces
<1>4. /\ Answers \subseteq Ids /\ Ids \subseteq Nat /\ n \in Nat /\ \A m \in Ids : m <= n
      /\ n \in ShownAnswers /\ target \in Answers
  BY <1>0, <1>1, MessageTypes DEF RetryInv
<1>5. /\ ShownAnswers' \subseteq ShownAnswers /\ n \in ShownAnswers'
      /\ ShownAnswers \subseteq Ids
  BY <1>1, <1>3, <1>4 DEF ShownAnswers, Superseded
<1> HIDE DEF n
<1>6. EndInv'
  <2>1. AnswersAt(Tip(n)) = {}
    BY <1>0, <1>1, <1>4, <1>5 DEF EndInv
  <2>2. ASSUME NEW a \in ShownAnswers', \A b \in ShownAnswers' : b <= a PROVE a = n
    BY <1>4, <1>5, <2>2
  <2> QED
    BY <1>3, <2>1, <2>2 DEF EndInv
<1>7. RetryInv'
  BY <1>1, <1>3, <1>4 DEF RetryInv
<1>8. PlaceInv' /\ RestartInv' /\ PickInv'
  <2>1. RestartInv'
    BY <1>0, <1>1, <1>3 DEF RestartInv
  <2> QED
    BY <1>1, <2>1 DEF PlaceInv, PickInv
<1> QED
  BY <1>2, <1>6, <1>7, <1>8 DEF Growing

\* A selection picks a path that comes to an end.
LEMMA GrowingSelect ==
  ASSUME TypeOK, Growing, NEW m \in Ids, BeginSelect(m)
  PROVE  Growing'
<1>0. TreeInv /\ RestInv /\ RestartInv /\ EndInv
  BY DEF Growing
<1>1. /\ pc = "idle" /\ pc' = "hide" /\ target' = m
      /\ keep' = (Questions \cap Group(messages[m].parent)) \cup {m} \cup FollowUps(m)
      /\ UNCHANGED <<messages, active, rested, head, stale, inputBase>>
  BY DEF BeginSelect, Goto, document, store, graph, title
<1>2. m \in Answers
  BY DEF BeginSelect, AnswersAt
<1>3. /\ Answers' = Answers /\ ShownAnswers' = ShownAnswers
      /\ \A k : Base(k)' = Base(k) /\ Tip(k)' = Tip(k)
      /\ \A p : AnswersAt(p)' = AnswersAt(p)
      /\ \A p : Grown(p)' = Grown(p) /\ Free(p)' = Free(p)
  BY <1>1, SamePlaces
<1>4. TreeInv' /\ RestInv'
  BY <1>0, <1>1, ShownTree
<1>5. PickInv'
  <2>1. KeepsPath(Answers \cap keep', m)
    BY <1>0, <1>1, <1>2, KeepIsPath
  <2>2. KeepsPath(Answers \cap keep, target)'
    BY <1>1, <1>3, <2>1 DEF KeepsPath
  <2> QED
    BY <1>1, <2>2 DEF PickInv
<1>6. RetryInv'
  BY <1>1, <1>2, <1>3 DEF RetryInv
<1>7. PlaceInv' /\ RestartInv' /\ EndInv'
  <2>1. RestartInv'
    BY <1>0, <1>1, <1>3 DEF RestartInv
  <2> QED
    BY <1>0, <1>1, <1>3, <2>1 DEF PlaceInv, EndInv
<1> QED
  BY <1>4, <1>5, <1>6, <1>7 DEF Growing

\* What hiding leaves lies before the answer that is selected ...
LEMMA GrowingHide ==
  ASSUME TypeOK, Growing, Hide
  PROVE  Growing'
<1>0. TreeInv /\ RestInv /\ RetryInv /\ RestartInv /\ PickInv
  BY DEF Growing
<1>1. /\ pc = "hide" /\ pc' = "show"
      /\ active' = {m \in active : m < Smallest(Group(Base(target)))}
      /\ UNCHANGED <<messages, rested, head, stale, inputBase, target, keep>>
  BY DEF Hide, Goto, document, graph, title, Base
<1>2. /\ Answers' = Answers /\ \A m : Base(m)' = Base(m) /\ Tip(m)' = Tip(m)
      /\ \A p : AnswersAt(p)' = AnswersAt(p)
      /\ \A p : Grown(p)' = Grown(p) /\ Free(p)' = Free(p)
  BY <1>1, SamePlaces
<1>3. TreeInv' /\ RestInv'
  BY <1>0, <1>1, ShownTree
<1>4. /\ target \in Answers /\ Answers \subseteq Ids /\ Ids \subseteq Nat
      /\ active \subseteq Ids
  BY <1>0, <1>1, MessageTypes DEF RetryInv
<1> DEFINE lo == Smallest(Group(Base(target)))
<1>5. lo \in Nat /\ lo <= target
  <2>1. Group(Base(target)) \subseteq Nat /\ target \in Group(Base(target))
    BY <1>4 DEF Group, Base
  <2>2. lo \in Group(Base(target)) /\ \A k \in Group(Base(target)) : lo <= k
    BY <2>1, SmallestIsLeast
  <2> HIDE DEF lo
  <2> QED
    BY <2>1, <2>2
<1>6. active' = {m \in active : m < lo}
  BY <1>1
<1> HIDE DEF lo
<1>7. PickInv'
  <2>1. KeepsPath(Answers \cap keep, target)
    BY <1>0, <1>1 DEF PickInv
  <2>2. KeepsPath(Answers \cap keep, target)'
    BY <1>1, <1>2, <2>1 DEF KeepsPath
  <2>3. \A m \in active' : m <= target
    BY <1>4, <1>5, <1>6
  <2> QED
    BY <1>1, <2>2, <2>3 DEF PickInv
<1>8. RetryInv' /\ RestartInv'
  BY <1>0, <1>1, <1>2, <1>4 DEF RetryInv, RestartInv
<1>9. PlaceInv' /\ EndInv'
  BY <1>1 DEF PlaceInv, EndInv
<1> QED
  BY <1>3, <1>7, <1>8, <1>9 DEF Growing

\* ... so that the newest of what is shown then is the end of the path.
LEMMA GrowingShow ==
  ASSUME TypeOK, Growing, Show
  PROVE  Growing'
<1>0. TreeInv /\ RestInv /\ RestartInv /\ PickInv
  BY DEF Growing
<1>1. /\ pc = "show" /\ pc' = "idle" /\ target' = NoMessage /\ active' = active \cup keep
      /\ UNCHANGED <<messages, rested, head, stale, inputBase>>
  BY DEF Show, End, Goto, document, graph, title
<1>2. /\ Answers' = Answers /\ \A m : Tip(m)' = Tip(m)
      /\ \A p : AnswersAt(p)' = AnswersAt(p)
      /\ \A p : Grown(p)' = Grown(p) /\ Free(p)' = Free(p)
  BY <1>1, SamePlaces
<1>3. TreeInv' /\ RestInv'
  BY <1>0, <1>1, ShownTree
<1>4. /\ Answers \subseteq Ids /\ Ids \subseteq Nat
      /\ \A m \in Ids : Base(m) \in Nat /\ Tip(m) \in Nat
      /\ \A a \in Answers, m \in Ids : Tip(a) <= Base(m) => a < m
  BY <1>0, TreeOrder
<1> DEFINE K == Answers \cap keep
<1>5. /\ target \in K /\ K \subseteq Answers
      /\ \A b \in K : AnswersAt(Tip(b)) # {} => \E c \in K : Base(c) = Tip(b)
      /\ \A m \in active : m <= target
  BY <1>0, <1>1 DEF PickInv, KeepsPath
<1>6. ShownAnswers' = ShownAnswers \cup K /\ ShownAnswers \subseteq active
      /\ ShownAnswers \subseteq Answers
  BY <1>1, <1>2 DEF ShownAnswers
<1> HIDE DEF K
<1>7. EndInv'
  <2>1. ASSUME NEW a \in ShownAnswers', \A b \in ShownAnswers' : b <= a
        PROVE  AnswersAt(Tip(a)) = {}
    <3>1. a \in Ids /\ target \in Ids /\ target <= a
      BY <1>4, <1>5, <1>6, <2>1
    <3>2. a \in K
      <4>1. CASE a \in ShownAnswers
        <5>1. a <= target
          BY <1>5, <1>6, <4>1
        <5> QED
          BY <1>4, <1>5, <3>1, <5>1
      <4> QED
        BY <1>6, <2>1, <4>1
    <3>3. ASSUME NEW c \in K, Base(c) = Tip(a) PROVE FALSE
      <4>1. c \in Ids /\ a \in Answers /\ c <= a
        BY <1>4, <1>5, <1>6, <2>1, <3>2
      <4>2. a < c
        BY <1>4, <3>3, <4>1
      <4> QED
        BY <1>4, <3>1, <4>1, <4>2
    <3> QED
      BY <1>5, <3>2, <3>3
  <2> QED
    BY <1>2, <2>1 DEF EndInv
<1>8. RestartInv'
  BY <1>0, <1>1, <1>2 DEF RestartInv
<1>9. RetryInv' /\ PlaceInv' /\ PickInv'
  BY <1>1 DEF RetryInv, PlaceInv, PickInv
<1> QED
  BY <1>3, <1>7, <1>8, <1>9 DEF Growing

LEMMA GrowingStep ==
  ASSUME TurnsOnly, TypeOK, Growing, [Next]_vars
  PROVE  Growing'
<1>1. CASE \/ CreateThread \/ BeginResume \/ Touch \/ SetFlag \/ Interrupt
           \/ BeginRename \/ SaveTitle \/ Delete \/ UNCHANGED vars
           \/ \E m \in Ids : BeginRetry(m)
  BY <1>1, GrowingRequests
<1>2. CASE EnterTurn \/ EnterRetry \/ StreamEnds
  BY <1>2, GrowingStreams
<1>3. CASE InsertHuman \/ InsertAnswer
  BY <1>3, GrowingQuestion, GrowingAnswer
<1>4. CASE Supersede \/ Hide \/ Show
  BY <1>4, GrowingSupersede, GrowingHide, GrowingShow
<1>5. CASE \E m \in Ids : BeginSelect(m)
  BY <1>5, GrowingSelect
<1> QED
  BY <1>1, <1>2, <1>3, <1>4, <1>5 DEF Next, Conversation

LEMMA GrowingAlways == TurnsOnly /\ Spec => [](TypeOK /\ Growing)
<1> SUFFICES ASSUME TurnsOnly PROVE Spec => [](TypeOK /\ Growing)
  OBVIOUS
<1>1. Init => Growing
  BY GrowingInit
<1>2. TypeOK /\ Growing /\ [Next]_vars => Growing'
  BY GrowingStep
<1>3. Spec => []TypeOK
  BY ThreadTypes
<1> QED
  BY <1>1, <1>2, <1>3, PTL DEF Spec

(* Regenerating stores no second question, and no later turn is stored at  *)
(* the place of an earlier one, although a rename or a deletion overlaps   *)
(* with it -- _persist_turn: "a turn is one human message with one or more *)
(* AI answers hanging off it".                                             *)
THEOREM TurnHasOneQuestion == TurnsOnly /\ Spec => []OneQuestionPerTurn
<1>1. TypeOK /\ Growing => OneQuestionPerTurn
  BY DEF Growing, TreeInv
<1> QED
  BY <1>1, GrowingAlways, PTL

-----------------------------------------------------------------------------
(* The shown branch, whatever overlaps.  A turn may follow a place that is  *)
(* not shown, so that the shown answers are no path; but each still comes   *)
(* before what follows the place of a later one, and that is enough for no  *)
(* follow-up to get lost.                                                   *)

\* Checkpoint p is not followed by anything that is shown before its end.
Newest(p) == \A a \in ShownAnswers : Tip(a) = p => \A b \in ShownAnswers : b <= a

\* Answer a comes before the messages at p, and on the branch also above them.
Ahead(a, p) ==
    /\ \A m \in Ids : Base(m) = p => a < m
    /\ p \in BranchPoints => Tip(a) <= p

\* A turn, or its restart, is the newest of what is shown.
LastInv ==
    /\ pc \in {"stream", "human", "answer"} /\ target = NoMessage =>
        /\ Newest(parent)
        /\ \A m \in Ids, b \in ShownAnswers : Base(m) = parent => b < m
    /\ stale /\ ~(pc = "stream" /\ target # NoMessage) =>
        /\ Newest(inputBase)
        /\ pc = "show" => \A a \in ShownAnswers : Tip(a) # inputBase

OrderInv == \A a, b \in BranchAnswers : a < b => Ahead(a, Base(b))

RunsOnInv ==
    \A p \in BranchPoints :
        AnswersAt(p) # {} =>
            \/ AnswersAt(p) \cap Branch # {}
            \/ pc = "show" /\ p = Base(target)

\* A selection takes the place of an answer that is shown.
SwitchInv ==
    /\ pc = "hide" => \E a \in ShownAnswers : Base(a) = Base(target)
    /\ pc = "show" => \A a \in BranchAnswers : Ahead(a, Base(target))

Running == LastInv /\ OrderInv /\ RunsOnInv /\ SwitchInv

LEMMA RunningInit == Init => Running
<1> SUFFICES ASSUME Init PROVE Running
  OBVIOUS
<1>1. Ids = {} /\ Answers = {} /\ pc = "idle" /\ stale = FALSE
  BY DEF Init, Ids, Answers
<1>2. ShownAnswers = {} /\ BranchAnswers = {} /\ \A p : AnswersAt(p) = {}
  BY <1>1 DEF ShownAnswers, BranchAnswers, AnswersAt
<1> QED
  BY <1>1, <1>2 DEF Running, LastInv, OrderInv, RunsOnInv, SwitchInv

\* Steps that neither store nor show anything leave the branch as it is.
LEMMA SameBranch ==
  ASSUME UNCHANGED <<messages, active>>, pc' = "supersede" <=> pc = "supersede"
  PROVE  /\ Branch' = Branch /\ BranchAnswers' = BranchAnswers
         /\ BranchPoints' = BranchPoints
         /\ OrderInv => OrderInv'
<1>1. /\ Ids' = Ids /\ Answers' = Answers /\ ShownAnswers' = ShownAnswers
      /\ \A m : Base(m)' = Base(m) /\ Tip(m)' = Tip(m)
  BY SamePlaces
<1>2. Branch' = Branch
  BY DEF Branch
<1>3. BranchAnswers' = BranchAnswers
  BY <1>1, <1>2 DEF BranchAnswers
<1>4. BranchPoints' = BranchPoints
  BY <1>1, <1>3 DEF BranchPoints
<1>5. OrderInv => OrderInv'
  BY <1>1, <1>3, <1>4 DEF OrderInv, Ahead
<1> QED
  BY <1>2, <1>3, <1>4, <1>5

\* A request that begins, goes on to the stream, is cut short or is over.
LEMMA QuietRunning ==
  ASSUME TypeOK, Running, UNCHANGED <<messages, active, stale, inputBase>>,
         pc \notin {"human", "answer", "supersede", "show"},
         ~(pc = "stream" /\ target # NoMessage),
         pc' \in {"idle", "touch", "enter"}
  PROVE  Running'
<1>1. /\ Branch' = Branch /\ BranchPoints' = BranchPoints /\ (OrderInv => OrderInv')
      /\ \A p : AnswersAt(p)' = AnswersAt(p)
  BY SameBranch, SamePlaces
<1>2. LastInv'
  <2>1. /\ ShownAnswers' = ShownAnswers /\ \A m : Tip(m)' = Tip(m)
    BY SamePlaces
  <2> QED
    BY <2>1 DEF Running, LastInv, Newest
<1>3. RunsOnInv' /\ SwitchInv'
  BY <1>1 DEF Running, RunsOnInv, SwitchInv
<1> QED
  BY <1>1, <1>2, <1>3 DEF Running

LEMMA RunningRequests ==
  ASSUME TurnsOnly, TypeOK, Growing, Running,
         \/ CreateThread \/ BeginResume \/ Touch \/ SetFlag \/ Interrupt
         \/ BeginRename \/ SaveTitle \/ Delete \/ UNCHANGED vars
         \/ \E m \in Ids : BeginRetry(m)
  PROVE  Running'
<1> USE DEF Goto, document, store, graph, title, conversation
<1>1. CASE \/ CreateThread \/ BeginResume \/ Touch \/ SetFlag \/ \E m \in Ids : BeginRetry(m)
  <2>1. /\ pc \in {"idle", "touch", "flag"} /\ pc' \in {"idle", "touch", "enter"}
        /\ UNCHANGED <<messages, active, stale, inputBase>>
    BY <1>1 DEF CreateThread, BeginResume, Touch, SetFlag, BeginRetry, End
  <2> QED
    BY <2>1, QuietRunning
<1>2. CASE Interrupt
  <2>1. PICK from \in Steps \ {"idle"} :
          /\ from = "stream" /\ target # NoMessage => "retry" \in Interruptible
          /\ from \in Storing => "store" \in Interruptible
          /\ End(from)
    BY <1>2 DEF Interrupt
  <2>2. "retry" \notin Interruptible /\ "store" \notin Interruptible
    BY DEF TurnsOnly
  <2>3. pc = from /\ pc' = "idle"
    BY <2>1 DEF End
  <2>4. from \in {"touch", "enter", "stream"} /\ ~(pc = "stream" /\ target # NoMessage)
    BY <2>1, <2>2, <2>3 DEF Steps, Storing
  <2>5. UNCHANGED <<messages, active, stale, inputBase>>
    BY <1>2 DEF Interrupt
  <2> QED
    BY <2>3, <2>4, <2>5, QuietRunning
<1>3. CASE BeginRename \/ SaveTitle \/ Delete \/ UNCHANGED vars
  <2>1. UNCHANGED <<messages, active, stale, inputBase, pc, target, parent>>
    BY <1>3 DEF BeginRename, SaveTitle, Delete, vars
  <2>2. /\ Branch' = Branch /\ BranchAnswers' = BranchAnswers
        /\ BranchPoints' = BranchPoints /\ (OrderInv => OrderInv')
        /\ Ids' = Ids /\ ShownAnswers' = ShownAnswers
        /\ \A m : Base(m)' = Base(m) /\ Tip(m)' = Tip(m)
        /\ \A p : AnswersAt(p)' = AnswersAt(p)
    BY <2>1, SameBranch, SamePlaces
  <2>3. LastInv'
    BY <2>1, <2>2 DEF Running, LastInv, Newest
  <2>4. RunsOnInv'
    BY <2>1, <2>2 DEF Running, RunsOnInv
  <2>5. SwitchInv'
    BY <2>1, <2>2 DEF Running, SwitchInv, Ahead
  <2> QED
    BY <2>2, <2>3, <2>4, <2>5 DEF Running
<1> QED
  BY <1>1, <1>2, <1>3

\* What is shown of the checkpoint where a turn enters is the newest.
LEMMA EntryIsNewest ==
  ASSUME TypeOK, Growing, Running, pc = "enter"
  PROVE  Newest(EntryPoint)
<1>1. TreeInv
  BY DEF Growing
<1>2. /\ ShownAnswers \subseteq Answers /\ Answers \subseteq Ids /\ Ids \subseteq Nat
      /\ Ids = 1..Len(messages) /\ Len(messages) \in Nat /\ rested \in Nat
      /\ \A m \in Ids : Tip(m) \in Nat /\ Tip(m) <= rested
  BY MessageTypes
<1>3. \A a, b \in Answers : a < b => Tip(a) < Tip(b)
  BY <1>1, <1>2 DEF TreeInv
<1>4. CASE copy /\ ShownAnswers # {}
  <2> DEFINE l == Largest(ShownAnswers)
  <2>1. l \in ShownAnswers /\ \A k \in ShownAnswers : k <= l
    BY <1>2, <1>4, LargestIsLast
  <2>2. EntryPoint = Tip(l)
    BY <1>4 DEF EntryPoint, Tip
  <2> HIDE DEF l
  <2>3. \A a \in ShownAnswers : Tip(a) = Tip(l) => a = l
    BY <1>2, <1>3, <2>1
  <2> QED
    BY <2>1, <2>2, <2>3 DEF Newest
<1>5. CASE ~(copy /\ ShownAnswers # {}) /\ stale
  <2>1. EntryPoint = inputBase
    BY <1>5 DEF EntryPoint, SafeStream
  <2> QED
    BY <1>5, <2>1 DEF Running, LastInv
<1>6. CASE ~(copy /\ ShownAnswers # {}) /\ ~stale
  <2>1. EntryPoint = rested
    BY <1>1, <1>6 DEF EntryPoint, SafeStream, TreeInv
  <2> QED
    BY <1>2, <1>3, <2>1 DEF Newest
<1> QED
  BY <1>4, <1>5, <1>6

LEMMA RunningStreams ==
  ASSUME TypeOK, Growing, Running, EnterTurn \/ EnterRetry \/ StreamEnds
  PROVE  Running'
<1> USE DEF Goto, document, store, graph, title
<1>0. LastInv /\ OrderInv /\ RunsOnInv
  BY DEF Running
<1>1. /\ pc \in {"enter", "stream"} /\ pc' \in {"stream", "human", "answer"}
      /\ target' = target /\ UNCHANGED <<messages, active>>
  BY DEF EnterTurn, EnterRetry, StreamEnds, FirstToStore
<1>2. /\ Branch' = Branch /\ BranchPoints' = BranchPoints /\ OrderInv'
      /\ Ids' = Ids /\ ShownAnswers' = ShownAnswers
      /\ \A m : Base(m)' = Base(m) /\ Tip(m)' = Tip(m)
      /\ \A p : AnswersAt(p)' = AnswersAt(p)
  BY <1>0, <1>1, SameBranch, SamePlaces
<1>3. RunsOnInv' /\ SwitchInv'
  BY <1>0, <1>1, <1>2 DEF RunsOnInv, SwitchInv
<1>4. LastInv'
  <2>1. CASE EnterTurn
    <3>1. /\ pc = "enter" /\ parent' = EntryPoint /\ inputBase' = EntryPoint
          /\ pc' = "stream"
      BY <2>1 DEF EnterTurn
    <3>2. Newest(EntryPoint) /\ Free(EntryPoint)
      BY <3>1, EntryIsNewest, EntryIsFree
    <3> QED
      BY <1>2, <3>1, <3>2 DEF LastInv, Newest, Free
  <2>2. CASE EnterRetry
    <3>1. pc' = "stream" /\ target' # NoMessage
      BY <2>2 DEF EnterRetry
    <3> QED
      BY <3>1 DEF LastInv
  <2>3. CASE StreamEnds
    <3>1. pc = "stream" /\ stale' = FALSE /\ parent' = parent
      BY <2>3 DEF StreamEnds
    <3> QED
      BY <1>0, <1>1, <1>2, <3>1 DEF LastInv, Newest
  <2> QED
    BY <2>1, <2>2, <2>3
<1> QED
  BY <1>2, <1>3, <1>4 DEF Running

LEMMA RunningQuestion ==
  ASSUME TypeOK, Growing, Running, InsertHuman
  PROVE  Running'
<1>0. /\ TreeInv /\ RestInv /\ RetryInv /\ PlaceInv /\ RestartInv
      /\ LastInv /\ OrderInv /\ RunsOnInv
  BY DEF Growing, Running
<1>1. /\ pc = "human" /\ pc' = "answer" /\ target = NoMessage /\ Insert("human") /\ ~stale
      /\ UNCHANGED <<rested, head, stale, target, parent>>
  BY <1>0 DEF InsertHuman, RetryInv, RestartInv, Goto, document, graph, title
<1>2. Grown(parent) /\ AnswersAt(parent) = {} /\ Questions \cap Group(parent) = {}
  BY <1>0, <1>1 DEF PlaceInv
<1>3. PICK n \in Nat :
        /\ n \notin Ids /\ Ids' = Ids \cup {n} /\ active' = active \cup {n}
        /\ Answers' = Answers
        /\ \A m \in Ids : m < n /\ Base(m)' = Base(m) /\ Tip(m)' = Tip(m)
        /\ Base(n)' = parent
        /\ \A p : AnswersAt(p)' = AnswersAt(p)
  BY <1>0, <1>1, <1>2, QuestionGrows
<1>4. Answers \subseteq Ids /\ ShownAnswers \subseteq Answers
  BY MessageTypes
<1>5. /\ Branch = active /\ Branch' = active \cup {n} /\ BranchAnswers' = BranchAnswers
      /\ ShownAnswers' = ShownAnswers /\ BranchAnswers \subseteq Answers
  BY <1>1, <1>3, <1>4 DEF Branch, BranchAnswers, ShownAnswers
<1>6. BranchPoints' = BranchPoints
  BY <1>3, <1>4, <1>5 DEF BranchPoints
<1>7. LastInv'
  <2>1. /\ Newest(parent)
        /\ \A m \in Ids, b \in ShownAnswers : Base(m) = parent => b < m
    BY <1>0, <1>1 DEF LastInv
  <2>2. (Newest(parent))'
    BY <1>1, <1>3, <1>4, <1>5, <2>1 DEF Newest
  <2>3. \A m \in Ids', b \in ShownAnswers' : Base(m)' = parent' => b < m
    BY <1>1, <1>3, <1>4, <1>5, <2>1
  <2> QED
    BY <1>1, <2>2, <2>3 DEF LastInv
<1>8. OrderInv'
  <2>1. \A a, b \in BranchAnswers : a < b => Ahead(a, Base(b))
    BY <1>0 DEF OrderInv
  <2>2. ASSUME NEW a \in BranchAnswers, NEW b \in BranchAnswers, a < b
        PROVE  (Ahead(a, Base(b)))'
    <3>1. Ahead(a, Base(b)) /\ a \in Ids /\ b \in Ids
      BY <1>4, <1>5, <2>1, <2>2
    <3> QED
      BY <1>3, <1>6, <3>1 DEF Ahead
  <2> QED
    BY <1>5, <2>2 DEF OrderInv
<1>9. RunsOnInv' /\ SwitchInv'
  BY <1>0, <1>1, <1>3, <1>5, <1>6 DEF RunsOnInv, SwitchInv
<1> QED
  BY <1>7, <1>8, <1>9 DEF Running

\* If there are answers at all, one of them is the first of its thread.
LEMMA FirstAnswer ==
  ASSUME TypeOK, TreeInv, Answers # {}
  PROVE  AnswersAt(Start) # {}
<1>1. /\ Answers \subseteq Ids /\ Ids \subseteq Nat
      /\ \A a \in Answers, m \in Ids : Tip(a) <= Base(m) => a < m
      /\ \A m \in Ids : Base(m) \in Nat /\ Tip(m) \in Nat
  BY TreeOrder
<1>2. PICK a \in Answers : \A b \in Answers : a <= b
  BY <1>1, LeastOfNaturals
<1>3. Base(a) = Start
  <2>1. ASSUME NEW b \in Answers, Tip(b) = Base(a) PROVE FALSE
    <3>1. a \in Ids /\ b \in Ids /\ a <= b
      BY <1>1, <1>2
    <3>2. b < a
      BY <1>1, <2>1, <3>1
    <3> QED
      BY <1>1, <3>1, <3>2
  <2> QED
    BY <1>1, <2>1 DEF TreeInv
<1>4. a \in AnswersAt(Start)
  BY <1>1, <1>3 DEF AnswersAt, Group, Base
<1> QED
  BY <1>4

\* Of a turn, the answer ends the branch; of a regeneration, it stands beside
\* the answer that it is about to supersede.
LEMMA RunningAnswer ==
  ASSUME TypeOK, Growing, Running, InsertAnswer
  PROVE  Running'
<1>0. /\ TreeInv /\ RestInv /\ RetryInv /\ PlaceInv /\ RestartInv
      /\ LastInv /\ OrderInv /\ RunsOnInv
  BY DEF Growing, Running
<1>1. /\ pc = "answer" /\ Insert("ai") /\ ~stale
      /\ \/ target = NoMessage /\ pc' = "idle"
         \/ target # NoMessage /\ pc' = "supersede" /\ target' = target
      /\ UNCHANGED <<rested, head, stale>>
  BY <1>0 DEF InsertAnswer, RestartInv, End, Goto, document, graph, title
<1>2. Grown(parent) /\ \E q \in Questions : Base(q) = parent
  <2>1. CASE target = NoMessage
    BY <1>0, <1>1, <2>1 DEF PlaceInv
  <2>2. CASE target # NoMessage
    BY <1>0, <1>1, <2>2, RetryPlace
  <2> QED
    BY <2>1, <2>2
<1>3. PICK n \in Nat :
        /\ Len(messages)' = n /\ n \notin Ids /\ n \notin active
        /\ Ids' = Ids \cup {n}
        /\ active' = active \cup {n} /\ Answers' = Answers \cup {n}
        /\ \A m \in Ids : m < n /\ Base(m)' = Base(m) /\ Tip(m)' = Tip(m)
        /\ Base(n)' = parent /\ Tip(n)' = rested
        /\ \A p : AnswersAt(p)' = AnswersAt(p) \cup (IF p = parent THEN {n} ELSE {})
  BY <1>0, <1>1, <1>2, AnswerGrows
<1>4. /\ Answers \subseteq Ids /\ Ids \subseteq Nat /\ rested \in Nat
      /\ ShownAnswers \subseteq Answers
      /\ \A m \in Ids : Base(m) \in Nat /\ Tip(m) \in Nat
      /\ \A a, b \in Answers : a < b => Tip(a) < Tip(b)
  BY <1>0, MessageTypes DEF TreeInv
<1>5. /\ Branch = active /\ BranchAnswers = ShownAnswers
  BY <1>1 DEF Branch, BranchAnswers, ShownAnswers
<1>6. /\ \A m \in Ids : Base(m) # rested
      /\ parent # rested /\ \A p : p = rested => AnswersAt(p)' = {}
  <2>1. Free(rested) /\ AnswersAt(rested) = {}
    BY RestIsFree, FreePlace
  <2>2. parent # rested
    BY <1>0, <1>1, <1>2, <1>4 DEF Grown, RestInv, Start
  <2>3. ASSUME NEW p, p = rested PROVE AnswersAt(p)' = {}
    <3>1. AnswersAt(p) = {} /\ p # parent
      BY <2>1, <2>2, <2>3
    <3> QED
      BY <1>3, <3>1
  <2> QED
    BY <2>1, <2>2, <2>3 DEF Free
<1>7. LastInv' /\ SwitchInv'
  BY <1>1 DEF LastInv, SwitchInv
<1>8. \A a, b \in BranchAnswers : a < b => Ahead(a, Base(b))
  BY <1>0 DEF OrderInv
<1>9. CASE target = NoMessage
  <2>1. pc' = "idle"
    BY <1>1, <1>9
  <2>2. /\ AnswersAt(parent) = {} /\ Newest(parent)
        /\ \A m \in Ids, b \in ShownAnswers : Base(m) = parent => b < m
    BY <1>0, <1>1, <1>9 DEF PlaceInv, LastInv
  <2>3. /\ Branch' = active \cup {n} /\ BranchAnswers' = BranchAnswers \cup {n}
    <3>1. Branch' = active \cup {n}
      BY <1>3, <2>1 DEF Branch
    <3> QED
      BY <1>3, <1>4, <1>5, <3>1 DEF BranchAnswers
  <2>4. BranchPoints' = BranchPoints \cup {rested}
    <3>1. BranchPoints' = {Start} \cup {Tip(a)' : a \in BranchAnswers'}
      BY DEF BranchPoints
    <3>2. \A a \in BranchAnswers : Tip(a)' = Tip(a)
      BY <1>3, <1>4, <1>5
    <3> QED
      BY <1>3, <2>3, <3>1, <3>2 DEF BranchPoints
  \* The new answer comes after all that is shown.
  <2>5. ASSUME NEW a \in BranchAnswers, parent \in BranchPoints PROVE Tip(a) <= parent
    <3>1. parent # Start
      BY <1>0, <1>4, <1>5, <2>2, <2>5, FirstAnswer
    <3>2. PICK c \in BranchAnswers : Tip(c) = parent
      BY <2>5, <3>1 DEF BranchPoints
    <3>3. a <= c
      BY <1>5, <2>2, <3>2 DEF Newest
    <3>4. a \in Answers /\ c \in Answers /\ a \in Ids /\ c \in Ids
      BY <1>4, <1>5
    <3>5. a = c \/ Tip(a) < Tip(c)
      BY <1>4, <3>3, <3>4
    <3> QED
      BY <1>4, <3>2, <3>4, <3>5
  <2>6. OrderInv'
    <3>1. ASSUME NEW a \in BranchAnswers', NEW b \in BranchAnswers', a < b
          PROVE  (Ahead(a, Base(b)))'
      <4>1. a \in BranchAnswers /\ a \in Ids
        BY <1>3, <1>4, <1>5, <2>3, <3>1
      <4>2. CASE b \in BranchAnswers
        <5>1. Ahead(a, Base(b)) /\ b \in Ids
          BY <1>4, <1>5, <1>8, <3>1, <4>1, <4>2
        <5> QED
          BY <1>3, <1>6, <2>4, <4>1, <5>1 DEF Ahead
      <4>3. CASE b = n
        <5>1. \A m \in Ids' : Base(m)' = parent => a < m
          BY <1>3, <1>5, <2>2, <4>1
        <5>2. parent \in BranchPoints' => Tip(a)' <= parent
          BY <1>3, <1>6, <2>4, <2>5, <4>1
        <5> QED
          BY <1>3, <4>3, <5>1, <5>2 DEF Ahead
      <4> QED
        BY <2>3, <4>2, <4>3
    <3> QED
      BY <3>1 DEF OrderInv
  <2>7. RunsOnInv'
    <3>1. ASSUME NEW p \in BranchPoints', AnswersAt(p)' # {}
          PROVE  AnswersAt(p)' \cap Branch' # {}
      <4>1. CASE p = parent
        BY <1>3, <2>3, <4>1
      <4>2. CASE p # parent
        <5>1. AnswersAt(p)' = AnswersAt(p) /\ p \in BranchPoints
          BY <1>3, <1>6, <2>4, <3>1, <4>2
        <5>2. AnswersAt(p) \cap Branch # {}
          BY <1>0, <1>1, <3>1, <5>1 DEF RunsOnInv
        <5> QED
          BY <1>5, <2>3, <5>1, <5>2
      <4> QED
        BY <4>1, <4>2
    <3> QED
      BY <3>1 DEF RunsOnInv
  <2> QED
    BY <1>7, <2>6, <2>7 DEF Running
<1>10. CASE target # NoMessage
  <2>1. /\ pc' = "supersede" /\ target \in ShownAnswers /\ parent = Base(target)
    BY <1>0, <1>1, <1>10 DEF RetryInv
  <2>2. /\ Branch' = Branch /\ BranchAnswers' = BranchAnswers
    <3>1. Branch' = active' \ {n}
      BY <1>3, <2>1 DEF Branch
    <3>2. Branch' = active
      BY <1>3, <3>1
    <3> QED
      BY <1>3, <1>5, <3>2 DEF BranchAnswers
  <2>3. BranchPoints' = BranchPoints
    BY <1>3, <1>4, <1>5, <2>2 DEF BranchPoints
  <2>4. OrderInv'
    <3>1. ASSUME NEW a \in BranchAnswers, NEW b \in BranchAnswers, a < b
          PROVE  (Ahead(a, Base(b)))'
      <4>1. Ahead(a, Base(b)) /\ a \in Ids /\ b \in Ids
        BY <1>4, <1>5, <1>8, <3>1
      <4> QED
        BY <1>3, <2>3, <4>1 DEF Ahead
    <3> QED
      BY <2>2, <3>1 DEF OrderInv
  <2>5. RunsOnInv'
    <3>1. ASSUME NEW p \in BranchPoints, AnswersAt(p)' # {}
          PROVE  AnswersAt(p)' \cap Branch # {}
      <4>1. CASE p = parent
        <5>1. target \in AnswersAt(p)
          BY <1>4, <2>1, <4>1 DEF AnswersAt, Group, Base
        <5> QED
          BY <1>3, <1>5, <2>1, <5>1 DEF ShownAnswers
      <4>2. CASE p # parent
        <5>1. AnswersAt(p)' = AnswersAt(p)
          BY <1>3, <4>2
        <5> QED
          BY <1>0, <1>1, <3>1, <5>1 DEF RunsOnInv
      <4> QED
        BY <4>1, <4>2
    <3> QED
      BY <2>2, <2>3, <3>1 DEF RunsOnInv
  <2> QED
    BY <1>7, <2>4, <2>5 DEF Running
<1> QED
  BY <1>9, <1>10

LEMMA RunningSupersede ==
  ASSUME TypeOK, Growing, Running, Supersede
  PROVE  Running'
<1>0. TreeInv /\ RetryInv /\ LastInv /\ OrderInv /\ RunsOnInv
  BY DEF Growing, Running
<1> DEFINE n == Len(messages)
<1>1. /\ pc = "supersede" /\ pc' = "flag" /\ active' = active \ Superseded
      /\ UNCHANGED <<messages, stale, inputBase>>
  BY DEF Supersede, Goto, document, graph, title
<1>2. /\ Ids' = Ids /\ Answers' = Answers
      /\ \A m : Base(m)' = Base(m) /\ Tip(m)' = Tip(m)
      /\ \A p : AnswersAt(p)' = AnswersAt(p)
  BY <1>1, SamePlaces
<1>3. /\ Answers \subseteq Ids /\ Ids \subseteq Nat /\ active \subseteq Ids
      /\ \A m \in Ids : Base(m) \in Nat /\ Tip(m) \in Nat /\ Base(m) < Tip(m)
      /\ \A a \in Answers, m \in Ids : Tip(a) <= Base(m) => a < m
      /\ \A a \in Answers, m \in Ids : a < m => Tip(a) < Tip(m)
  BY <1>0, TreeOrder, MessageTypes
<1>4. /\ n \in Nat /\ \A m \in Ids : m <= n
      /\ n \in Answers /\ n \in active /\ target < n /\ Base(n) = Base(target)
      /\ target \in Answers /\ target \in active
  <2>1. target \in Answers /\ target # NoMessage
    BY <1>0, <1>1, MessageTypes DEF RetryInv
  <2> QED
    BY <1>0, <1>1, <2>1, MessageTypes DEF RetryInv, ShownAnswers
<1>5. /\ Branch = active \ {n} /\ Branch' = active'
      /\ \A m : m \in Superseded <=> m \in Ids /\ m >= target /\ m # n
  BY <1>1 DEF Branch, Superseded
<1> HIDE DEF n
<1>6. active' = {m \in active : m < target} \cup {n}
  <2>1. \A m \in active : m \in Superseded <=> ~(m < target) /\ m # n
    BY <1>3, <1>4, <1>5
  <2> QED
    BY <1>1, <1>4, <2>1
<1>7. /\ BranchAnswers \subseteq Answers /\ target \in BranchAnswers
      /\ BranchAnswers' = {a \in BranchAnswers : a < target} \cup {n}
  BY <1>2, <1>3, <1>4, <1>5, <1>6 DEF BranchAnswers
<1>8. \A p : /\ p \in BranchPoints <=> p = Start \/ \E a \in BranchAnswers : p = Tip(a)
             /\ p \in BranchPoints' <=>
                    p = Start \/ p = Tip(n) \/ \E a \in BranchAnswers : a < target /\ p = Tip(a)
  <2>1. BranchPoints' = {Start} \cup {Tip(a)' : a \in BranchAnswers'}
    BY DEF BranchPoints
  <2> QED
    BY <1>2, <1>7, <2>1 DEF BranchPoints
<1>9. \A m \in Ids : Base(m) # Tip(n)
  BY <1>3, <1>4
<1>10. \A a, b \in BranchAnswers : a < b => Ahead(a, Base(b))
  BY <1>0 DEF OrderInv
<1>11. LastInv'
  <2>1. ShownAnswers' \subseteq ShownAnswers
    BY <1>1, <1>2 DEF ShownAnswers
  <2>2. stale => Newest(inputBase)
    BY <1>0, <1>1 DEF LastInv
  <2> QED
    BY <1>1, <1>2, <2>1, <2>2 DEF LastInv, Newest
<1>12. OrderInv'
  <2>1. ASSUME NEW a \in BranchAnswers', NEW b \in BranchAnswers', a < b
        PROVE  (Ahead(a, Base(b)))'
    <3>1. a \in BranchAnswers /\ a < target /\ b \in Ids
      BY <1>3, <1>4, <1>7, <2>1
    <3>2. Ahead(a, Base(b))
      <4>1. CASE b = n
        <5>1. Ahead(a, Base(target))
          BY <1>7, <1>10, <3>1
        <5> QED
          BY <1>4, <4>1, <5>1
      <4> QED
        BY <1>7, <1>10, <2>1, <3>1, <4>1
    <3>3. Base(b) \in BranchPoints' => Base(b) \in BranchPoints
      BY <1>8, <1>9, <3>1
    <3> QED
      BY <1>2, <3>2, <3>3 DEF Ahead
  <2> QED
    BY <2>1 DEF OrderInv
<1>13. RunsOnInv'
  <2>1. ASSUME NEW p \in BranchPoints', AnswersAt(p) # {}
        PROVE  AnswersAt(p) \cap active' # {}
    <3>1. \A b : b \in AnswersAt(p) <=> b \in Answers /\ Base(b) = p
      BY <1>3 DEF AnswersAt, Group, Base
    <3>2. p = Start \/ \E a \in BranchAnswers : a < target /\ p = Tip(a)
      <4>1. p # Tip(n)
        BY <1>3, <1>9, <2>1, <3>1
      <4> QED
        BY <1>8, <4>1
    <3>3. p \in BranchPoints
      BY <1>8, <3>2
    <3>4. PICK b \in BranchAnswers : Base(b) = p
      BY <1>0, <1>1, <2>1, <3>1, <3>3 DEF RunsOnInv, BranchAnswers
    <3>5. CASE b < target
      <4>1. b \in Answers /\ b \in active'
        BY <1>5, <1>6, <1>7, <3>5 DEF BranchAnswers
      <4> QED
        BY <3>1, <3>4, <4>1
    <3>6. CASE b = target
      <4>1. n \in AnswersAt(p) /\ n \in active'
        BY <1>4, <1>6, <3>1, <3>4, <3>6
      <4> QED
        BY <4>1
    <3>7. CASE target < b
      <4>1. Tip(target) <= p
        BY <1>7, <1>10, <3>3, <3>4, <3>7 DEF Ahead
      <4>2. p < Tip(target)
        BY <1>3, <1>4, <1>7, <3>2 DEF Start
      <4> QED
        BY <1>3, <1>4, <1>7, <3>4, <4>1, <4>2
    <3> QED
      BY <1>3, <1>7, <3>4, <3>5, <3>6, <3>7
  <2> QED
    BY <1>2, <1>5, <2>1 DEF RunsOnInv
<1>14. SwitchInv'
  BY <1>1 DEF SwitchInv
<1> QED
  BY <1>11, <1>12, <1>13, <1>14 DEF Running

LEMMA RunningSelect ==
  ASSUME TypeOK, Running, NEW m \in Ids, BeginSelect(m)
  PROVE  Running'
<1>1. /\ pc = "idle" /\ pc' = "hide" /\ target' = m
      /\ UNCHANGED <<messages, active, stale, inputBase>>
  BY DEF BeginSelect, Goto, document, store, graph, title
<1>2. PICK a \in ShownAnswers : m \in AnswersAt(messages[a].parent)
  BY DEF BeginSelect
<1>3. Base(a) = Base(m)
  BY <1>2 DEF AnswersAt, Group, Base
<1>4. /\ Branch' = Branch /\ BranchPoints' = BranchPoints /\ (OrderInv => OrderInv')
      /\ ShownAnswers' = ShownAnswers
      /\ \A k : Base(k)' = Base(k) /\ Tip(k)' = Tip(k)
      /\ \A p : AnswersAt(p)' = AnswersAt(p)
  BY <1>1, SameBranch, SamePlaces
<1>5. LastInv'
  BY <1>1, <1>4 DEF Running, LastInv, Newest
<1>6. RunsOnInv'
  BY <1>1, <1>4 DEF Running, RunsOnInv
<1>7. SwitchInv'
  <2>1. (\E b \in ShownAnswers : Base(b) = Base(target))'
    BY <1>1, <1>2, <1>3, <1>4
  <2> QED
    BY <1>1, <2>1 DEF SwitchInv
<1> QED
  BY <1>4, <1>5, <1>6, <1>7 DEF Running

\* Hiding cuts the branch before the answer whose place is taken.
LEMMA RunningHide ==
  ASSUME TypeOK, Growing, Running, Hide
  PROVE  Running'
<1>0. TreeInv /\ RetryInv /\ LastInv /\ OrderInv /\ RunsOnInv /\ SwitchInv
  BY DEF Growing, Running
<1>1. /\ pc = "hide" /\ pc' = "show"
      /\ active' = {m \in active : m < Smallest(Group(Base(target)))}
      /\ UNCHANGED <<messages, stale, inputBase, target>>
  BY DEF Hide, Goto, document, graph, title, Base
<1>2. /\ Ids' = Ids /\ Answers' = Answers
      /\ \A m : Base(m)' = Base(m) /\ Tip(m)' = Tip(m)
      /\ \A p : AnswersAt(p)' = AnswersAt(p)
  BY <1>1, SamePlaces
<1>3. /\ Answers \subseteq Ids /\ Ids \subseteq Nat
      /\ \A m \in Ids : Base(m) \in Nat /\ Tip(m) \in Nat /\ Base(m) < Tip(m)
      /\ \A a \in Answers, m \in Ids : a < m => Tip(a) < Tip(m)
  BY <1>0, TreeOrder
<1>4. target \in Answers
  BY <1>0, <1>1 DEF RetryInv
<1> DEFINE lo == Smallest(Group(Base(target)))
<1>5. lo \in Ids /\ Base(lo) = Base(target) /\ \A m \in Ids : Base(m) = Base(target) => lo <= m
  <2>1. /\ target \in Group(Base(target))
        /\ \A m : m \in Group(Base(target)) <=> m \in Ids /\ Base(m) = Base(target)
    BY <1>3, <1>4 DEF Group, Base
  <2>2. Group(Base(target)) \subseteq Nat
    BY <1>3, <2>1
  <2>3. lo \in Group(Base(target)) /\ \A k \in Group(Base(target)) : lo <= k
    BY <2>1, <2>2, SmallestIsLeast
  <2> HIDE DEF lo
  <2> QED
    BY <2>1, <2>3
<1>6. active' = {m \in active : m < lo}
  BY <1>1
<1> HIDE DEF lo
<1>7. /\ Branch = active /\ Branch' = active' /\ BranchAnswers = ShownAnswers
      /\ ShownAnswers' = {a \in ShownAnswers : a < lo} /\ BranchAnswers' = ShownAnswers'
      /\ ShownAnswers \subseteq Answers
  BY <1>1, <1>2, <1>6 DEF Branch, BranchAnswers, ShownAnswers
<1>8. \A p : /\ p \in BranchPoints <=> p = Start \/ \E a \in ShownAnswers : p = Tip(a)
             /\ p \in BranchPoints' <=>
                    p = Start \/ \E a \in ShownAnswers : a < lo /\ p = Tip(a)
  <2>1. BranchPoints' = {Start} \cup {Tip(a)' : a \in BranchAnswers'}
    BY DEF BranchPoints
  <2> QED
    BY <1>2, <1>7, <2>1 DEF BranchPoints
<1>9. PICK s \in ShownAnswers : Base(s) = Base(target)
  BY <1>0, <1>1 DEF SwitchInv
<1>10. s \in Ids /\ s \in Nat /\ lo \in Nat /\ lo <= s
  BY <1>3, <1>5, <1>7, <1>9
<1>11. \A a, b \in ShownAnswers : a < b => Ahead(a, Base(b))
  BY <1>0, <1>7 DEF OrderInv
<1>12. LastInv'
  <2>1. stale => Newest(inputBase)
    BY <1>0, <1>1 DEF LastInv
  <2>2. ASSUME stale, NEW a \in ShownAnswers', Tip(a) = inputBase PROVE FALSE
    <3>1. a \in ShownAnswers /\ a < lo /\ a \in Nat
      BY <1>3, <1>7, <2>2
    <3>2. s <= a
      BY <1>9, <2>1, <2>2, <3>1 DEF Newest
    <3> QED
      BY <1>10, <3>1, <3>2
  <2> QED
    BY <1>1, <1>2, <2>2 DEF LastInv, Newest
<1>13. OrderInv'
  <2>1. ASSUME NEW a \in ShownAnswers', NEW b \in ShownAnswers', a < b
        PROVE  (Ahead(a, Base(b)))'
    <3>1. Ahead(a, Base(b))
      BY <1>7, <1>11, <2>1
    <3> QED
      BY <1>2, <1>8, <3>1 DEF Ahead
  <2> QED
    BY <1>7, <2>1 DEF OrderInv
<1>14. SwitchInv'
  <2>1. ASSUME NEW a \in ShownAnswers' PROVE (Ahead(a, Base(target)))'
    <3>1. a \in ShownAnswers /\ a < s
      BY <1>3, <1>7, <1>10
    <3>2. Ahead(a, Base(s))
      BY <1>9, <1>11, <3>1
    <3>3. Base(target)' = Base(target)
      BY <1>1 DEF Base
    <3> QED
      BY <1>2, <1>8, <1>9, <3>2, <3>3 DEF Ahead
  <2> QED
    BY <1>1, <1>7, <2>1 DEF SwitchInv
<1>15. RunsOnInv'
  <2>1. ASSUME NEW p \in BranchPoints', AnswersAt(p) # {}
        PROVE  AnswersAt(p) \cap active' # {} \/ p = Base(target)
    <3>1. \A b : b \in AnswersAt(p) <=> b \in Answers /\ Base(b) = p
      BY <1>3 DEF AnswersAt, Group, Base
    <3>2. p = Start \/ \E a \in ShownAnswers : a < lo /\ p = Tip(a)
      BY <1>8
    <3>3. p \in BranchPoints
      BY <1>8, <3>2
    <3>4. PICK b \in ShownAnswers : Base(b) = p
      BY <1>0, <1>1, <1>7, <2>1, <3>1, <3>3 DEF RunsOnInv, ShownAnswers
    <3>5. b \in Answers /\ b \in Ids /\ b \in Nat
      BY <1>3, <1>7
    <3>6. CASE b < lo
      <4>1. b \in active'
        BY <1>6, <3>4, <3>6 DEF ShownAnswers
      <4> QED
        BY <3>1, <3>4, <3>5, <4>1
    <3>7. CASE b = s
      BY <1>9, <3>4, <3>7
    <3>8. CASE s < b
      <4>1. Tip(s) <= p
        BY <1>9, <1>11, <3>3, <3>4, <3>8 DEF Ahead
      <4>2. p < Tip(s)
        BY <1>3, <1>7, <1>9, <1>10, <3>2 DEF Start
      <4> QED
        BY <1>3, <1>10, <3>4, <3>5, <4>1, <4>2
    <3>9. CASE lo <= b /\ b < s
      <4>1. Ahead(b, Base(s))
        BY <1>9, <1>11, <3>4, <3>9
      <4>2. b < lo
        BY <1>5, <1>9, <4>1 DEF Ahead
      <4> QED
        BY <1>10, <3>5, <3>9, <4>2
    <3> QED
      BY <1>10, <3>5, <3>6, <3>7, <3>8, <3>9
  <2>2. Base(target)' = Base(target)
    BY <1>1 DEF Base
  <2> QED
    BY <1>1, <1>2, <1>7, <2>1, <2>2 DEF RunsOnInv
<1> QED
  BY <1>12, <1>13, <1>14, <1>15 DEF Running

\* On a path, the answer that nothing follows is the last.
LEMMA PathEndIsLast ==
  ASSUME TypeOK, TreeInv, NEW K, K \subseteq Answers, NEW m, KeepsPath(K, m),
         NEW a \in K, \A b \in K : Base(b) # Tip(a)
  PROVE  \A b \in K : b <= a
<1>1. /\ m \in K
      /\ \A b \in K : Base(b) >= Base(m) /\ (b = m \/ \E c \in K : Base(b) = Tip(c))
      /\ \A b, c \in K : b < c => Tip(b) <= Base(c)
  BY DEF KeepsPath
<1>2. /\ K \subseteq Ids /\ K \subseteq Nat
      /\ \A b \in K : Base(b) \in Nat /\ Tip(b) \in Nat /\ Base(b) < Tip(b)
      /\ \A b, c \in K : b < c => Tip(b) < Tip(c)
      /\ \A b, c \in K : Tip(b) <= Base(c) => b < c
  BY TreeOrder
<1> DEFINE Later == {b \in K : a < b}
<1>3. SUFFICES ASSUME Later # {} PROVE FALSE
  BY <1>2
<1>4. PICK b \in Later : \A c \in Later : b <= c
  BY <1>2, <1>3, LeastOfNaturals
<1>5. b \in K /\ a < b /\ Tip(a) <= Base(b)
  BY <1>1, <1>4
<1>6. \A c \in K : c < b => ~(a < c)
  BY <1>2, <1>4
<1> HIDE DEF Later
<1>7. b # m
  <2>1. Base(a) >= Base(m)
    BY <1>1
  <2> QED
    BY <1>1, <1>2, <1>5, <2>1
<1>8. PICK c \in K : Base(b) = Tip(c)
  BY <1>1, <1>5, <1>7
<1>9. c < b /\ ~(a < c)
  BY <1>2, <1>5, <1>6, <1>8
<1>10. c = a
  BY <1>2, <1>5, <1>8, <1>9
<1> QED
  BY <1>5, <1>8, <1>10

\* What is shown then goes on from there to the end of the path that is kept.
LEMMA RunningShow ==
  ASSUME TypeOK, Growing, Running, Show
  PROVE  Running'
<1>0. /\ TreeInv /\ RestartInv /\ PickInv
      /\ LastInv /\ OrderInv /\ RunsOnInv /\ SwitchInv
  BY DEF Growing, Running
<1>1. /\ pc = "show" /\ pc' = "idle" /\ active' = active \cup keep
      /\ UNCHANGED <<messages, stale, inputBase>>
  BY DEF Show, End, Goto, document, graph, title
<1>2. /\ Ids' = Ids /\ Answers' = Answers
      /\ \A m : Base(m)' = Base(m) /\ Tip(m)' = Tip(m)
      /\ \A p : AnswersAt(p)' = AnswersAt(p)
  BY <1>1, SamePlaces
<1>3. /\ Answers \subseteq Ids /\ Ids \subseteq Nat
      /\ \A m \in Ids : Base(m) \in Nat /\ Tip(m) \in Nat /\ Base(m) < Tip(m)
      /\ \A a \in Answers, m \in Ids : Tip(a) <= Base(m) => a < m
      /\ \A a \in Answers, m \in Ids : a < m => Tip(a) < Tip(m)
  BY <1>0, TreeOrder
<1> DEFINE K == Answers \cap keep
<1>4. KeepsPath(K, target) /\ K \subseteq Answers
  BY <1>0, <1>1 DEF PickInv
<1>5. /\ Branch = active /\ Branch' = active \cup keep /\ BranchAnswers = ShownAnswers
      /\ BranchAnswers' = ShownAnswers \cup K /\ ShownAnswers' = ShownAnswers \cup K
      /\ ShownAnswers \subseteq Answers
  BY <1>1, <1>2 DEF Branch, BranchAnswers, ShownAnswers
<1>6. K \subseteq keep
  OBVIOUS
<1> HIDE DEF K
<1>7. /\ target \in K
      /\ \A b \in K : Base(b) >= Base(target) /\ (b = target \/ \E c \in K : Base(b) = Tip(c))
      /\ \A a, b \in K : a < b => Tip(a) <= Base(b)
      /\ \A b \in K : AnswersAt(Tip(b)) # {} => \E c \in K : Base(c) = Tip(b)
  BY <1>4 DEF KeepsPath
\* All of the path comes after what was shown, and so does what follows it.
<1>8. \A a \in ShownAnswers : Ahead(a, Base(target))
  BY <1>0, <1>1, <1>5 DEF SwitchInv
<1>9. ASSUME NEW a \in ShownAnswers, NEW c \in K
      PROVE  a < c /\ a < target /\ target <= c
  <2>1. a \in Ids /\ c \in Ids /\ target \in Ids /\ target \in Answers /\ c \in Answers
    BY <1>3, <1>4, <1>5, <1>7
  <2>2. a < target
    BY <1>8, <2>1 DEF Ahead
  <2>3. c < target => Tip(c) <= Base(target) /\ Base(target) <= Base(c)
    BY <1>3, <1>7, <2>1
  <2>4. ~(c < target)
    BY <1>3, <2>1, <2>3
  <2> QED
    BY <1>3, <2>1, <2>2, <2>4
<1>10. \A c \in K, m \in Ids : Base(m) = Tip(c) => c < m
  BY <1>3, <1>4
<1>11. \A p : /\ p \in BranchPoints <=> p = Start \/ \E a \in ShownAnswers : p = Tip(a)
              /\ p \in BranchPoints' <=> p \in BranchPoints \/ \E c \in K : p = Tip(c)
  <2>1. BranchPoints' = {Start} \cup {Tip(a)' : a \in BranchAnswers'}
    BY DEF BranchPoints
  <2> QED
    BY <1>2, <1>5, <2>1 DEF BranchPoints
<1>12. LastInv'
  <2>1. ASSUME stale, NEW a \in ShownAnswers', Tip(a) = inputBase, NEW b \in ShownAnswers'
        PROVE  b <= a
    <3>1. a \in K
      BY <1>0, <1>1, <1>5, <2>1 DEF LastInv
    <3>2. CASE b \in ShownAnswers
      <4>1. b < a /\ a \in Nat /\ b \in Nat
        BY <1>3, <1>4, <1>5, <1>9, <3>1, <3>2
      <4> QED
        BY <4>1
    <3>3. CASE b \in K
      <4>1. Free(inputBase)
        BY <1>0, <1>1, <2>1 DEF RestartInv
      <4>2. \A c \in K : Base(c) # Tip(a)
        BY <1>3, <1>4, <2>1, <4>1 DEF Free
      <4> QED
        BY <1>0, <1>4, <3>1, <3>3, <4>2, PathEndIsLast
    <3> QED
      BY <1>5, <2>1, <3>2, <3>3
  <2> QED
    BY <1>1, <1>2, <2>1 DEF LastInv, Newest
<1>13. OrderInv'
  <2>1. ASSUME NEW a \in ShownAnswers \cup K, NEW b \in ShownAnswers \cup K, a < b
        PROVE  /\ \A m \in Ids : Base(m) = Base(b) => a < m
               /\ Base(b) \in BranchPoints' => Tip(a) <= Base(b)
    <3>1. a \in Ids /\ b \in Ids /\ a \in Answers /\ b \in Answers /\ target \in Ids
      BY <1>3, <1>4, <1>5, <1>7
    <3>2. CASE a \in ShownAnswers /\ b \in ShownAnswers
      <4>1. Ahead(a, Base(b))
        BY <1>0, <1>5, <2>1, <3>2 DEF OrderInv
      <4>2. \A c \in K : Base(b) # Tip(c)
        <5>1. ASSUME NEW c \in K, Base(b) = Tip(c) PROVE FALSE
          <6>1. c < b /\ b < c /\ c \in Nat
            BY <1>3, <1>4, <1>9, <1>10, <3>1, <3>2, <5>1
          <6> QED
            BY <1>3, <3>1, <6>1
        <5> QED
          BY <5>1
      <4> QED
        BY <1>11, <4>1, <4>2 DEF Ahead
    <3>3. CASE a \in ShownAnswers /\ b = target
      <4>1. Ahead(a, Base(target))
        BY <1>8, <3>3
      <4>2. \A c \in K : Base(target) # Tip(c)
        <5>1. ASSUME NEW c \in K, Base(target) = Tip(c) PROVE FALSE
          <6>1. c < target /\ target <= c /\ c \in Nat
            BY <1>3, <1>4, <1>9, <1>10, <3>1, <3>3, <5>1
          <6> QED
            BY <1>3, <3>1, <6>1
        <5> QED
          BY <5>1
      <4> QED
        BY <1>11, <3>3, <4>1, <4>2 DEF Ahead
    <3>4. CASE a \in ShownAnswers /\ b \in K /\ b # target
      <4>1. PICK c \in K : Base(b) = Tip(c)
        BY <1>7, <3>4
      <4>2. c \in Ids /\ Tip(a) < Tip(c)
        BY <1>3, <1>4, <1>9, <3>1, <3>4
      <4> QED
        BY <1>3, <3>1, <4>1, <4>2
    <3>5. CASE a \in K /\ b \in K
      <4>1. Tip(a) <= Base(b)
        BY <1>7, <2>1, <3>5
      <4> QED
        BY <1>3, <3>1, <4>1
    <3>6. CASE a \in K /\ b \in ShownAnswers
      BY <1>3, <1>9, <2>1, <3>1, <3>6
    <3> QED
      BY <3>2, <3>3, <3>4, <3>5, <3>6
  <2> QED
    BY <1>2, <1>5, <2>1 DEF OrderInv, Ahead
<1>14. RunsOnInv'
  <2>1. ASSUME NEW p \in BranchPoints', AnswersAt(p) # {}
        PROVE  AnswersAt(p) \cap (active \cup keep) # {}
    <3>1. \A b : b \in AnswersAt(p) <=> b \in Answers /\ Base(b) = p
      BY <1>3 DEF AnswersAt, Group, Base
    <3>2. CASE p \in BranchPoints
      <4>1. AnswersAt(p) \cap active # {} \/ p = Base(target)
        BY <1>0, <1>5, <2>1, <3>2 DEF RunsOnInv
      <4> QED
        BY <1>4, <1>6, <1>7, <3>1, <4>1
    <3>3. CASE \E c \in K : p = Tip(c)
      BY <1>4, <1>6, <1>7, <2>1, <3>1, <3>3
    <3> QED
      BY <1>11, <3>2, <3>3
  <2> QED
    BY <1>2, <1>5, <2>1 DEF RunsOnInv
<1>15. SwitchInv'
  BY <1>1 DEF SwitchInv
<1> QED
  BY <1>12, <1>13, <1>14, <1>15 DEF Running

LEMMA RunningStep ==
  ASSUME TurnsOnly, TypeOK, Growing, Running, [Next]_vars
  PROVE  Running'
<1>1. CASE \/ CreateThread \/ BeginResume \/ Touch \/ SetFlag \/ Interrupt
           \/ BeginRename \/ SaveTitle \/ Delete \/ UNCHANGED vars
           \/ \E m \in Ids : BeginRetry(m)
  BY <1>1, RunningRequests
<1>2. CASE EnterTurn \/ EnterRetry \/ StreamEnds
  BY <1>2, RunningStreams
<1>3. CASE InsertHuman \/ InsertAnswer
  BY <1>3, RunningQuestion, RunningAnswer
<1>4. CASE Supersede \/ Hide \/ Show
  BY <1>4, RunningSupersede, RunningHide, RunningShow
<1>5. CASE \E m \in Ids : BeginSelect(m)
  BY <1>5, RunningSelect
<1> QED
  BY <1>1, <1>2, <1>3, <1>4, <1>5 DEF Next, Conversation

(* No turn that followed what is shown stays hidden, whatever was          *)
(* regenerated and selected before and whatever overlapped with it --      *)
(* select_variant: "each answer keeps the conversation that grew out of    *)
(* it".                                                                    *)
THEOREM BranchIsShownToItsEnd == TurnsOnly /\ Spec => []BranchRunsToItsEnd
<1> SUFFICES ASSUME TurnsOnly PROVE Spec => []BranchRunsToItsEnd
  OBVIOUS
<1>1. Init => Running
  BY RunningInit
<1>2. TypeOK /\ Growing /\ Running /\ [Next]_vars => Running'
  BY RunningStep
<1>3. Spec => [](TypeOK /\ Growing)
  BY GrowingAlways
<1>4. Running => BranchRunsToItsEnd
  <2> SUFFICES ASSUME Running, pc \notin {"supersede", "show"}
               PROVE  \A p \in Points : AnswersAt(p) # {} => AnswersAt(p) \cap active # {}
    BY DEF BranchRunsToItsEnd
  <2>1. Branch = active /\ BranchPoints = Points /\ RunsOnInv
    BY DEF Running, Branch, BranchAnswers, ShownAnswers, BranchPoints, Points, Tip
  <2> QED
    BY <2>1 DEF RunsOnInv
<1> QED
  BY <1>1, <1>2, <1>3, <1>4, PTL DEF Spec
=============================================================================
