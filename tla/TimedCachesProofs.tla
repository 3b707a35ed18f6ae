-------------------------- MODULE TimedCachesProofs --------------------------
(***************************************************************************)
(* Proofs about TimedCaches, for both kinds of cache, any finite number of *)
(* requests, and all times.                                                *)
(***************************************************************************)
EXTENDS TimedCaches, FiniteSetTheorems, TLAPS

-----------------------------------------------------------------------------
(* The inductive invariant                                                 *)

Pending == {"waiting", "fetching", "received"}

Working(r) == at[r] \in {"fetching", "received"}

Holds(r) == line # <<>> /\ r = Head(line)

\* The head of the line may fetch, the others wait.  Outside the line only
\* writers fetch, and in the version's line nobody is forced.
LineInv ==
    /\ \A i \in DOMAIN line : at[line[i]] \in Pending
    /\ \A i \in DOMAIN line : i # 1 => at[line[i]] = "waiting"
    /\ \A r \in Requests : Working(r) => Holds(r) \/ (policy = "version" /\ forced[r])
    /\ \A i \in DOMAIN line : policy = "version" => ~forced[line[i]]
    /\ \A r \in Requests : at[r] = "idle" => ~forced[r]

\* Times lie in the past, a fetch began at most Timeout ago, and what is fresh
\* or silenced is so for a bounded time.
TimeInv ==
    /\ \A r \in Requests : now[r] <= clock /\ since[r] <= clock
    /\ \A r \in Requests : Working(r) => clock <= since[r] + Timeout
    /\ expires <= clock + TTL
    /\ retry <= clock + FailureTTL

\* When the source last had v.
LastHad(v) == IF v = source THEN clock ELSE replaced[v]

\* What is cached or on its way was the source's when it was fetched.
SourceInv ==
    /\ \A v \in Values : v < source => replaced[v] \in 0..clock
    /\ cached # None =>
        /\ cached \in 0..source
        /\ expires <= LastHad(cached) + TTL + Timeout
    /\ \A r \in Requests : at[r] = "received" =>
        /\ value[r] \in 0..source
        /\ since[r] <= LastHad(value[r])

\* An item that is looked for was published, and a fetch that began later
\* cannot bring an older value.
WantInv ==
    policy = "items" =>
        \A r \in Requests :
            /\ at[r] \in Pending => wanted[r] \in 0..source
            /\ at[r] = "received" => wanted[r] <= value[r]

\* The version's line is in the order of its times.  Whoever waits came after
\* the fetch under way began, or finds its end without a fetch of its own.
ReadInv ==
    policy = "version" =>
        /\ \A i, j \in DOMAIN line : i < j => now[line[i]] <= now[line[j]]
        /\ \A i \in DOMAIN line :
            IF at[line[1]] = "waiting"
            THEN /\ clock <= now[line[i]] + Timeout
                 /\ \/ now[line[i]] = clock
                    \/ Fresh(now[line[i]])
                    \/ Silenced(now[line[i]])
            ELSE since[line[1]] <= now[line[i]]

\* When the head of the line began to fetch, or now.
TurnBegan == IF at[line[1]] = "waiting" THEN clock ELSE since[line[1]]

Slack(n) == n * Timeout

\* Who is going to be served from the cache has seen the value stored while it
\* stood in the line, and each one served before it took a fetch at most.
QueueInv ==
    \A i \in DOMAIN line :
        ~forced[line[i]] /\ Fresh(now[line[i]])
            => TurnBegan <= LastHad(cached) + Slack(Cardinality(Requests) - i)

\* Answers are values the source has had, not too long ago.
AnswerInv ==
    \A r \in Requests : at[r] = "answered" =>
        value[r] \in 0..source /\ clock < LastHad(value[r]) + TTL + Timeout

Refreshing ==
    /\ TypeOK /\ LineInv /\ TimeInv
    /\ SourceInv /\ WantInv /\ ReadInv /\ QueueInv /\ AnswerInv

-----------------------------------------------------------------------------
(* The line                                                                *)

\* No value is None, and None is no time.
LEMMA NoneFacts ==
  /\ None \notin Values /\ None \notin Clock
  /\ Timeout \in Nat \ {0} /\ TTL \in Nat \ {0} /\ FailureTTL \in Nat \ {0}
  /\ MaxChanges \in Nat /\ MaxClock \in Nat
BY TimesAssumption DEF Values, Clock

\* Whoever is in the line twice is there at one place.
Queue(s) ==
    /\ s \in Seq(Requests)
    /\ \A i, j \in DOMAIN s : i # j => s[i] # s[j]

\* Who is pending in the line, holds it or stands behind.
LEMMA InLine ==
  ASSUME TypeOK, LineInv
  PROVE  /\ Queue(line)
         /\ \A r \in Requests : at[r] \in Settled \cup {"idle"} =>
                \A i \in DOMAIN line : line[i] # r
         /\ \A r \in Requests : Working(r) /\ ~Holds(r) =>
                \A i \in DOMAIN line : line[i] # r
<1>1. Queue(line)
  BY DEF TypeOK, LineTypes, Queue
<1>2. ASSUME NEW r \in Requests, at[r] \in Settled \cup {"idle"}, NEW i \in DOMAIN line
      PROVE  line[i] # r
  BY <1>2 DEF LineInv, Pending, Settled
<1>3. ASSUME NEW r \in Requests, Working(r), ~Holds(r), NEW i \in DOMAIN line
      PROVE  line[i] # r
  BY <1>1, <1>3 DEF LineInv, Working, Holds, Queue
<1> QED
  BY <1>1, <1>2, <1>3

\* What Without leaves.
LEMMA WithoutFacts ==
  ASSUME Queue(line), NEW r \in Requests,
         Holds(r) \/ \A i \in DOMAIN line : line[i] # r
  PROVE  /\ Queue(Without(r))
         /\ \A i \in DOMAIN Without(r) : Without(r)[i] # r
         /\ \A i \in DOMAIN line : line[i] # r =>
                \E j \in DOMAIN Without(r) : Without(r)[j] = line[i]
         /\ Holds(r) =>
                /\ DOMAIN Without(r) = 1..(Len(line) - 1)
                /\ \A i \in DOMAIN Without(r) :
                    i + 1 \in DOMAIN line /\ Without(r)[i] = line[i + 1]
         /\ ~Holds(r) => Without(r) = line
<1>1. CASE Holds(r)
  <2>1. /\ Without(r) = Tail(line) /\ line # <<>> /\ r = line[1]
        /\ Len(line) \in Nat /\ Len(line) >= 1 /\ DOMAIN line = 1..Len(line)
    BY <1>1 DEF Without, Holds, Queue
  <2>2. /\ Tail(line) \in Seq(Requests) /\ DOMAIN Tail(line) = 1..(Len(line) - 1)
        /\ \A i \in 1..(Len(line) - 1) : Tail(line)[i] = line[i + 1]
    BY <2>1 DEF Queue
  <2>3. \A i \in DOMAIN line : line[i] # r =>
            i - 1 \in DOMAIN Tail(line) /\ Tail(line)[i - 1] = line[i]
    BY <2>1, <2>2
  <2>4. Queue(Tail(line))
    BY <2>2 DEF Queue
  <2>5. \A i \in DOMAIN Tail(line) : Tail(line)[i] # r
    BY <2>1, <2>2 DEF Queue
  <2>6. \A i \in DOMAIN line : line[i] # r =>
            \E j \in DOMAIN Tail(line) : Tail(line)[j] = line[i]
    BY <2>3
  <2>7. \A i \in DOMAIN Tail(line) :
            i + 1 \in DOMAIN line /\ Tail(line)[i] = line[i + 1]
    BY <2>1, <2>2
  <2> HIDE DEF Queue
  <2> QED
    BY <1>1, <2>1, <2>2, <2>4, <2>5, <2>6, <2>7
<1>2. CASE ~Holds(r)
  BY <1>2 DEF Without, Holds
<1> QED
  BY <1>1, <1>2

\* Standing behind a line.
LEMMA AppendFacts ==
  ASSUME NEW s, Queue(s), NEW r \in Requests, \A i \in DOMAIN s : s[i] # r
  PROVE  /\ Queue(Append(s, r))
         /\ Append(s, r) # <<>>
         /\ DOMAIN Append(s, r) = 1..(Len(s) + 1) /\ Len(s) + 1 \in Nat
         /\ DOMAIN s = 1..Len(s)
         /\ \A i \in DOMAIN s : i \in DOMAIN Append(s, r) /\ Append(s, r)[i] = s[i]
         /\ Len(s) + 1 \in DOMAIN Append(s, r) /\ Append(s, r)[Len(s) + 1] = r
BY DEF Queue

\* The three things that a step of r does to the line.
Leaves(r) == line' = Without(r) /\ at'[r] \in Settled

Queues(r) ==
    /\ line' = Append(Without(r), r)
    /\ at'[r] = "waiting"
    /\ policy = "version" => ~forced'[r]

Stays(r) ==
    /\ line' = line
    /\ at'[r] # "waiting" /\ (at'[r] = "idle" => ~forced'[r])
    /\ IF Holds(r) THEN at'[r] \in Pending /\ forced'[r] = forced[r]
       ELSE at'[r] \in Pending => policy = "version" /\ forced'[r]

\* Nobody else's place or refresh is touched.
Alone(r) ==
    /\ at' \in [Requests -> Places] /\ forced' \in [Requests -> BOOLEAN]
    /\ \A q \in Requests \ {r} : at'[q] = at[q] /\ forced'[q] = forced[q]
    /\ policy' = policy

LEMMA LineKept ==
  ASSUME TypeOK, LineInv, NEW r \in Requests, Alone(r),
         Holds(r) \/ \A i \in DOMAIN line : line[i] # r,
         Leaves(r) \/ Queues(r) \/ Stays(r)
  PROVE  LineTypes' /\ LineInv'
<1>1. Queue(line)
  BY InLine
<1>2. \A q \in Requests : at[q] = "waiting" => \E i \in DOMAIN line : line[i] = q
  BY DEF TypeOK, LineTypes
<1>3. CASE Leaves(r)
  <2> DEFINE W == Without(r)
  <2>1. /\ Queue(W)
        /\ \A i \in DOMAIN W : W[i] # r /\ W[i] \in Requests
        /\ \A i \in DOMAIN line : line[i] # r => \E j \in DOMAIN W : W[j] = line[i]
    BY <1>1, WithoutFacts DEF Queue
  <2>2. \A i \in DOMAIN W : \E j \in DOMAIN line : W[i] = line[j] /\ (i # 1 => j # 1)
    BY <1>1, WithoutFacts DEF Queue
  <2>3. line' = W /\ at'[r] \in Settled
    BY <1>3 DEF Leaves
  <2> HIDE DEF W
  <2>4. LineTypes'
    BY <1>2, <2>1, <2>3 DEF LineTypes, Queue, Alone, Settled
  <2>5. \A i \in DOMAIN W : /\ at'[W[i]] \in Pending
                            /\ i # 1 => at'[W[i]] = "waiting"
                            /\ policy' = "version" => ~forced'[W[i]]
    BY <2>1, <2>2 DEF LineInv, Alone
  <2>6. \A q \in Requests : /\ at'[q] = "idle" => ~forced'[q]
                            /\ Working(q)' => Holds(q)' \/ (policy' = "version" /\ forced'[q])
    <3> SUFFICES ASSUME NEW q \in Requests
                 PROVE  /\ at'[q] = "idle" => ~forced'[q]
                        /\ Working(q)' => Holds(q)' \/ (policy' = "version" /\ forced'[q])
      OBVIOUS
    <3>1. CASE q = r
      BY <2>3, <3>1 DEF Settled, Working
    <3>2. CASE q # r
      <4>1. ASSUME Working(q)', ~(policy' = "version" /\ forced'[q])
            PROVE  Holds(q)'
        <5>1. Holds(q) /\ q = line[1]
          BY <3>2, <4>1, <1>1 DEF LineInv, Alone, Working, Holds, Queue
        <5>2. ~Holds(r)
          BY <5>1, <3>2 DEF Holds
        <5> QED
          BY <5>1, <5>2, <2>3, <1>1, WithoutFacts DEF W, Holds
      <4> QED
        BY <3>2, <4>1 DEF LineInv, Alone
    <3> QED
      BY <3>1, <3>2
  <2>7. LineInv'
    BY <2>3, <2>5, <2>6 DEF LineInv
  <2> QED
    BY <2>4, <2>7
<1>4. CASE Queues(r)
  <2> DEFINE W == Without(r)
             L == Append(W, r)
  <2>1. /\ Queue(W)
        /\ \A i \in DOMAIN W : W[i] # r /\ W[i] \in Requests
        /\ \A i \in DOMAIN line : line[i] # r => \E j \in DOMAIN W : W[j] = line[i]
    BY <1>1, WithoutFacts DEF Queue
  <2>2. \A i \in DOMAIN W : \E j \in DOMAIN line : W[i] = line[j] /\ (i # 1 => j # 1)
    BY <1>1, WithoutFacts DEF Queue
  <2>3. line' = L /\ at'[r] = "waiting" /\ (policy' = "version" => ~forced'[r])
    BY <1>4 DEF Queues, Alone
  <2>4. ~Holds(r) => W = line
    BY <1>1, WithoutFacts
  <2> HIDE DEF W
  <2>5. /\ Queue(L) /\ DOMAIN L = 1..(Len(W) + 1) /\ Len(W) + 1 \in Nat
        /\ DOMAIN W = 1..Len(W)
        /\ \A i \in DOMAIN W : i \in DOMAIN L /\ L[i] = W[i]
        /\ Len(W) + 1 \in DOMAIN L /\ L[Len(W) + 1] = r
    BY <2>1, AppendFacts
  <2> HIDE DEF L
  <2>6. \A i \in DOMAIN L : i \in DOMAIN W \/ i = Len(W) + 1
    BY <2>5
  <2>7. LineTypes'
    <3>1. \A q \in Requests : at'[q] = "waiting" => \E i \in DOMAIN L : L[i] = q
      BY <1>2, <2>1, <2>5 DEF Alone
    <3> QED
      BY <2>3, <2>5, <3>1 DEF LineTypes, Queue
  <2>8. \A i \in DOMAIN L : /\ at'[L[i]] \in Pending
                            /\ i # 1 => at'[L[i]] = "waiting"
                            /\ policy' = "version" => ~forced'[L[i]]
    <3>1. ASSUME NEW i \in DOMAIN W
          PROVE  /\ at'[W[i]] \in Pending
                 /\ i # 1 => at'[W[i]] = "waiting"
                 /\ policy' = "version" => ~forced'[W[i]]
      BY <2>1, <2>2 DEF LineInv, Alone
    <3> QED
      BY <2>3, <2>5, <2>6, <3>1 DEF Pending
  <2>9. \A q \in Requests : /\ at'[q] = "idle" => ~forced'[q]
                            /\ Working(q)' => Holds(q)' \/ (policy' = "version" /\ forced'[q])
    <3> SUFFICES ASSUME NEW q \in Requests
                 PROVE  /\ at'[q] = "idle" => ~forced'[q]
                        /\ Working(q)' => Holds(q)' \/ (policy' = "version" /\ forced'[q])
      OBVIOUS
    <3>1. CASE q = r
      BY <2>3, <3>1 DEF Working
    <3>2. CASE q # r
      <4>1. ASSUME Working(q)', ~(policy' = "version" /\ forced'[q])
            PROVE  Holds(q)'
        <5>1. line # <<>> /\ q = line[1] /\ 1 \in DOMAIN line
          BY <3>2, <4>1, <1>1 DEF LineInv, Alone, Working, Holds, Queue
        <5>2. ~Holds(r)
          BY <5>1, <3>2 DEF Holds
        <5>3. 1 \in DOMAIN L /\ L[1] = q
          BY <2>4, <2>5, <5>1, <5>2
        <5> QED
          BY <2>3, <2>5, <5>3 DEF Holds, Queue
      <4> QED
        BY <3>2, <4>1 DEF LineInv, Alone
    <3> QED
      BY <3>1, <3>2
  <2>10. LineInv'
    BY <2>3, <2>8, <2>9 DEF LineInv
  <2> QED
    BY <2>7, <2>10
<1>5. CASE Stays(r)
  <2>1. LineTypes'
    BY <1>1, <1>2, <1>5 DEF LineTypes, Queue, Stays, Alone
  <2>2. \A i \in DOMAIN line : i # 1 => line[i] # r
    BY <1>1 DEF Holds, Queue
  <2>3. \A i \in DOMAIN line : line[i] \in Requests
    BY <1>1 DEF Queue
  <2>4. ASSUME NEW i \in DOMAIN line
        PROVE  at'[line[i]] \in Pending /\ (i # 1 => at'[line[i]] = "waiting")
    BY <1>5, <2>2, <2>3 DEF Stays, Alone, LineInv, Holds
  <2>5. ASSUME policy' = "version", NEW i \in DOMAIN line
        PROVE  ~forced'[line[i]]
    BY <1>5, <2>3, <2>5 DEF Stays, Alone, LineInv
  <2>6. \A q \in Requests : /\ at'[q] = "idle" => ~forced'[q]
                            /\ Working(q)' => Holds(q)' \/ (policy' = "version" /\ forced'[q])
    BY <1>5 DEF Stays, Alone, LineInv, Holds, Working, Pending
  <2> QED
    BY <1>5, <2>1, <2>4, <2>5, <2>6 DEF Stays, LineInv
<1> QED
  BY <1>3, <1>4, <1>5

\* Whoever examines a value is answered, is rejected, or queues again.
LEMMA ExamineMoves ==
  ASSUME TypeOK, NEW r \in Requests, NEW item, NEW v \in Values, Examine(r, item, v),
         policy' = policy
  PROVE  /\ Alone(r)
         /\ Leaves(r) \/ Queues(r)
         /\ Leaves(r) \/ now' = [now EXCEPT ![r] = clock]
         /\ now' \in [Requests -> Clock]
         /\ value' = [value EXCEPT ![r] = v]
         /\ value' \in [Requests -> Values \cup {None}]
         /\ at'[r] = "answered" \/ (policy = "items" /\ item \notin Items(v))
         /\ at'[r] = "rejected" => forced[r]
         /\ Queues(r) => forced'[r] /\ policy = "items"
<1> USE DEF Examine, Goto, LeaveLine, Alone, Leaves, Queues, TypeOK, Settled, Places, Found
<1>1. value' = [value EXCEPT ![r] = v] /\ value' \in [Requests -> Values \cup {None}]
  OBVIOUS
<1>2. CASE Found(item, v) /\ Goto(r, "answered") /\ LeaveLine(r) /\ UNCHANGED <<forced, now>>
  BY <1>1, <1>2
<1>3. CASE /\ ~Found(item, v) /\ forced[r] /\ Goto(r, "rejected") /\ LeaveLine(r)
           /\ UNCHANGED <<forced, now>>
  BY <1>1, <1>3
<1>4. CASE /\ ~Found(item, v) /\ ~forced[r] /\ Goto(r, "waiting")
           /\ line' = Append(Without(r), r)
           /\ forced' = [forced EXCEPT ![r] = TRUE]
           /\ now' = [now EXCEPT ![r] = clock]
  BY <1>1, <1>4
<1> QED
  BY <1>2, <1>3, <1>4

\* What an action of a request does to the line and to its clockwork.
RequestStep(r) ==
    \/ Look(r) \/ BeginWrite(r) \/ LookAgain(r) \/ Receive(r)
    \/ Store(r) \/ Fail(r) \/ Return(r)

Outside(r) == \A i \in DOMAIN line : line[i] # r

LEMMA RequestMoves ==
  ASSUME TypeOK, LineInv, SourceInv, NEW r \in Requests, RequestStep(r)
  PROVE  /\ Alone(r)
         /\ Holds(r) \/ Outside(r)
         /\ Leaves(r) \/ Queues(r) \/ Stays(r)
<1>1. Queue(line) /\ (at[r] \in Settled \cup {"idle"} => Outside(r))
      /\ (Working(r) => Holds(r) \/ Outside(r))
  BY InLine DEF Outside
<1>2. policy' = policy
  BY DEF RequestStep, Look, BeginWrite, LookAgain, Receive, Store, Fail, Return, world
<1>3. policy \in {"version", "items"} /\ at \in [Requests -> Places]
      /\ forced \in [Requests -> BOOLEAN]
  BY DEF TypeOK
<1>4. Outside(r) => ~Holds(r)
  BY <1>1 DEF Outside, Holds, Queue
<1>5. at[r] = "idle" => ~forced[r]
  BY DEF LineInv
<1>6. Outside(r) => Without(r) = line
  BY <1>4 DEF Without, Holds
<1>a. CASE Look(r)
  <2>1. at[r] = "idle"
    BY <1>a DEF Look
  <2>2. PICK item : \/ Fresh(clock) /\ Examine(r, item, cached)
                    \/ /\ Silenced(clock) /\ Goto(r, "failed")
                       /\ UNCHANGED <<line, forced, value>>
                    \/ /\ Goto(r, "waiting") /\ JoinLine(r)
                       /\ UNCHANGED <<forced, value>>
    BY <1>a DEF Look
  <2>3. CASE Fresh(clock) /\ Examine(r, item, cached)
    <3>1. cached \in Values
      BY <2>3 DEF Fresh, TypeOK
    <3> QED
      BY <1>1, <1>2, <2>1, <2>3, <3>1, ExamineMoves
  <2>4. CASE Silenced(clock) /\ Goto(r, "failed") /\ UNCHANGED <<line, forced, value>>
    BY <1>1, <1>2, <1>3, <1>6, <2>1, <2>4 DEF Goto, Alone, Leaves, Settled, Places
  <2>5. CASE Goto(r, "waiting") /\ JoinLine(r) /\ UNCHANGED <<forced, value>>
    BY <1>1, <1>2, <1>3, <1>5, <1>6, <2>1, <2>5
    DEF Goto, Alone, Queues, Settled, Places, JoinLine
  <2> QED
    BY <2>2, <2>3, <2>4, <2>5
<1>b. CASE BeginWrite(r)
  BY <1>b, <1>1, <1>2, <1>3, <1>4
  DEF BeginWrite, Goto, Alone, Stays, Settled, Places, Pending
<1>c. CASE LookAgain(r)
  <2>1. at[r] = "waiting" /\ r = Head(line) /\ Holds(r)
    BY <1>c DEF LookAgain, Holds, TypeOK, LineTypes
  <2>2. CASE Served(r) /\ Examine(r, wanted[r], cached) /\ UNCHANGED since
    <3>1. cached \in Values
      BY <2>2 DEF Served, Fresh, TypeOK
    <3> QED
      BY <1>2, <2>1, <2>2, <3>1, ExamineMoves
  <2>3. CASE Goto(r, "failed") /\ LeaveLine(r) /\ UNCHANGED <<forced, now, since, value>>
    BY <1>2, <1>3, <2>1, <2>3 DEF Goto, LeaveLine, Alone, Leaves, Settled, Places
  <2>4. CASE /\ Goto(r, "fetching")
             /\ since' = [since EXCEPT ![r] = clock]
             /\ UNCHANGED <<line, forced, now, value>>
    BY <1>2, <1>3, <2>1, <2>4 DEF Goto, Alone, Stays, Pending, Places
  <2> QED
    BY <1>c, <2>2, <2>3, <2>4 DEF LookAgain
<1>d. CASE Receive(r)
  BY <1>d, <1>1, <1>2, <1>3, <1>4
  DEF Receive, Goto, Alone, Stays, Settled, Places, Pending, Working, LineInv
<1>e. CASE Store(r)
  <2>1. Working(r)
    BY <1>e DEF Store, Working
  <2>2. value[r] \in Values
    BY <1>e, NoneFacts DEF Store, SourceInv, TypeOK, Values
  <2>3. Examine(r, wanted[r], value[r])
    BY <1>e DEF Store
  <2> QED
    BY <1>1, <1>2, <2>1, <2>2, <2>3, ExamineMoves
<1>f. CASE Fail(r)
  BY <1>f, <1>1, <1>2, <1>3
  DEF Fail, Goto, LeaveLine, Alone, Leaves, Settled, Places, Working
<1>g. CASE Return(r)
  BY <1>g, <1>1, <1>2, <1>3, <1>4
  DEF Return, Goto, Alone, Stays, Settled, Places, Pending
<1> QED
  BY <1>a, <1>b, <1>c, <1>d, <1>e, <1>f, <1>g DEF RequestStep

-----------------------------------------------------------------------------
(* Types and times                                                         *)

\* The types of a request's own variables.
LEMMA OwnTypes ==
  ASSUME TypeOK, LineInv, SourceInv, NEW r \in Requests, RequestStep(r)
  PROVE  /\ now' \in [Requests -> Clock] /\ since' \in [Requests -> Clock]
         /\ wanted' \in [Requests -> Values \cup {None}]
         /\ value' \in [Requests -> Values \cup {None}]
         /\ now'[r] \in {0, clock, now[r]} /\ since'[r] \in {0, clock, since[r]}
         /\ \A q \in Requests \ {r} :
                /\ now'[q] = now[q] /\ since'[q] = since[q]
                /\ wanted'[q] = wanted[q] /\ value'[q] = value[q]
<1> USE DEF TypeOK
<1>0. 0 \in Clock /\ clock \in Clock /\ source \in Values
  BY NoneFacts DEF Clock
<1>1. policy' = policy
  BY DEF RequestStep, Look, BeginWrite, LookAgain, Receive, Store, Fail, Return, world
<1>2. ASSUME NEW item, NEW v \in Values, Examine(r, item, v)
      PROVE  /\ now' \in [Requests -> Clock] /\ value' \in [Requests -> Values \cup {None}]
             /\ now'[r] \in {clock, now[r]}
             /\ \A q \in Requests \ {r} : now'[q] = now[q] /\ value'[q] = value[q]
  BY <1>0, <1>2 DEF Examine
<1>a. CASE Look(r)
  <2>1. PICK item \in IF policy = "items" THEN Items(source) ELSE {None} :
            /\ wanted' = [wanted EXCEPT ![r] = item]
            /\ \/ Fresh(clock) /\ Examine(r, item, cached)
               \/ now' = [now EXCEPT ![r] = clock] /\ UNCHANGED value
    BY <1>a DEF Look
  <2>2. item \in Values \cup {None}
    BY <2>1, <1>0, NoneFacts DEF Items, Values
  <2>3. cached \in Values \/ ~Fresh(clock)
    BY DEF Fresh
  <2>4. since' = since
    BY <1>a DEF Look
  <2> QED
    BY <1>0, <1>2, <2>1, <2>2, <2>3, <2>4
<1>b. CASE BeginWrite(r)
  BY <1>b, <1>0 DEF BeginWrite
<1>c. CASE LookAgain(r)
  <2>1. cached \in Values \/ ~Served(r)
    BY DEF Served, Fresh
  <2> QED
    BY <1>c, <1>0, <1>2, <2>1 DEF LookAgain
<1>d. CASE Receive(r)
  BY <1>d, <1>0 DEF Receive
<1>e. CASE Store(r)
  <2>1. value[r] \in Values
    BY <1>e, NoneFacts DEF Store, SourceInv, Values
  <2> QED
    BY <1>e, <1>0, <1>2, <2>1 DEF Store
<1>f. CASE Fail(r)
  BY <1>f, <1>0 DEF Fail
<1>g. CASE Return(r)
  BY <1>g, <1>0 DEF Return
<1> QED
  BY <1>a, <1>b, <1>c, <1>d, <1>e, <1>f, <1>g DEF RequestStep

\* What a step of a request does to the cache.
LEMMA CacheMoves ==
  ASSUME TypeOK, LineInv, TimeInv, SourceInv, NEW r \in Requests, RequestStep(r)
  PROVE  /\ UNCHANGED world
         /\ \/ UNCHANGED cache
            \/ /\ Store(r)
               /\ cached' = value[r] /\ expires' = Expiry(r) /\ retry' = retry
            \/ /\ Fail(r)
               /\ cached' = cached /\ expires' = expires
               /\ retry' = IF policy = "version" THEN clock + FailureTTL ELSE retry
         /\ cached' \in Values \cup {None}
         /\ expires' \in 0..MaxClock + TTL /\ expires' <= clock + TTL
         /\ retry' \in 0..MaxClock + FailureTTL /\ retry' <= clock + FailureTTL
         /\ policy = "version" => expires <= expires' /\ retry <= retry'
<1> USE NoneFacts DEF TypeOK, Clock, TimeInv
<1>1. UNCHANGED world
  BY DEF RequestStep, Look, BeginWrite, LookAgain, Receive, Store, Fail, Return, world
<1>2. CASE Store(r)
  <2>1. cached' = value[r] /\ expires' = Expiry(r) /\ retry' = retry
    BY <1>2 DEF Store
  <2>2. value[r] \in Values
    BY <1>2 DEF Store, SourceInv, Values
  <2>3. /\ Expiry(r) \in Nat /\ Expiry(r) <= clock + TTL
        /\ policy = "version" => Expiry(r) = clock + TTL
    BY DEF Expiry
  <2> QED
    BY <1>1, <1>2, <2>1, <2>2, <2>3
<1>3. CASE Fail(r)
  <2>1. /\ cached' = cached /\ expires' = expires
        /\ retry' = IF policy = "version" THEN clock + FailureTTL ELSE retry
    BY <1>3 DEF Fail
  <2> QED
    BY <1>1, <1>3, <2>1
<1>4. CASE Look(r) \/ BeginWrite(r) \/ LookAgain(r) \/ Receive(r) \/ Return(r)
  <2>1. cached' = cached /\ expires' = expires /\ retry' = retry
    BY <1>4 DEF Look, BeginWrite, LookAgain, Receive, Return, cache
  <2> QED
    BY <1>1, <2>1 DEF cache
<1> QED
  BY <1>2, <1>3, <1>4 DEF RequestStep

LEMMA TypesAndTimes ==
  ASSUME TypeOK, LineInv, TimeInv, SourceInv, NEW r \in Requests, RequestStep(r)
  PROVE  TypeOK' /\ LineInv' /\ TimeInv'
<1>1. /\ Alone(r)
      /\ Holds(r) \/ Outside(r)
      /\ Leaves(r) \/ Queues(r) \/ Stays(r)
  BY RequestMoves
<1>2. LineTypes' /\ LineInv'
  BY <1>1, LineKept DEF Outside
<1>3. /\ UNCHANGED world
      /\ cached' \in Values \cup {None}
      /\ expires' \in 0..MaxClock + TTL /\ expires' <= clock + TTL
      /\ retry' \in 0..MaxClock + FailureTTL /\ retry' <= clock + FailureTTL
  BY CacheMoves
<1>4. TypeOK'
  BY <1>1, <1>2, <1>3, OwnTypes DEF TypeOK, Alone, world
<1>5. ASSUME NEW q \in Requests PROVE now'[q] <= clock /\ since'[q] <= clock
  BY OwnTypes, NoneFacts DEF TypeOK, TimeInv, Clock
<1>6. ASSUME NEW q \in Requests, Working(q)' PROVE clock <= since'[q] + Timeout
  <2>1. CASE q # r
    BY <1>1, <1>6, <2>1, OwnTypes DEF Alone, Working, TimeInv
  <2>2. CASE q = r /\ Working(r)
    <3>1. Receive(r)
      BY <1>1, <1>6, <2>2
      DEF RequestStep, Look, BeginWrite, LookAgain, Store, Fail, Return, Working, Settled,
          Examine, Goto, TypeOK
    <3> QED
      BY <2>2, <3>1 DEF Receive, TimeInv
  <2>3. CASE q = r /\ ~Working(r)
    <3>1. BeginWrite(r) \/ LookAgain(r)
      BY <1>1, <1>6, <2>3
      DEF RequestStep, Look, Receive, Store, Fail, Return, Working, Settled,
          Examine, Goto, TypeOK
    <3>2. since' = [since EXCEPT ![r] = clock]
      BY <1>6, <2>3, <3>1
      DEF BeginWrite, LookAgain, Working, Examine, Goto, TypeOK
    <3> QED
      BY <2>3, <3>2, NoneFacts DEF TypeOK, Clock
  <2> QED
    BY <2>1, <2>2, <2>3
<1>7. TimeInv'
  BY <1>3, <1>5, <1>6 DEF TimeInv, world
<1> QED
  BY <1>2, <1>4, <1>7

-----------------------------------------------------------------------------
(* Values and items                                                        *)

\* A step of a request is no step of the world.
LEMMA SameWorld ==
  ASSUME UNCHANGED world
  PROVE  /\ policy' = policy /\ clock' = clock /\ source' = source /\ replaced' = replaced
         /\ \A v : LastHad(v)' = LastHad(v)
BY DEF world, LastHad

LEMMA LastHadType ==
  ASSUME TypeOK, SourceInv, NEW v \in 0..source
  PROVE  v \in Values /\ LastHad(v) \in 0..clock
BY NoneFacts DEF TypeOK, SourceInv, LastHad, Values, Clock

\* Which action brings a request where it is.
LEMMA WhoMoved ==
  ASSUME TypeOK, NEW r \in Requests, RequestStep(r)
  PROVE  /\ at'[r] = "received" => Receive(r)
         /\ at'[r] = "fetching" => BeginWrite(r) \/ LookAgain(r)
         /\ at'[r] = "waiting" => Look(r) \/ LookAgain(r) \/ Store(r)
         /\ at'[r] \in {"answered", "rejected"} => Look(r) \/ LookAgain(r) \/ Store(r)
BY DEF RequestStep, Look, BeginWrite, LookAgain, Receive, Store, Fail, Return, Settled,
       Examine, Goto, TypeOK

LEMMA SourceKept ==
  ASSUME TypeOK, LineInv, TimeInv, SourceInv, NEW r \in Requests, RequestStep(r)
  PROVE  SourceInv'
<1>1. /\ UNCHANGED world
      /\ \/ UNCHANGED cache
         \/ Store(r) /\ cached' = value[r] /\ expires' = Expiry(r)
         \/ cached' = cached /\ expires' = expires
      /\ expires' <= clock + TTL /\ expires' \in Nat
  BY CacheMoves, NoneFacts
<1>2. /\ policy' = policy /\ clock' = clock /\ source' = source /\ replaced' = replaced
      /\ \A v : LastHad(v)' = LastHad(v)
  BY <1>1, SameWorld
<1>3. /\ clock \in Nat /\ source \in Nat /\ since \in [Requests -> Nat]
      /\ Timeout \in Nat /\ TTL \in Nat
  BY NoneFacts DEF TypeOK, Clock, Values
<1>4. cached' # None =>
        /\ cached' \in 0..source
        /\ expires' <= LastHad(cached') + TTL + Timeout
  <2>1. CASE Store(r)
    <3>1. /\ cached' = value[r]
      BY <2>1 DEF Store
    <3>2. value[r] \in 0..source /\ since[r] <= LastHad(value[r]) /\ clock <= since[r] + Timeout
      BY <2>1 DEF Store, SourceInv, TimeInv, Working
    <3>3. LastHad(value[r]) \in Nat
      BY <3>2, <1>3, LastHadType
    <3> QED
      BY <1>1, <1>3, <3>1, <3>2, <3>3
  <2>2. CASE cached' = cached /\ expires' = expires
    BY <2>2 DEF SourceInv
  <2> QED
    BY <1>1, <2>1, <2>2 DEF cache
<1>5. ASSUME NEW q \in Requests, at'[q] = "received"
      PROVE  value'[q] \in 0..source /\ since'[q] <= LastHad(value'[q])
  <2>1. CASE q # r
    BY <1>5, <2>1, OwnTypes, RequestMoves DEF Alone, SourceInv
  <2>2. CASE q = r
    <3>1. Receive(r)
      BY <1>5, <2>2, WhoMoved
    <3> QED
      BY <1>3, <2>2, <3>1 DEF Receive, TypeOK, LastHad, TimeInv
  <2> QED
    BY <2>1, <2>2
<1>6. LastHad(cached)' = LastHad(cached') /\ \A q : LastHad(value[q])' = LastHad(value'[q])
  BY <1>2 DEF LastHad
<1> QED
  BY <1>2, <1>4, <1>5, <1>6 DEF SourceInv

LEMMA WantKept ==
  ASSUME TypeOK, LineInv, TimeInv, SourceInv, WantInv, NEW r \in Requests, RequestStep(r)
  PROVE  WantInv'
<1>1. policy' = policy /\ source' = source
  BY CacheMoves, SameWorld
<1> SUFFICES ASSUME policy = "items", NEW q \in Requests
             PROVE  /\ at'[q] \in Pending => wanted'[q] \in 0..source
                    /\ at'[q] = "received" => wanted'[q] <= value'[q]
  BY <1>1 DEF WantInv
<1>2. CASE q # r
  BY <1>2, OwnTypes, RequestMoves DEF Alone, WantInv
<1>3. CASE q = r /\ Look(r)
  <2>1. PICK item \in Items(source) : wanted' = [wanted EXCEPT ![r] = item]
    BY <1>3 DEF Look
  <2>2. wanted'[r] = item /\ item \in 0..source
    BY <2>1, NoneFacts DEF Items, TypeOK, Values
  <2>3. at'[r] # "received"
    BY <1>3, WhoMoved DEF Look, Receive
  <2> QED
    BY <1>3, <2>2, <2>3
<1>4. CASE q = r /\ ~Look(r) /\ at'[r] \in Pending
  <2>1. /\ at[r] \in Pending /\ wanted' = wanted
        /\ at'[r] = "received" => value'[r] = source
    BY <1>4, WhoMoved DEF Pending, BeginWrite, LookAgain, Receive, Store, TypeOK
  <2>2. wanted'[r] \in 0..source
    BY <2>1 DEF WantInv
  <2> QED
    BY <1>4, <2>1, <2>2, NoneFacts DEF TypeOK, Values
<1> QED
  BY <1>2, <1>3, <1>4 DEF Pending

-----------------------------------------------------------------------------
(* How long the line is                                                    *)

LEMMA SlackFacts ==
  /\ \A n \in Nat : Slack(n) \in Nat /\ Slack(n + 1) = Slack(n) + Timeout
  /\ \A n \in Nat : Slack(n + 1) >= Timeout
<1>1. Timeout \in Nat
  BY NoneFacts
<1>2. ASSUME NEW n \in Nat
      PROVE  Slack(n) \in Nat /\ Slack(n + 1) = Slack(n) + Timeout
  BY <1>1 DEF Slack
<1>3. ASSUME NEW n \in Nat PROVE Slack(n + 1) >= Timeout
  <2>1. Slack(n) \in Nat /\ Slack(n + 1) = Slack(n) + Timeout
    BY <1>2
  <2> QED
    BY <1>1, <2>1
<1> QED
  BY <1>2, <1>3

LEMMA WaitFacts ==
  ASSUME NEW r \in Requests
  PROVE  /\ Cardinality(Requests) \in Nat \ {0}
         /\ Slack(Cardinality(Requests) - 1) \in Nat
         /\ Slack(Cardinality(Requests) - 1) <= TTL
<1> DEFINE n == Cardinality(Requests)
<1>1. n \in Nat \ {0}
  BY FinitelyManyAssumption, FS_CardinalityType, FS_EmptySet
<1>2. Slack(n) <= TTL + Timeout
  BY WaitAssumption DEF Slack
<1>3. (n - 1) \in Nat /\ (n - 1) + 1 = n
  BY <1>1
<1> HIDE DEF n
<1>4. Slack(n - 1) \in Nat /\ Slack(n) = Slack(n - 1) + Timeout
  BY <1>3, SlackFacts
<1> QED
  BY <1>1, <1>2, <1>4, NoneFacts DEF n

\* A line has no more places than there are requests for it.
LEMMA LineIsBounded ==
  ASSUME NEW s, Queue(s), NEW S, S \subseteq Requests,
         \A i \in DOMAIN s : s[i] \in S
  PROVE  /\ Len(s) \in Nat /\ Cardinality(S) \in Nat
         /\ Len(s) <= Cardinality(S)
<1>1. IsFiniteSet(S)
  BY FinitelyManyAssumption, FS_Subset
<1>2. Len(s) \in Nat /\ DOMAIN s = 1..Len(s)
  BY DEF Queue
<1>3. IsFiniteSet(1..Len(s)) /\ Cardinality(1..Len(s)) = Len(s)
  <2>1. IsFiniteSet(1..Len(s))
        /\ Cardinality(1..Len(s)) = IF 1 > Len(s) THEN 0 ELSE Len(s) - 1 + 1
    BY <1>2, FS_Interval
  <2>2. \A k \in Nat : (IF 1 > k THEN 0 ELSE k - 1 + 1) = k
    OBVIOUS
  <2> QED
    BY <1>2, <2>1, <2>2
<1> DEFINE f == [i \in 1..Len(s) |-> s[i]]
<1>4. f \in Injection(1..Len(s), S)
  BY <1>2 DEF Queue, Injection, IsInjective
<1>5. Cardinality(1..Len(s)) <= Cardinality(S)
  BY <1>1, <1>4, FS_Injection
<1> QED
  BY <1>1, <1>2, <1>3, <1>5, FS_CardinalityType

LEMMA PlacesInLine ==
  ASSUME NEW s, Queue(s)
  PROVE  /\ Len(s) \in Nat /\ Cardinality(Requests) \in Nat
         /\ Len(s) <= Cardinality(Requests)
         /\ \A r \in Requests : (\A i \in DOMAIN s : s[i] # r)
                => Len(s) <= Cardinality(Requests) - 1
<1>1. \A i \in DOMAIN s : s[i] \in Requests
  BY DEF Queue
<1>2. /\ Len(s) \in Nat /\ Cardinality(Requests) \in Nat
      /\ Len(s) <= Cardinality(Requests)
  BY <1>1, LineIsBounded
<1>3. ASSUME NEW r \in Requests, \A i \in DOMAIN s : s[i] # r
      PROVE  Len(s) <= Cardinality(Requests) - 1
  <2>1. Len(s) <= Cardinality(Requests \ {r})
    BY <1>1, <1>3, LineIsBounded
  <2>2. Cardinality(Requests \ {r}) = Cardinality(Requests) - 1
    BY FinitelyManyAssumption, FS_RemoveElement
  <2> QED
    BY <2>1, <2>2
<1> QED
  BY <1>2, <1>3

-----------------------------------------------------------------------------
(* Answers                                                                 *)

LEMMA AnswerKept ==
  ASSUME TypeOK, LineInv, TimeInv, SourceInv, QueueInv, AnswerInv,
         NEW r \in Requests, RequestStep(r)
  PROVE  AnswerInv'
<1>1. /\ policy' = policy /\ clock' = clock /\ source' = source
      /\ \A v : LastHad(v)' = LastHad(v)
  BY CacheMoves, SameWorld
<1>2. \A q : LastHad(value[q])' = LastHad(value'[q])
  BY <1>1 DEF LastHad
<1>3. /\ clock \in Nat /\ source \in Nat /\ expires \in Nat
      /\ Timeout \in Nat \ {0} /\ TTL \in Nat \ {0}
  BY NoneFacts DEF TypeOK, Clock, Values
<1> SUFFICES ASSUME NEW q \in Requests, at'[q] = "answered"
             PROVE  value'[q] \in 0..source /\ clock < LastHad(value'[q]) + TTL + Timeout
  BY <1>1, <1>2 DEF AnswerInv
<1>4. CASE q # r
  BY <1>4, OwnTypes, RequestMoves DEF Alone, AnswerInv
<1>5. CASE q = r /\ Look(r)
  <2>1. Fresh(clock) /\ value'[r] = cached
    BY <1>5 DEF Look, Examine, Goto, TypeOK
  <2>2. cached \in 0..source /\ clock < LastHad(cached) + TTL + Timeout
    BY <1>3, <2>1, LastHadType DEF Fresh, SourceInv
  <2> QED
    BY <1>5, <2>1, <2>2
<1>6. CASE q = r /\ LookAgain(r)
  <2> DEFINE n == Cardinality(Requests)
  <2>1. Served(r) /\ value'[r] = cached
    BY <1>6 DEF LookAgain, Examine, Goto, TypeOK
  <2>2. at[r] = "waiting" /\ line # <<>> /\ r = line[1] /\ 1 \in DOMAIN line
    BY <1>6 DEF LookAgain, TypeOK, LineTypes
  <2>3. cached \in 0..source
    BY <2>1 DEF Served, Fresh, SourceInv
  <2>4. clock <= LastHad(cached) + Slack(n - 1)
    BY <2>1, <2>2 DEF QueueInv, TurnBegan, Served
  <2>5. LastHad(cached) \in Nat
    BY <1>3, <2>3, LastHadType
  <2>6. Slack(n - 1) \in Nat /\ Slack(n - 1) <= TTL
    BY WaitFacts
  <2> HIDE DEF n
  <2> QED
    BY <1>3, <1>6, <2>1, <2>3, <2>4, <2>5, <2>6
<1>7. CASE q = r /\ Store(r)
  <2>1. value'[r] = value[r]
    BY <1>7 DEF Store, Examine, TypeOK
  <2>2. value[r] \in 0..source /\ since[r] <= LastHad(value[r]) /\ clock <= since[r] + Timeout
    BY <1>7 DEF Store, SourceInv, TimeInv, Working
  <2>3. since[r] \in Nat /\ LastHad(value[r]) \in Nat
    BY <1>3, <2>2, LastHadType, NoneFacts DEF TypeOK, Clock
  <2> QED
    BY <1>3, <1>7, <2>1, <2>2, <2>3
<1> QED
  BY <1>4, <1>5, <1>6, <1>7, WhoMoved

-----------------------------------------------------------------------------
(* Readers of the version                                                  *)

\* A reader that came at time t will find the value or the outage.
FreedNext(t) ==
    \/ cached' # None /\ t < expires'
    \/ policy' = "version" /\ t < retry'

\* What was fresh or silenced stays so while the version is read and written.
LEMMA ReleasesLast ==
  ASSUME TypeOK, LineInv, TimeInv, SourceInv, NEW r \in Requests, RequestStep(r),
         policy = "version"
  PROVE  \A t \in Clock : Fresh(t) \/ Silenced(t) => FreedNext(t)
<1>1. /\ policy' = policy
      /\ expires <= expires' /\ retry <= retry'
      /\ cached' = cached \/ (Store(r) /\ cached' = value[r])
  BY CacheMoves DEF world, cache
<1>2. cached # None => cached' # None
  BY <1>1, NoneFacts DEF Store, SourceInv, TypeOK, Values
<1>3. /\ expires \in Nat /\ expires' \in Nat /\ retry \in Nat /\ retry' \in Nat
      /\ Clock \subseteq Nat
  BY CacheMoves, NoneFacts DEF TypeOK, Clock
<1> QED
  BY <1>1, <1>2, <1>3 DEF Fresh, Silenced, FreedNext

\* The end of a fetch releases whoever came before it.
LEMMA EndReleases ==
  ASSUME TypeOK, LineInv, TimeInv, SourceInv, NEW r \in Requests, Store(r) \/ Fail(r),
         policy = "version"
  PROVE  \A t \in Clock : t <= clock => FreedNext(t)
<1>1. clock \in Nat /\ Clock \subseteq Nat /\ TTL \in Nat \ {0} /\ FailureTTL \in Nat \ {0}
  BY NoneFacts DEF TypeOK, Clock
<1>2. CASE Store(r)
  <2>1. cached' = value[r] /\ expires' = clock + TTL /\ value[r] # None
    BY <1>2, NoneFacts DEF Store, Expiry, SourceInv, TypeOK, Values
  <2> QED
    BY <1>1, <2>1 DEF FreedNext
<1>3. CASE Fail(r)
  <2>1. retry' = clock + FailureTTL /\ policy' = policy
    BY <1>3 DEF Fail, world
  <2> QED
    BY <1>1, <2>1 DEF FreedNext
<1> QED
  BY <1>2, <1>3

InOrder == \A i, j \in DOMAIN line : i < j => now[line[i]] <= now[line[j]]

Released(q) == Fresh(now[q]) \/ Silenced(now[q])

\* The waiting are served in the order of their times.
LEMMA ReadInvParts ==
  ASSUME policy = "version", Queue(line)
  PROVE  ReadInv <=>
            /\ InOrder
            /\ \A i \in DOMAIN line :
                IF at[line[1]] = "waiting"
                THEN clock <= now[line[i]] + Timeout
                     /\ (now[line[i]] = clock \/ Released(line[i]))
                ELSE since[line[1]] <= now[line[i]]
BY DEF ReadInv, InOrder, Released

LEMMA ReadKept ==
  ASSUME TypeOK, LineInv, TimeInv, SourceInv, ReadInv, NEW r \in Requests, RequestStep(r)
  PROVE  ReadInv'
<1>1. /\ policy' = policy /\ clock' = clock
  BY CacheMoves, SameWorld
<1> SUFFICES ASSUME policy = "version"
             PROVE  ReadInv'
  BY <1>1 DEF ReadInv
<1>2. Queue(line)
  BY InLine
<1>3. InOrder /\ \A i \in DOMAIN line :
                IF at[line[1]] = "waiting"
                THEN clock <= now[line[i]] + Timeout
                     /\ (now[line[i]] = clock \/ Released(line[i]))
                ELSE since[line[1]] <= now[line[i]]
  BY <1>2, ReadInvParts
<1>4. /\ Alone(r)
      /\ Holds(r) \/ Outside(r)
      /\ Leaves(r) \/ Queues(r) \/ Stays(r)
  BY RequestMoves
<1>5. /\ clock \in Clock /\ clock \in Nat /\ Clock \subseteq Nat
      /\ now \in [Requests -> Clock] /\ since \in [Requests -> Clock]
      /\ Timeout \in Nat
  BY NoneFacts DEF TypeOK, Clock
<1>6. \A q \in Requests \ {r} : now'[q] = now[q] /\ since'[q] = since[q] /\ at'[q] = at[q]
  BY <1>4, OwnTypes DEF Alone
<1>7. \A i \in DOMAIN line : line[i] \in Requests
  BY <1>2 DEF Queue
<1>8. ASSUME NEW q \in Requests, now'[q] = now[q], Released(q) PROVE FreedNext(now'[q])
  <2>1. now[q] \in Clock
    BY <1>5
  <2>2. \A t \in Clock : Fresh(t) \/ Silenced(t) => FreedNext(t)
    BY ReleasesLast
  <2> QED
    BY <1>8, <2>1, <2>2 DEF Released
<1>9. Queue(line')
  <2>1. LineTypes'
    BY TypesAndTimes DEF TypeOK
  <2> QED
    BY <2>1 DEF LineTypes, Queue
<1> SUFFICES /\ InOrder'
             /\ \A i \in DOMAIN line' :
                IF at'[line'[1]] = "waiting"
                THEN clock <= now'[line'[i]] + Timeout
                     /\ (now'[line'[i]] = clock \/ FreedNext(now'[line'[i]]))
                ELSE since'[line'[1]] <= now'[line'[i]]
  BY <1>1, <1>9 DEF ReadInv, InOrder, FreedNext, Fresh, Silenced
<1> HIDE DEF ReadInv
<1>a. CASE Outside(r) /\ line' = line
  \* Nobody in the line is touched.
  <2>1. \A i \in DOMAIN line : /\ line[i] \in Requests \ {r}
                               /\ 1 \in DOMAIN line
    BY <1>2, <1>a DEF Outside, Queue
  <2>2. InOrder'
    BY <1>3, <1>6, <1>a, <2>1 DEF InOrder
  <2>3. ASSUME NEW i \in DOMAIN line
        PROVE  IF at'[line[1]] = "waiting"
               THEN clock <= now'[line[i]] + Timeout
                    /\ (now'[line[i]] = clock \/ FreedNext(now'[line[i]]))
               ELSE since'[line[1]] <= now'[line[i]]
    <3>1. /\ now'[line[i]] = now[line[i]] /\ at'[line[1]] = at[line[1]]
          /\ since'[line[1]] = since[line[1]]
      BY <1>6, <2>1
    <3> QED
      BY <1>3, <1>8, <2>1, <3>1
  <2> QED
    BY <1>a, <2>2, <2>3
<1>b. CASE Outside(r) /\ line' # line
  \* A reader joins.
  <2>1. at[r] = "idle" /\ line' = Append(line, r) /\ now' = [now EXCEPT ![r] = clock]
        /\ at'[r] = "waiting"
    <3>1. Without(r) = line
      BY <1>2, <1>b DEF Without, Outside, Queue
    <3>2. Queues(r)
      BY <1>4, <1>b, <3>1 DEF Leaves, Stays
    <3>3. Look(r)
      BY <1>b, <1>2, <3>2, WhoMoved, InLine
      DEF Queues, LookAgain, Store, TypeOK, LineTypes, Outside, Queue, Examine, Found, Goto
    <3>4. line' = Append(line, r) /\ at'[r] = "waiting"
      BY <3>1, <3>2 DEF Queues
    <3> QED
      BY <3>3, <3>4 DEF Look, Examine, Found, Goto, TypeOK
  <2> DEFINE L == Append(line, r)
  <2>2. /\ DOMAIN L = 1..(Len(line) + 1) /\ Len(line) + 1 \in Nat
        /\ DOMAIN line = 1..Len(line) /\ Len(line) \in Nat
        /\ \A i \in DOMAIN line : i \in DOMAIN L /\ L[i] = line[i] /\ line[i] \in Requests \ {r}
        /\ L[Len(line) + 1] = r
    BY <1>2, <1>b, AppendFacts DEF Outside, Queue
  <2>3. line' = L
    BY <2>1
  <2> HIDE DEF L
  <2>4. now'[r] = clock /\ \A q \in Requests : now[q] <= clock
    BY <2>1, <1>5 DEF TimeInv
  <2>5. ASSUME NEW i \in DOMAIN L, NEW j \in DOMAIN L, i < j
        PROVE  now'[L[i]] <= now'[L[j]]
    <3>1. i \in DOMAIN line
      BY <2>2, <2>5
    <3>2. CASE j \in DOMAIN line
      BY <1>3, <1>6, <2>2, <2>5, <3>1, <3>2 DEF InOrder
    <3>3. CASE j = Len(line) + 1
      BY <1>6, <2>2, <2>4, <3>1, <3>3
    <3> QED
      BY <2>2, <3>2, <3>3
  <2>6. ASSUME NEW i \in DOMAIN L
        PROVE  IF at'[L[1]] = "waiting"
               THEN clock <= now'[L[i]] + Timeout
                    /\ (now'[L[i]] = clock \/ FreedNext(now'[L[i]]))
               ELSE since'[L[1]] <= now'[L[i]]
    <3>1. CASE i \in DOMAIN line
      <4>1. /\ 1 \in DOMAIN line /\ L[1] = line[1] /\ L[i] = line[i]
            /\ line[1] \in Requests \ {r} /\ line[i] \in Requests \ {r}
        BY <2>2, <3>1
      <4>2. /\ now'[line[i]] = now[line[i]] /\ at'[line[1]] = at[line[1]]
            /\ since'[line[1]] = since[line[1]]
        BY <1>6, <4>1
      <4> QED
        BY <1>3, <1>8, <3>1, <4>1, <4>2
    <3>2. CASE i = Len(line) + 1
      <4>1. L[i] = r /\ now'[L[i]] = clock
        BY <2>2, <2>4, <3>2
      <4>2. L[1] = r \/ (L[1] \in Requests \ {r})
        BY <2>2
      <4>3. L[1] \in Requests \ {r} => since'[L[1]] <= clock
        BY <1>6 DEF TimeInv
      <4> QED
        BY <1>5, <2>1, <4>1, <4>2, <4>3
    <3> QED
      BY <2>2, <3>1, <3>2
  <2> QED
    BY <2>3, <2>5, <2>6 DEF InOrder
<1>c. CASE Holds(r) /\ line' = line
  \* The head fetches, or has an answer.
  <2>1. r = line[1] /\ 1 \in DOMAIN line /\ Stays(r)
    <3>1. r = line[1] /\ line # <<>> /\ 1 \in DOMAIN line
      BY <1>2, <1>c DEF Holds, Queue
    <3>2. Without(r) # line
      BY <1>2, <3>1, <1>c, WithoutFacts DEF Queue
    <3>3. \A i \in DOMAIN Without(r) : Without(r)[i] # r
      BY <1>2, <1>c, WithoutFacts
    <3>4. ~Leaves(r)
      BY <1>c, <3>2 DEF Leaves
    <3>5. at'[r] # "waiting" \/ ~Queues(r)
      <4>1. ASSUME at'[r] = "waiting", Queues(r) PROVE FALSE
        BY <1>c, <4>1, WhoMoved, <3>1, InLine
        DEF LookAgain, Store, Look, Queues, Examine, Found, Goto, TypeOK, Settled
      <4> QED
        BY <4>1
    <3> QED
      BY <1>4, <3>1, <3>4, <3>5 DEF Queues
  <2>2. \/ Receive(r)
        \/ LookAgain(r) /\ at[r] = "waiting" /\ at'[r] = "fetching" /\ ~Served(r) /\ ~Warned(r)
           /\ since' = [since EXCEPT ![r] = clock] /\ now' = now
    <3>1. at'[r] \in {"fetching", "received"}
      BY <1>c, <2>1 DEF Stays, Pending
    <3>2. at[r] \in Pending
      BY <2>1 DEF LineInv
    <3> QED
      BY <3>1, <3>2, WhoMoved
      DEF BeginWrite, LookAgain, Examine, Goto, Pending, Settled, TypeOK
  <2>3. CASE Receive(r)
    <3>1. now' = now /\ since' = since /\ at[r] # "waiting" /\ at'[r] # "waiting"
      BY <2>3 DEF Receive, Goto, TypeOK
    <3> QED
      BY <1>3, <1>c, <2>1, <3>1 DEF InOrder
  <2>4. CASE LookAgain(r) /\ at[r] = "waiting" /\ at'[r] = "fetching" /\ ~Served(r) /\ ~Warned(r)
             /\ since' = [since EXCEPT ![r] = clock] /\ now' = now
    <3>1. now[r] = clock
      <4>1. ~forced[r]
        BY <2>1 DEF LineInv
      <4> QED
        BY <1>3, <2>1, <2>4, <4>1 DEF Served, Warned, Released
    <3>2. \A i \in DOMAIN line : i = 1 \/ 1 < i
      BY <1>2 DEF Queue
    <3>3. ASSUME NEW i \in DOMAIN line PROVE clock <= now[line[i]]
      BY <1>3, <1>5, <2>1, <3>1, <3>2 DEF InOrder
    <3>4. since'[line[1]] = clock /\ at'[line[1]] # "waiting"
      BY <1>5, <2>1, <2>4
    <3> QED
      BY <1>3, <1>c, <2>4, <3>3, <3>4 DEF InOrder
  <2> QED
    BY <2>2, <2>3, <2>4
<1>d. CASE Holds(r) /\ line' # line
  \* The head leaves, and releases the others if it fetched.
  <2> DEFINE W == Without(r)
  <2>1. line' = W /\ now' = now /\ since' = since
        /\ ((LookAgain(r) /\ at[r] = "waiting") \/ Store(r) \/ Fail(r))
    <3>1. at[r] \in Pending
      BY <1>2, <1>d DEF Holds, LineInv, Queue
    <3>2. ~Stays(r)
      BY <1>d DEF Stays
    <3>3. LookAgain(r) \/ Store(r) \/ Fail(r)
      BY <1>d, <3>1 DEF RequestStep, Look, BeginWrite, Receive, Return, Pending, Settled
    <3>4. ~Queues(r)
      BY <3>3, WhoMoved
      DEF Queues, LookAgain, Store, Fail, Examine, Found, Goto, TypeOK, Settled
    <3>5. line' = W
      BY <1>4, <3>2, <3>4 DEF Leaves
    <3> HIDE DEF W
    <3>6. now' = now /\ since' = since
      BY <3>3, <1>d, <3>5 DEF LookAgain, Store, Fail, Examine, Found
    <3> QED
      BY <3>3, <3>5, <3>6 DEF LookAgain
  <2>2. /\ \A i \in DOMAIN W : /\ i \in Nat /\ i + 1 \in DOMAIN line /\ W[i] = line[i + 1]
                               /\ W[i] \in Requests \ {r} /\ 1 \in DOMAIN W
                               /\ 1 \in DOMAIN line
    <3>1. /\ Queue(W) /\ \A i \in DOMAIN W : W[i] # r
          /\ \A i \in DOMAIN W : i + 1 \in DOMAIN line /\ W[i] = line[i + 1]
      BY <1>2, <1>d, WithoutFacts
    <3> HIDE DEF W
    <3> QED
      BY <1>2, <3>1 DEF Queue
  <2> HIDE DEF W
  <2>3. InOrder'
    BY <1>3, <2>1, <2>2 DEF InOrder
  <2>4. ASSUME NEW i \in DOMAIN W
        PROVE  /\ at'[W[1]] = "waiting"
               /\ clock <= now'[W[i]] + Timeout
               /\ now'[W[i]] = clock \/ FreedNext(now'[W[i]])
    <3> DEFINE j == i + 1
    <3>1. j \in DOMAIN line /\ W[i] = line[j] /\ line[j] \in Requests \ {r} /\ r = line[1]
      BY <1>2, <1>d, <2>2 DEF Holds, Queue
    <3>2. at'[W[1]] = "waiting"
      BY <1>6, <2>2 DEF LineInv
    <3>3. CASE LookAgain(r) /\ at[r] = "waiting"
      BY <1>3, <1>8, <2>1, <3>1, <3>2, <3>3
    <3>4. CASE Store(r) \/ Fail(r)
      <4>1. at[r] # "waiting" /\ Working(r)
        BY <3>4 DEF Store, Fail, Working
      <4>2. since[r] <= now[line[j]] /\ clock <= since[r] + Timeout
        BY <1>3, <3>1, <4>1 DEF TimeInv
      <4>3. now[line[j]] \in Clock /\ since[r] \in Clock /\ now[line[j]] <= clock
        BY <1>5, <3>1 DEF TimeInv
      <4>4. \A t \in Clock : t <= clock => FreedNext(t)
        BY <3>4, EndReleases
      <4>5. FreedNext(now[line[j]])
        BY <4>3, <4>4
      <4>6. now'[W[i]] = now[line[j]]
        BY <2>1, <3>1
      <4>7. clock <= now[line[j]] + Timeout
        <5>1. now[line[j]] \in Nat /\ since[r] \in Nat /\ clock \in Nat /\ Timeout \in Nat
          BY <1>5, <4>3
        <5> QED
          BY <4>2, <5>1
      <4> QED
        BY <3>2, <4>5, <4>6, <4>7
    <3> QED
      BY <2>1, <3>3, <3>4
  <2> QED
    BY <2>1, <2>3, <2>4
<1> QED
  BY <1>4, <1>a, <1>b, <1>c, <1>d

-----------------------------------------------------------------------------
(* Readers who are served from the cache                                   *)

\* A value that is just stored is young enough for everybody behind.
LEMMA StoreServes ==
  ASSUME TypeOK, LineInv, TimeInv, SourceInv, NEW r \in Requests, Store(r),
         TypeOK', LineInv', TimeInv'
  PROVE  QueueInv'
<1> DEFINE n == Cardinality(Requests)
<1>1. RequestStep(r)
  BY DEF RequestStep
<1>2. /\ clock' = clock /\ cached' = value[r]
      /\ \A v : LastHad(v)' = LastHad(v)
  BY <1>1, CacheMoves, SameWorld DEF Store
<1>3. value[r] \in 0..source /\ since[r] <= LastHad(value[r]) /\ clock <= since[r] + Timeout
  BY DEF Store, SourceInv, TimeInv, Working
<1>4. /\ clock \in Nat /\ since[r] \in Nat /\ LastHad(value[r]) \in Nat
      /\ since' \in [Requests -> Nat] /\ Timeout \in Nat
  BY <1>3, LastHadType, NoneFacts DEF TypeOK, Clock
<1>5. LastHad(cached)' = LastHad(value[r])
  BY <1>2 DEF LastHad
<1>6. Queue(line')
  BY DEF TypeOK, LineTypes, Queue
<1>7. Leaves(r) \/ (Queues(r) /\ forced'[r])
  <2>1. value[r] \in Values
    BY <1>3, LastHadType
  <2>2. Examine(r, wanted[r], value[r]) /\ policy' = policy
    BY DEF Store, world
  <2> QED
    BY <2>1, <2>2, ExamineMoves
<1>8. Queue(Without(r)) /\ \A i \in DOMAIN Without(r) : Without(r)[i] # r
  BY <1>1, RequestMoves, InLine, WithoutFacts DEF Outside
<1> SUFFICES ASSUME NEW i \in DOMAIN line', ~forced'[line'[i]]
             PROVE  TurnBegan' <= LastHad(cached)' + Slack(n - i)
  BY DEF QueueInv
<1>9. i \in Nat \ {0} /\ i <= n - 1 /\ n \in Nat
  <2>1. CASE Leaves(r)
    <3>1. Len(Without(r)) <= n - 1 /\ i \in 1..Len(Without(r)) /\ n \in Nat
      BY <1>8, <2>1, PlacesInLine DEF Leaves, Queue
    <3> HIDE DEF n
    <3> QED
      BY <1>8, <3>1 DEF Queue
  <2>2. CASE Queues(r) /\ forced'[r]
    <3>1. /\ Queue(Append(Without(r), r))
          /\ DOMAIN Append(Without(r), r) = 1..(Len(Without(r)) + 1)
          /\ Append(Without(r), r)[Len(Without(r)) + 1] = r
          /\ Len(Without(r)) + 1 \in Nat
      BY <1>8, AppendFacts
    <3>2. i \in 1..(Len(Without(r)) + 1) /\ i # Len(Without(r)) + 1
      BY <2>2, <3>1 DEF Queues
    <3>3. Len(Without(r)) <= n - 1 /\ n \in Nat /\ Len(Without(r)) \in Nat
      BY <1>8, PlacesInLine
    <3> HIDE DEF n
    <3> QED
      BY <3>2, <3>3
  <2> QED
    BY <1>7, <2>1, <2>2
<1>10. TurnBegan' <= clock
  <2>1. 1 \in DOMAIN line' /\ line'[1] \in Requests
    BY <1>6 DEF Queue
  <2>2. since'[line'[1]] <= clock
    BY <1>2, <2>1 DEF TimeInv
  <2> QED
    BY <1>2, <1>4, <2>2 DEF TurnBegan
<1> HIDE DEF n
<1>11. Slack(n - i) >= Timeout /\ Slack(n - i) \in Nat
  <2>1. (n - i - 1) \in Nat /\ (n - i - 1) + 1 = n - i /\ (n - i) \in Nat
    BY <1>9
  <2>2. Slack((n - i - 1) + 1) >= Timeout /\ Slack(n - i) \in Nat
    BY <2>1, SlackFacts
  <2> QED
    BY <2>1, <2>2
<1>12. TurnBegan' \in Nat
  BY <1>2, <1>4, <1>6 DEF TurnBegan, Queue
<1> QED
  BY <1>3, <1>4, <1>5, <1>10, <1>11, <1>12

\* Where a request stood that is in the line after another's step.
LEMMA PlaceBefore ==
  ASSUME TypeOK, LineInv, NEW r \in Requests, Alone(r), Holds(r) \/ Outside(r),
         Leaves(r) \/ Queues(r) \/ Stays(r), NEW i \in DOMAIN line'
  PROVE  \/ line'[i] = r
         \/ /\ line'[i] \in Requests \ {r}
            /\ \/ /\ ~(Holds(r) /\ line' # line) /\ i \in DOMAIN line /\ line'[i] = line[i]
                  /\ line' # <<>> /\ line # <<>> /\ line'[1] = line[1]
               \/ /\ Holds(r) /\ i + 1 \in DOMAIN line /\ line'[i] = line[i + 1]
<1>1. Queue(line)
  BY InLine
<1>2. /\ Queue(Without(r)) /\ \A j \in DOMAIN Without(r) : Without(r)[j] # r
      /\ Holds(r) => \A j \in DOMAIN Without(r) :
                    j + 1 \in DOMAIN line /\ Without(r)[j] = line[j + 1]
      /\ ~Holds(r) => Without(r) = line
  BY <1>1, WithoutFacts DEF Outside
<1>3. CASE Leaves(r)
  BY <1>1, <1>2, <1>3 DEF Leaves, Queue
<1>4. CASE Queues(r)
  <2> DEFINE W == Without(r)
             L == Append(W, r)
  <2>1. /\ DOMAIN L = 1..(Len(W) + 1) /\ DOMAIN W = 1..Len(W) /\ Len(W) + 1 \in Nat
        /\ \A j \in DOMAIN W : j \in DOMAIN L /\ L[j] = W[j] /\ W[j] \in Requests
        /\ L[Len(W) + 1] = r /\ line' = L /\ L # <<>>
    BY <1>2, <1>4, AppendFacts DEF Queues, Queue
  <2> HIDE DEF W, L
  <2>2. CASE i = Len(W) + 1
    BY <2>1, <2>2
  <2>3. CASE i \in DOMAIN W
    <3>1. line'[i] = W[i] /\ W[i] # r /\ W[i] \in Requests /\ 1 \in DOMAIN W /\ L[1] = W[1]
      BY <1>2, <2>1, <2>3 DEF W
    <3> QED
      BY <1>1, <1>2, <2>1, <2>3, <3>1 DEF W, Queue
  <2> QED
    BY <2>1, <2>2, <2>3
<1>5. CASE Stays(r)
  BY <1>1, <1>5 DEF Stays, Queue
<1> QED
  BY <1>3, <1>4, <1>5

LEMMA QueueKept ==
  ASSUME TypeOK, LineInv, TimeInv, SourceInv, QueueInv, NEW r \in Requests, RequestStep(r)
  PROVE  QueueInv'
<1> DEFINE n == Cardinality(Requests)
<1>1. TypeOK' /\ LineInv' /\ TimeInv'
  BY TypesAndTimes
<1>2. CASE Store(r)
  BY <1>1, <1>2, StoreServes
<1> SUFFICES ASSUME ~Store(r) PROVE QueueInv'
  BY <1>2
<1>3. /\ policy' = policy /\ clock' = clock
      /\ cached' = cached /\ expires' = expires
      /\ \A v : LastHad(v)' = LastHad(v)
  BY CacheMoves, SameWorld DEF cache
<1>4. LastHad(cached)' = LastHad(cached)
  BY <1>3 DEF LastHad
<1>5. /\ Alone(r) /\ (Holds(r) \/ Outside(r))
      /\ Leaves(r) \/ Queues(r) \/ Stays(r)
  BY RequestMoves
<1>6. \A q \in Requests \ {r} : now'[q] = now[q] /\ since'[q] = since[q]
                                /\ at'[q] = at[q] /\ forced'[q] = forced[q]
  BY <1>5, OwnTypes DEF Alone
<1>7. /\ clock \in Nat /\ since \in [Requests -> Nat] /\ Timeout \in Nat
      /\ n \in Nat
  BY FinitelyManyAssumption, FS_CardinalityType, NoneFacts DEF TypeOK, Clock
<1>8. Queue(line) /\ Queue(line')
  BY <1>1, InLine DEF TypeOK, LineTypes, Queue
<1> SUFFICES ASSUME NEW i \in DOMAIN line', ~forced'[line'[i]],
                    cached # None, now'[line'[i]] < expires
             PROVE  TurnBegan' <= LastHad(cached) + Slack(n - i)
  BY <1>3, <1>4 DEF QueueInv, Fresh
<1>9. LastHad(cached) \in Nat
  BY <1>7, LastHadType DEF SourceInv
<1>10. CASE line'[i] = r
  \* Only the head may fetch and stay; who joins has found nothing fresh.
  <2>1. Stays(r) /\ Holds(r)
    <3>1. ~Leaves(r)
      BY <1>5, <1>8, <1>10, InLine, WithoutFacts DEF Leaves, Outside
    <3>2. ~Queues(r)
      <4>1. ASSUME Queues(r) PROVE FALSE
        <5>1. Look(r) \/ LookAgain(r)
          BY <4>1, WhoMoved DEF Queues
        <5>2. CASE Look(r)
          BY <1>10, <4>1, <5>2, NoneFacts
          DEF Look, Examine, Goto, Fresh, Queues, TypeOK
        <5>3. CASE LookAgain(r)
          BY <1>10, <4>1, <5>3
          DEF LookAgain, Examine, Goto, Queues, TypeOK
        <5> QED
          BY <5>1, <5>2, <5>3
      <4> QED
        BY <4>1
    <3>3. ~Outside(r)
      BY <1>5, <1>10, <3>1, <3>2 DEF Stays, Outside
    <3> QED
      BY <1>5, <3>1, <3>2, <3>3
  <2>2. line' = line /\ line[1] = r /\ i = 1 /\ forced'[r] = forced[r]
    BY <1>8, <1>10, <2>1 DEF Stays, Holds, Queue
  <2>3. \/ Receive(r)
        \/ LookAgain(r) /\ at[r] = "waiting" /\ at'[r] = "fetching"
           /\ since' = [since EXCEPT ![r] = clock] /\ now' = now
    <3>1. at'[r] \in {"fetching", "received"}
      BY <2>1 DEF Stays, Pending
    <3>2. at[r] \in Pending
      BY <1>8, <2>2 DEF LineInv, Queue
    <3> QED
      BY <3>1, <3>2, WhoMoved
      DEF BeginWrite, LookAgain, Examine, Goto, Pending, Settled, TypeOK
  <2>4. now'[r] = now[r]
    BY <2>3 DEF Receive
  <2>5. TurnBegan <= LastHad(cached) + Slack(n - i)
    BY <1>10, <2>2, <2>4 DEF QueueInv, Fresh
  <2>6. TurnBegan' = TurnBegan
    BY <1>3, <1>7, <2>2, <2>3 DEF TurnBegan, Receive, Goto, TypeOK
  <2> QED
    BY <2>5, <2>6
<1>11. CASE /\ line'[i] \in Requests \ {r} /\ ~(Holds(r) /\ line' # line)
            /\ i \in DOMAIN line /\ line'[i] = line[i]
            /\ line' # <<>> /\ line # <<>> /\ line'[1] = line[1]
  <2>1. TurnBegan <= LastHad(cached) + Slack(n - i)
    BY <1>6, <1>11 DEF QueueInv, Fresh
  <2>2. TurnBegan' = TurnBegan
    <3>1. CASE line[1] # r
      <4>1. line[1] \in Requests \ {r}
        BY <1>8, <1>11, <3>1 DEF Queue
      <4> QED
        BY <1>3, <1>6, <1>11, <4>1 DEF TurnBegan
    <3>2. CASE line[1] = r
      <4>1. Holds(r) /\ line' = line
        BY <1>11, <3>2 DEF Holds
      <4>2. Stays(r)
        <5>1. \A j \in DOMAIN Without(r) : Without(r)[j] # r
          BY <1>8, <4>1, WithoutFacts
        <5>2. ~Leaves(r)
          BY <1>8, <1>11, <3>2, <4>1, <5>1 DEF Leaves, Queue
        <5>3. ~Queues(r)
          <6>1. ASSUME Queues(r) PROVE FALSE
            <7>1. LookAgain(r)
              BY <1>8, <1>11, <3>2, <6>1, WhoMoved, InLine DEF Queues, Look, Queue
            <7>2. forced[r] = FALSE /\ forced'[r] = TRUE
              BY <6>1, <7>1 DEF LookAgain, Queues, Examine, Goto, TypeOK, Served
            <7>3. 1 \in DOMAIN Without(r) /\ Without(r)[1] = line[2] /\ line'[1] = Without(r)[1]
              BY <1>8, <1>11, <4>1, <6>1, <5>1, WithoutFacts, AppendFacts
              DEF Queues, Queue
            <7> QED
              BY <5>1, <7>3, <3>2, <4>1
          <6> QED
            BY <6>1
        <5> QED
          BY <1>5, <5>2, <5>3
      <4>3. \/ Receive(r)
            \/ LookAgain(r) /\ at[r] = "waiting" /\ at'[r] = "fetching"
               /\ since' = [since EXCEPT ![r] = clock]
        <5>1. at'[r] \in {"fetching", "received"}
          BY <4>1, <4>2 DEF Stays, Pending
        <5>2. at[r] \in Pending
          BY <1>8, <1>11, <3>2 DEF LineInv, Queue
        <5> QED
          BY <5>1, <5>2, WhoMoved
          DEF BeginWrite, LookAgain, Examine, Goto, Pending, Settled, TypeOK
      <4> QED
        BY <1>3, <1>7, <3>2, <4>1, <4>3 DEF TurnBegan, Receive, Goto, TypeOK
    <3> QED
      BY <3>1, <3>2
  <2> QED
    BY <2>1, <2>2
<1>12. CASE line'[i] \in Requests \ {r} /\ Holds(r) /\ i + 1 \in DOMAIN line
            /\ line'[i] = line[i + 1]
  <2>1. TurnBegan <= LastHad(cached) + Slack(n - (i + 1))
    BY <1>6, <1>12 DEF QueueInv, Fresh
  <2>2. /\ i + 1 \in Nat \ {0} /\ i + 1 <= n /\ i \in Nat
        /\ line[1] \in Requests /\ line'[1] \in Requests
    <3>1. Len(line) <= n /\ Len(line) \in Nat
      BY <1>8, PlacesInLine
    <3> HIDE DEF n
    <3> QED
      BY <1>7, <1>8, <1>12, <3>1 DEF Queue
  <2>3. TurnBegan' <= clock /\ TurnBegan' \in Nat
    <3>1. since'[line'[1]] \in Nat /\ since'[line'[1]] <= clock
      BY <1>1, <1>3, <2>2, NoneFacts DEF TypeOK, TimeInv, Clock
    <3> QED
      BY <1>3, <1>7, <3>1 DEF TurnBegan
  <2>4. clock <= TurnBegan + Timeout /\ TurnBegan \in Nat
    <3>1. since[line[1]] \in Nat
      BY <1>7, <2>2
    <3>2. at[line[1]] # "waiting" => clock <= since[line[1]] + Timeout
      BY <1>8, <1>12, <2>2 DEF LineInv, TimeInv, Working, Pending, Queue
    <3> QED
      BY <1>7, <3>1, <3>2 DEF TurnBegan
  <2> HIDE DEF n
  <2>5. /\ n - (i + 1) \in Nat /\ (n - (i + 1)) + 1 = n - i
    BY <1>7, <2>2
  <2>6. /\ Slack(n - (i + 1)) \in Nat /\ Slack((n - (i + 1)) + 1) = Slack(n - (i + 1)) + Timeout
    BY <2>5, SlackFacts
  <2> QED
    BY <1>7, <1>9, <2>1, <2>3, <2>4, <2>5, <2>6
<1> QED
  BY <1>5, <1>10, <1>11, <1>12, PlaceBefore

-----------------------------------------------------------------------------
(* The world                                                               *)

\* The source gets a new value: all others are as old as before.
LEMMA ChangeKeeps ==
  ASSUME Refreshing, Change
  PROVE  Refreshing'
<1> USE DEF Refreshing
<1>1. /\ source \in Nat /\ source + 1 \in Values /\ source \in Values /\ clock \in Nat
      /\ replaced \in [Values -> Clock \cup {None}]
      /\ \A v \in Values : v \in Nat
  BY NoneFacts DEF Change, TypeOK, Values, Clock
<1>2. /\ source' = source + 1 /\ replaced' = [replaced EXCEPT ![source] = clock]
      /\ UNCHANGED <<policy, clock, cached, expires, retry, line, at, forced, now,
                     since, wanted, value>>
  BY DEF Change, cache
<1>3. \A v \in 0..source : LastHad(v)' = LastHad(v) /\ v \in 0..source' /\ v \in Values
  BY <1>1, <1>2, LastHadType DEF LastHad, TypeOK
<1>4. TypeOK'
  BY <1>1, <1>2 DEF TypeOK, LineTypes
<1>5. LineInv'
  BY <1>2 DEF LineInv, Working, Holds
<1>6. TimeInv'
  BY <1>2 DEF TimeInv, Working
<1>7. SourceInv'
  <2>1. \A v \in Values : v < source' => replaced'[v] \in 0..clock
    BY <1>1, <1>2 DEF SourceInv
  <2>3. cached # None => LastHad(cached)' = LastHad(cached) /\ cached \in 0..source'
    BY <1>2, <1>3 DEF SourceInv, LastHad
  <2>4. \A r \in Requests : at[r] = "received" =>
            LastHad(value[r])' = LastHad(value[r]) /\ value[r] \in 0..source'
    BY <1>2, <1>3 DEF SourceInv, LastHad
  <2> QED
    BY <1>2, <2>1, <2>3, <2>4 DEF SourceInv
<1>8. WantInv'
  BY <1>1, <1>2 DEF WantInv
<1>9. ReadInv'
  BY <1>2 DEF ReadInv, Fresh, Silenced
<1>10. QueueInv'
  <2>1. cached # None => LastHad(cached)' = LastHad(cached)
    BY <1>2, <1>3 DEF SourceInv, LastHad
  <2> QED
    BY <1>2, <2>1 DEF QueueInv, TurnBegan, Fresh
<1>11. AnswerInv'
  <2>1. \A r \in Requests : at[r] = "answered" =>
            LastHad(value[r])' = LastHad(value[r]) /\ value[r] \in 0..source'
    BY <1>2, <1>3 DEF AnswerInv, LastHad
  <2> QED
    BY <1>2, <2>1 DEF AnswerInv
<1> QED
  BY <1>4, <1>5, <1>6, <1>7, <1>8, <1>9, <1>10, <1>11

\* Time passes while fetches are under way, and nobody holds an answer.
LEMMA TickKeeps ==
  ASSUME Refreshing, Tick
  PROVE  Refreshing'
<1> USE DEF Refreshing
<1>1. /\ source \in Nat /\ clock \in Nat /\ clock + 1 \in Clock
      /\ Timeout \in Nat /\ TTL \in Nat /\ FailureTTL \in Nat
      /\ since \in [Requests -> Nat] /\ now \in [Requests -> Nat]
      /\ expires \in Nat /\ retry \in Nat
  BY NoneFacts DEF Tick, TypeOK, Values, Clock
<1>2. /\ clock' = clock + 1
      /\ UNCHANGED <<policy, source, replaced, cached, expires, retry, line, at, forced,
                     now, since, wanted, value>>
  BY DEF Tick, cache
<1>3. \A v \in 0..source : /\ LastHad(v) \in Nat /\ LastHad(v)' \in Nat
                           /\ LastHad(v) <= LastHad(v)'
  BY <1>1, <1>2, LastHadType DEF LastHad
<1>4. TypeOK'
  BY <1>1, <1>2 DEF TypeOK, LineTypes
<1>5. LineInv'
  BY <1>2 DEF LineInv, Working, Holds
<1>6. TimeInv'
  <2>1. \A r \in Requests : Working(r) => clock < since[r] + Timeout
    BY DEF Tick, Working
  <2> QED
    BY <1>1, <1>2, <2>1 DEF TimeInv, Working
<1>7. /\ cached # None => LastHad(cached)' >= LastHad(cached) /\ LastHad(cached) \in Nat
                          /\ LastHad(cached)' \in Nat
      /\ \A r \in Requests : at[r] = "received" =>
            LastHad(value[r])' >= LastHad(value[r]) /\ LastHad(value[r]) \in Nat
            /\ LastHad(value[r])' \in Nat
  BY <1>2, <1>3 DEF SourceInv, LastHad
<1>8. SourceInv'
  <2>1. \A v \in Values : v < source' => replaced'[v] \in 0..clock'
    BY <1>1, <1>2 DEF SourceInv
  <2>2. cached' # None => /\ cached' \in 0..source'
                          /\ expires' <= LastHad(cached)' + TTL + Timeout
    BY <1>1, <1>2, <1>7 DEF SourceInv
  <2>3. \A r \in Requests : at'[r] = "received" =>
            value'[r] \in 0..source' /\ since'[r] <= LastHad(value[r])'
    BY <1>1, <1>2, <1>7 DEF SourceInv
  <2> QED
    BY <2>1, <2>2, <2>3 DEF SourceInv
<1>9. WantInv'
  BY <1>2 DEF WantInv
<1>10. \A i \in DOMAIN line : 1 \in DOMAIN line /\ line[1] \in Requests /\ at[line[1]] # "waiting"
  <2>1. Queue(line)
    BY InLine
  <2> QED
    BY <2>1 DEF Queue, Tick
<1>11. ReadInv'
  BY <1>2, <1>10 DEF ReadInv
<1>12. QueueInv'
  <2> SUFFICES ASSUME NEW i \in DOMAIN line, ~forced[line[i]], Fresh(now[line[i]])
               PROVE  TurnBegan' <= LastHad(cached)' + Slack(Cardinality(Requests) - i)
    BY <1>2 DEF QueueInv, Fresh
  <2> DEFINE k == Slack(Cardinality(Requests) - i)
  <2>1. TurnBegan <= LastHad(cached) + k
    BY DEF QueueInv
  <2>2. TurnBegan' = TurnBegan /\ TurnBegan \in Nat
    BY <1>1, <1>2, <1>10 DEF TurnBegan
  <2>3. k \in Nat
    <3>1. Len(line) <= Cardinality(Requests) /\ i \in 1..Len(line)
          /\ Cardinality(Requests) \in Nat /\ Len(line) \in Nat
      BY InLine, PlacesInLine DEF Queue
    <3>2. Cardinality(Requests) - i \in Nat
      BY <3>1
    <3> QED
      BY <3>2, SlackFacts
  <2> HIDE DEF k
  <2>4. TurnBegan' <= LastHad(cached)' + k
    BY <1>7, <2>1, <2>2, <2>3 DEF Fresh
  <2> QED
    BY <2>4 DEF k
<1>13. AnswerInv'
  BY <1>2 DEF AnswerInv, Tick, Settled
<1> QED
  BY <1>4, <1>5, <1>6, <1>8, <1>9, <1>11, <1>12, <1>13

-----------------------------------------------------------------------------
(* Theorems                                                                *)

LEMMA RefreshingInit == Init => Refreshing
<1> SUFFICES ASSUME Init PROVE Refreshing
  OBVIOUS
<1> USE NoneFacts DEF Init
<1>1. TypeOK
  BY DEF TypeOK, LineTypes, Values, Clock, Places
<1>2. LineInv /\ TimeInv /\ WantInv /\ AnswerInv
  BY DEF LineInv, TimeInv, WantInv, AnswerInv, Working, Pending
<1>3. SourceInv /\ ReadInv /\ QueueInv
  BY DEF SourceInv, ReadInv, QueueInv, Values
<1> QED
  BY <1>1, <1>2, <1>3 DEF Refreshing

LEMMA RefreshingStep == Refreshing /\ [Next]_vars => Refreshing'
<1> SUFFICES ASSUME Refreshing, [Next]_vars PROVE Refreshing'
  OBVIOUS
<1>1. ASSUME NEW r \in Requests, RequestStep(r) PROVE Refreshing'
  BY <1>1, TypesAndTimes, SourceKept, WantKept, ReadKept, QueueKept, AnswerKept
  DEF Refreshing
<1>2. CASE UNCHANGED vars
  <2>1. UNCHANGED <<policy, clock, source, replaced, cached, expires, retry, line, at,
                    forced, now, since, wanted, value>>
    BY <1>2 DEF vars, world, cache
  <2>2. TypeOK' /\ LineInv' /\ TimeInv'
    BY <2>1 DEF Refreshing, TypeOK, LineTypes, LineInv, TimeInv, Working, Holds
  <2>3. SourceInv' /\ WantInv' /\ AnswerInv'
    BY <2>1 DEF Refreshing, SourceInv, WantInv, AnswerInv, LastHad
  <2>4. ReadInv' /\ QueueInv'
    BY <2>1 DEF Refreshing, ReadInv, QueueInv, TurnBegan, LastHad, Fresh, Silenced
  <2> QED
    BY <2>2, <2>3, <2>4 DEF Refreshing
<1> QED
  BY <1>1, <1>2, ChangeKeeps, TickKeeps DEF Next, RequestStep

LEMMA RefreshingAlways == Spec => []Refreshing
BY RefreshingInit, RefreshingStep, PTL DEF Spec

(* The types of the caches' state, for any times and any number of         *)
(* requests: whoever waits for the lock is in its line, once.              *)
THEOREM CacheTypes == Spec => []TypeOK
<1>1. Refreshing => TypeOK
  BY DEF Refreshing
<1> QED
  BY <1>1, RefreshingAlways, PTL

(* An answer is never older than a TTL and a fetch, although a look under  *)
(* the lock goes by a time read before the wait and a late answer of a     *)
(* writer may overwrite a newer one.                                       *)
THEOREM AnswersAreYoung == Spec => []BoundedStaleness
<1>1. Refreshing => BoundedStaleness
  <2> SUFFICES ASSUME Refreshing, NEW r \in Requests, at[r] = "answered"
               PROVE  Age(value[r]) < TTL + Timeout
    BY DEF BoundedStaleness
  <2>1. value[r] \in 0..source /\ clock < LastHad(value[r]) + TTL + Timeout
    BY DEF Refreshing, AnswerInv
  <2>2. LastHad(value[r]) \in 0..clock /\ clock \in Nat
    BY <2>1, LastHadType, NoneFacts DEF Refreshing, TypeOK, Clock
  <2> QED
    BY <2>1, <2>2, NoneFacts DEF Age, LastHad
<1> QED
  BY <1>1, RefreshingAlways, PTL

(* Reading the version takes one fetch at most, however many readers queue *)
(* behind one that hangs.                                                  *)
THEOREM OneTimeoutAtMost == Spec => []OneTimeoutPerRead
<1>1. Refreshing => OneTimeoutPerRead
  <2> SUFFICES ASSUME Refreshing, NEW r \in Requests, policy = "version", ~forced[r],
                      at[r] \in {"waiting", "fetching", "received"}
               PROVE  clock <= now[r] + Timeout
    BY DEF OneTimeoutPerRead
  <2>1. Queue(line)
    BY InLine DEF Refreshing
  <2>2. PICK i \in DOMAIN line : line[i] = r
    BY <2>1 DEF Refreshing, TypeOK, LineTypes, LineInv, Working, Holds, Queue
  <2>3. 1 \in DOMAIN line /\ line[1] \in Requests
    BY <2>1, <2>2 DEF Queue
  <2>4. /\ clock \in Nat /\ now[r] \in Nat /\ since[line[1]] \in Nat /\ Timeout \in Nat
    BY <2>3, NoneFacts DEF Refreshing, TypeOK, Clock
  <2>5. CASE at[line[1]] = "waiting"
    BY <2>2, <2>5 DEF Refreshing, ReadInv
  <2>6. CASE at[line[1]] # "waiting"
    <3>1. since[line[1]] <= now[r]
      BY <2>2, <2>6 DEF Refreshing, ReadInv
    <3>2. clock <= since[line[1]] + Timeout
      BY <2>3, <2>6 DEF Refreshing, LineInv, TimeInv, Working, Pending
    <3> QED
      BY <2>4, <3>1, <3>2
  <2> QED
    BY <2>5, <2>6
<1> QED
  BY <1>1, RefreshingAlways, PTL

(* What is published from the start of a request on is never refused: the  *)
(* refresh that a missing item forces cannot bring an older value.         *)
THEOREM PublishedIsNeverRefused == Spec => PublishedIsAccepted
<1>1. Refreshing /\ [Next]_vars =>
        [\A r \in Requests :
            at[r] # "rejected" /\ at'[r] = "rejected" => wanted[r] \notin Items(source)]_vars
  <2> SUFFICES ASSUME Refreshing, Next, NEW r \in Requests,
                      at[r] # "rejected", at'[r] = "rejected"
               PROVE  wanted[r] \notin Items(source)
    OBVIOUS
  <2>1. Store(r) /\ policy = "items" /\ wanted[r] \notin Items(value[r])
    <3>1. RequestStep(r)
      <4>1. ASSUME NEW q \in Requests, RequestStep(q) PROVE q = r
        BY <4>1, RequestMoves DEF Alone, Refreshing
      <4>2. ~Change /\ ~Tick
        BY DEF Change, Tick
      <4>3. PICK q \in Requests : RequestStep(q)
        BY <4>2 DEF Next, RequestStep
      <4> QED
        BY <4>1, <4>3
    <3>2. Look(r) \/ LookAgain(r) \/ Store(r)
      BY <3>1, WhoMoved DEF Refreshing
    <3>3. ASSUME Look(r) PROVE FALSE
      BY <3>3 DEF Look, Examine, Goto, Refreshing, LineInv, TypeOK
    <3>4. ASSUME LookAgain(r) PROVE FALSE
      BY <3>4 DEF LookAgain, Served, Examine, Goto, Refreshing, TypeOK
    <3>5. Store(r)
      BY <3>2, <3>3, <3>4
    <3> QED
      BY <3>5 DEF Store, Examine, Found, Goto, Refreshing, TypeOK
  <2>2. /\ wanted[r] \in 0..source /\ wanted[r] <= value[r] /\ value[r] \in 0..source
        /\ source \in Nat
    BY <2>1, NoneFacts
    DEF Store, Refreshing, WantInv, SourceInv, Pending, TypeOK, Values
  <2> QED
    BY <2>1, <2>2 DEF Items
<1> QED
  BY <1>1, RefreshingAlways, PTL DEF Spec, PublishedIsAccepted
=============================================================================
