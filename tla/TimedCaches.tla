----------------------------- MODULE TimedCaches -----------------------------
(***************************************************************************)
(* The three process-wide caches of the backend: the worker's analyzer     *)
(* version, the languages it supports, and the key set that signs logins.  *)
(*                                                                         *)
(* All read a source that changes now and then (a deployment, a rotation)  *)
(* and may fail, keep what they read for a time, and let one request       *)
(* refresh while the others wait for its lock.  They differ in two ways:   *)
(*   "version"  the write path fetches past the lock and is the only code  *)
(*              that stores; a failed fetch is remembered for a time       *)
(*   "items"    (languages, keys) a request that misses its item forces a  *)
(*              refresh; the expiry is stamped from before the lock        *)
(*                                                                         *)
(* The clock counts ticks.  A fetch ends within Timeout of its start, and  *)
(* a coroutine that can run does so before the clock moves on.             *)
(***************************************************************************)
EXTENDS Naturals, FiniteSets, Sequences

CONSTANTS
    Requests,    \* requests of the process
    None,        \* no value, no item
    Timeout,     \* the `timeout` of a fetch
    TTL,         \* ANALYZER_VERSION_CACHE_TTL_S, LANGUAGES_CACHE_TTL_S, OIDC_JWKS_CACHE_TTL_S
    FailureTTL,  \* ANALYZER_VERSION_FAILURE_CACHE_TTL_S
    MaxChanges,  \* bound on the changes of the source
    MaxClock     \* bound on the clock

ASSUME TimesAssumption ==
    /\ {Timeout, TTL, FailureTTL} \subseteq Nat \ {0}
    /\ {MaxChanges, MaxClock} \subseteq Nat
    /\ None \notin Requests \cup Nat
ASSUME FinitelyManyAssumption == IsFiniteSet(Requests)
\* A value outlives the requests that wait for each other.
ASSUME WaitAssumption == Cardinality(Requests) * Timeout <= TTL + Timeout

VARIABLES
    policy,    \* which kind of cache this is
    clock,
    source,    \* the number of the source's current value
    replaced,  \* value -> when the source stopped having it
    cached,    \* the value in the cache
    expires,   \* `expires_at`
    retry,     \* `retry_after`
    line,      \* the lock: who holds or gets it, and who waits behind
    at,        \* request -> where its coroutine is
    forced,    \* request -> its refresh is forced; in "version", it writes
    now,       \* request -> the time it read before the lock
    since,     \* request -> when its fetch began
    wanted,    \* request -> the item it looks for
    value      \* request -> what it was answered

world == <<policy, clock, source, replaced>>
cache == <<cached, expires, retry>>
vars == <<world, cache, line, at, forced, now, since, wanted, value>>

Values == 0..MaxChanges
Clock == 0..MaxClock
Settled == {"answered", "rejected", "failed"}
Places == {"idle", "waiting", "fetching", "received"} \cup Settled

\* A value's items: its own and, for the time of a changeover, the one before.
Items(v) == {v, IF v = 0 THEN 0 ELSE v - 1}

Init ==
    /\ policy \in {"version", "items"}
    /\ clock = 0
    /\ source = 0
    /\ replaced = [v \in Values |-> None]
    /\ cached = None
    /\ expires = 0
    /\ retry = 0
    /\ line = <<>>
    /\ at = [r \in Requests |-> "idle"]
    /\ forced = [r \in Requests |-> FALSE]
    /\ now = [r \in Requests |-> 0]
    /\ since = [r \in Requests |-> 0]
    /\ wanted = [r \in Requests |-> None]
    /\ value = [r \in Requests |-> None]

-----------------------------------------------------------------------------
(* Where a coroutine goes, given the time t it goes by.                    *)

\* Mutant: what is cached stays.
FreshForever(t) == cached # None

Fresh(t) == cached # None /\ t < expires

\* An outage was seen less than FailureTTL ago.
Silenced(t) == policy = "version" /\ t < retry

Goto(r, place) == at' = [at EXCEPT ![r] = place]

\* The lock is first come, first served; the head of the line has it.
JoinLine(r) == line' = Append(line, r)

\* Mutant: the lock is kept.
LeaveLineNever(r) == UNCHANGED line

\* The line without r: only its head ever leaves it, and a writer is not in it.
Without(r) == IF line # <<>> /\ r = Head(line) THEN Tail(line) ELSE line

LeaveLine(r) == line' = Without(r)

Found(item, v) == policy = "version" \/ item \in Items(v)

\* The caller of an "items" cache looks for its item, once more after a forced
\* refresh, and then gives up; the other callers take the value as it is.
Examine(r, item, v) ==
    /\ value' = [value EXCEPT ![r] = v]
    /\ \/ /\ Found(item, v)
          /\ Goto(r, "answered")
          /\ LeaveLine(r)
          /\ UNCHANGED <<forced, now>>
       \/ /\ ~Found(item, v)
          /\ forced[r]
          /\ Goto(r, "rejected")
          /\ LeaveLine(r)
          /\ UNCHANGED <<forced, now>>
       \/ /\ ~Found(item, v)
          /\ ~forced[r]
          /\ Goto(r, "waiting")
          /\ line' = Append(Without(r), r)
          /\ forced' = [forced EXCEPT ![r] = TRUE]
          /\ now' = [now EXCEPT ![r] = clock]

-----------------------------------------------------------------------------
(* Requests                                                                *)

\* The first look is made without the lock.
Look(r) ==
    /\ at[r] = "idle"
    /\ \E item \in IF policy = "items" THEN Items(source) ELSE {None} :
        /\ wanted' = [wanted EXCEPT ![r] = item]
        /\ \/ Fresh(clock) /\ Examine(r, item, cached)
           \/ /\ ~Fresh(clock)
              /\ now' = [now EXCEPT ![r] = clock]
              /\ \/ Silenced(clock) /\ Goto(r, "failed") /\ UNCHANGED line
                 \/ ~Silenced(clock) /\ Goto(r, "waiting") /\ JoinLine(r)
              /\ UNCHANGED <<forced, value>>
    /\ UNCHANGED <<world, cache, since>>

\* get_analyzer_version, called by the write path: no look, no lock.
BeginWrite(r) ==
    /\ policy = "version"
    /\ at[r] = "idle"
    /\ forced' = [forced EXCEPT ![r] = TRUE]
    /\ since' = [since EXCEPT ![r] = clock]
    /\ Goto(r, "fetching")
    /\ UNCHANGED <<world, cache, line, now, wanted, value>>

\* Mutant: the second look forgets that the refresh is forced.
ServedUnforced(r) == Fresh(now[r])

\* The second look, under the lock, goes by the time that was read before it.
Served(r) == Fresh(now[r]) /\ ~forced[r]

\* Mutant: no second look at the failures.
WarnedNever(r) == FALSE

Warned(r) == Silenced(now[r])

LookAgain(r) ==
    /\ at[r] = "waiting"
    /\ r = Head(line)
    /\ \/ /\ Served(r)
          /\ Examine(r, wanted[r], cached)
          /\ UNCHANGED since
       \/ /\ ~Served(r) /\ Warned(r)
          /\ Goto(r, "failed")
          /\ LeaveLine(r)
          /\ UNCHANGED <<forced, now, since, value>>
       \/ /\ ~Served(r) /\ ~Warned(r)
          /\ Goto(r, "fetching")
          /\ since' = [since EXCEPT ![r] = clock]
          /\ UNCHANGED <<line, forced, now, value>>
    /\ UNCHANGED <<world, cache, wanted>>

\* The source answers; the answer is on its way.
Receive(r) ==
    /\ at[r] = "fetching"
    /\ value' = [value EXCEPT ![r] = source]
    /\ Goto(r, "received")
    /\ UNCHANGED <<world, cache, line, forced, now, since, wanted>>

\* The expiry counts from now in one cache, from before the lock in the others.
Expiry(r) == IF policy = "version" THEN clock + TTL ELSE now[r] + TTL

Store(r) ==
    /\ at[r] = "received"
    /\ cached' = value[r]
    /\ expires' = Expiry(r)
    /\ Examine(r, wanted[r], value[r])
    /\ UNCHANGED <<world, retry, since, wanted>>

\* Unreachable, too late, or an answer that is not understood.
Fail(r) ==
    /\ at[r] \in {"fetching", "received"}
    /\ retry' = IF policy = "version" THEN clock + FailureTTL ELSE retry
    /\ LeaveLine(r)
    /\ Goto(r, "failed")
    /\ UNCHANGED <<world, cached, expires, forced, now, since, wanted, value>>

\* The response is sent; the coroutine's variables are gone.
Return(r) ==
    /\ at[r] \in Settled
    /\ Goto(r, "idle")
    /\ forced' = [forced EXCEPT ![r] = FALSE]
    /\ now' = [now EXCEPT ![r] = 0]
    /\ since' = [since EXCEPT ![r] = 0]
    /\ wanted' = [wanted EXCEPT ![r] = None]
    /\ value' = [value EXCEPT ![r] = None]
    /\ UNCHANGED <<world, cache, line>>

-----------------------------------------------------------------------------
(* The world                                                               *)

\* The worker is deployed anew, the provider rotates its keys.
Change ==
    /\ source < MaxChanges
    /\ source' = source + 1
    /\ replaced' = [replaced EXCEPT ![source] = clock]
    /\ UNCHANGED <<policy, clock, cache, line, at, forced, now, since, wanted, value>>

\* Time passes when nobody can run, and no longer than a fetch may take.
Tick ==
    /\ clock < MaxClock
    /\ \A r \in Requests :
        /\ at[r] \notin Settled
        /\ at[r] = "waiting" => r # Head(line)
        /\ at[r] \in {"fetching", "received"} => clock < since[r] + Timeout
    /\ clock' = clock + 1
    /\ UNCHANGED <<policy, source, replaced, cache, line, at, forced, now, since, wanted, value>>

Next ==
    \/ \E r \in Requests :
        \/ Look(r)
        \/ BeginWrite(r)
        \/ LookAgain(r)
        \/ Receive(r)
        \/ Store(r)
        \/ Fail(r)
        \/ Return(r)
    \/ Change
    \/ Tick

Spec == Init /\ [][Next]_vars

-----------------------------------------------------------------------------
(* Properties                                                              *)

\* Who waits is in the line, and nobody is twice.
LineTypes ==
    /\ line \in Seq(Requests)
    /\ \A i, j \in DOMAIN line : i # j => line[i] # line[j]
    /\ \A r \in Requests : at[r] = "waiting" => \E i \in DOMAIN line : line[i] = r

\* Every variable has its type, and who waits for the lock is in its line once.
TypeOK ==
    /\ policy \in {"version", "items"}
    /\ clock \in Clock
    /\ source \in Values
    /\ replaced \in [Values -> Clock \cup {None}]
    /\ cached \in Values \cup {None}
    /\ expires \in 0..MaxClock + TTL
    /\ retry \in 0..MaxClock + FailureTTL
    /\ LineTypes
    /\ at \in [Requests -> Places]
    /\ forced \in [Requests -> BOOLEAN]
    /\ now \in [Requests -> Clock]
    /\ since \in [Requests -> Clock]
    /\ wanted \in [Requests -> Values \cup {None}]
    /\ value \in [Requests -> Values \cup {None}]

\* How long ago the source stopped having v.
Age(v) == IF v = source THEN 0 ELSE clock - replaced[v]

\* Whoever is answered gets what the source had less than TTL and one
\* fetch ago, although a look under the lock goes by a time read before the
\* wait and a late answer may overwrite a newer one.
BoundedStaleness ==
    \A r \in Requests : at[r] = "answered" => Age(value[r]) < TTL + Timeout

\* A language that the worker supports, a key that the provider publishes, from
\* the start of a request on is never refused: the cache may be stale, but it is
\* refreshed once before the request is.
PublishedIsAccepted ==
    [][\A r \in Requests :
        at[r] # "rejected" /\ at'[r] = "rejected" => wanted[r] \notin Items(source)]_vars

\* "Readers queued behind a hanging fetch do not each wait out a timeout":
\* reading the version takes no longer than one fetch, however many wait.
OneTimeoutPerRead ==
    \A r \in Requests :
        policy = "version" /\ ~forced[r] /\ at[r] \in {"waiting", "fetching", "received"}
            => clock <= now[r] + Timeout
=============================================================================
