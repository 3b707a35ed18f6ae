----------------------------- MODULE RepoLinks -----------------------------
(***************************************************************************)
(* The repositories made of ONE source (a git commit, or an uploaded       *)
(* archive) and their holders: the rows of `repos` with the counter        *)
(* `user_count`, the links of `user_repos`, and the requests that create,  *)
(* join, relaunch, rename and leave a repository.  A row is keyed by the   *)
(* analyzer version it was created for; deduplication asks what version    *)
(* its output is at.  No transaction spans two documents, so each write is *)
(* a step of its own.  What becomes of the runs of a repository, and which *)
(* requests retry them, is the subject of RepoRuns; here a row has a run   *)
(* or has none yet.                                                        *)
(***************************************************************************)
EXTENDS Integers, FiniteSets

CONSTANTS
    Users,
    Requests,     \* requests in flight at a time
    MaxRows,      \* bound: rows ever inserted for the source
    MaxVersion,   \* bound: analyzer versions, in their order
    MaxCount,     \* bound: a counter that crashes have driven up
    Overlapping,  \* what may overlap a delete of the same link: another
                  \* "delete", a "save"
    Crashes       \* whether the server may die in the middle of a request

ASSUME FinitelyManyAssumption == IsFiniteSet(Users) /\ IsFiniteSet(Requests)
ASSUME LinkBoundsAssumption ==
    /\ MaxRows \in Nat \ {0}
    /\ MaxVersion \in Nat \ {0}
    /\ MaxCount \in Nat \ {0}
ASSUME OverlappingAssumption == Overlapping \subseteq {"delete", "save"}
ASSUME CrashesAssumption == Crashes \in BOOLEAN

Rows == 1..MaxRows
Versions == 1..MaxVersion
LinkIds == Nat \ {0}
None == 0         \* no row, no version, no link or no user

VARIABLES
    rows,      \* number of rows inserted so far
    version,   \* row -> `analyzer_version`, part of the unique key
    ran,       \* row -> `ran_analyzer_version`, None while unset
    count,     \* row -> `user_count`
    started,   \* the rows that a run was inserted for
    link,      \* user -> row -> `_id` of the link, None if there is none
    current,   \* the version the worker reports
    pc,        \* request -> its next step
    who,       \* request -> its user
    row,       \* request -> the row it works on
    ver,       \* request -> the worker version it fetched
    held,      \* request -> `_id` of the link it read
    ranSeen    \* request -> the `ran_analyzer_version` it read

rowVars == <<rows, version, ran, count, started>>
locals == <<who, row, ver, held, ranSeen>>
vars == <<rowVars, link, current, pc, locals>>

Steps == {"idle", "find", "insert", "link", "run", "bykey", "acquire",
          "linking", "undo", "decide", "drop", "release", "save"}

-----------------------------------------------------------------------------
(* The documents.                                                          *)

Inserted == 1..rows

\* The filter of the lookups and of the partial unique indexes.
Alive(r) == r \in Inserted /\ count[r] > 0

\* The version floor: what the row's output is at, or will be.
Floor(r) == IF ran[r] = None THEN version[r] ELSE ran[r]

\* _find_live_git_repo / _find_live_zip_repo: at version v, by the floor, the
\* row with the highest key first.
FoundAtFloor(v, r) ==
    LET Matches == {q \in Inserted : Alive(q) /\ Floor(q) = v}
    IN  r \in Matches /\ \A q \in Matches : version[q] <= version[r]

\* _find_live_git_repo_by_key / _find_live_zip_repo_by_key.
FoundByKey(v, r) == Alive(r) /\ version[r] = v

\* Mutant: the index filter is on the floor's version.
KeyFreeAtFloor(v) == \A q \in Inserted : ~(Alive(q) /\ Floor(q) = v)

\* The partial unique index on the source and the version.
KeyFree(v) == \A q \in Inserted : ~FoundByKey(v, q)

Holders(r) == {u \in Users : link[u][r] # None}

\* The `_id`s of the links of user u to row r that requests remember.
Remembered(u, r) == {held[p] : p \in {q \in Requests : who[q] = u /\ row[q] = r}}

\* A new `_id`.  Only links of the same user and row are ever compared, so it
\* is the least one that differs from what is known of theirs.
FreshLink(u, r, l) ==
    LET Known == Remembered(u, r) \cup {link[u][r]}
    IN  l \in LinkIds \ Known /\ \A k \in 1..(l - 1) : k \in Known

\* The unique index on (user_id, repo_id) admits a link of user u to row r.
InsertLink(u, r) ==
    /\ link[u][r] = None
    /\ \E l \in 1..(Cardinality(Requests) + 1) :
        /\ FreshLink(u, r, l)
        /\ link' = [link EXCEPT ![u][r] = l]

AddToCount(r, n) == count' = [count EXCEPT ![r] = @ + n]

-----------------------------------------------------------------------------
Init ==
    /\ rows = 0
    /\ version = [r \in Rows |-> None]
    /\ ran = [r \in Rows |-> None]
    /\ count = [r \in Rows |-> 0]
    /\ started = {}
    /\ link = [u \in Users |-> [r \in Rows |-> None]]
    /\ current = 1
    /\ pc = [p \in Requests |-> "idle"]
    /\ who = [p \in Requests |-> None]
    /\ row = [p \in Requests |-> None]
    /\ ver = [p \in Requests |-> None]
    /\ held = [p \in Requests |-> None]
    /\ ranSeen = [p \in Requests |-> None]

Goto(p, from, to) ==
    /\ pc[p] = from
    /\ pc' = [pc EXCEPT ![p] = to]

Assign(f, p, x) == [f EXCEPT ![p] = x]

\* The request returns, raises or dies.
End(p, from) ==
    /\ Goto(p, from, "idle")
    /\ who' = Assign(who, p, None)
    /\ row' = Assign(row, p, None)
    /\ ver' = Assign(ver, p, None)
    /\ held' = Assign(held, p, None)
    /\ ranSeen' = Assign(ranSeen, p, None)

-----------------------------------------------------------------------------
(* analyze_git and _relaunch_at_new_version: create or join.               *)

BeginAnalyze(p, u) ==
    /\ Goto(p, "idle", "find")
    /\ who' = Assign(who, p, u)
    /\ ver' = Assign(ver, p, current)
    /\ UNCHANGED <<rowVars, link, current, row, held, ranSeen>>

Find(p) ==
    /\ \/ \E r \in Inserted :
            /\ FoundAtFloor(ver[p], r)
            /\ Goto(p, "find", "acquire")
            /\ row' = Assign(row, p, r)
       \/ /\ \A r \in Inserted : ~FoundAtFloor(ver[p], r)
          /\ Goto(p, "find", "insert")
          /\ UNCHANGED row
    /\ UNCHANGED <<rowVars, link, current, who, ver, held, ranSeen>>

\* _start_new_analysis, first write: the row, `user_count` 1 by default.
InsertRow(p) ==
    /\ Goto(p, "insert", "link")
    /\ KeyFree(ver[p])
    /\ rows < MaxRows
    /\ rows' = rows + 1
    /\ version' = [version EXCEPT ![rows'] = ver[p]]
    /\ count' = [count EXCEPT ![rows'] = 1]
    /\ row' = Assign(row, p, rows')
    /\ UNCHANGED <<ran, started, link, current, who, ver, held, ranSeen>>

\* ... second write: the creator's link.
CreatorLinks(p) ==
    /\ Goto(p, "link", "run")
    /\ InsertLink(who[p], row[p])
    /\ UNCHANGED <<rowVars, current, locals>>

\* ... third write: the run.
CreatorInsertsRun(p) ==
    /\ End(p, "run")
    /\ started' = started \cup {row[p]}
    /\ UNCHANGED <<rows, version, ran, count, link, current>>

\* A DuplicateKeyError of any of the three writes; that of the third if the
\* run somebody inserted before is still live.
CreatorCollides(p) ==
    /\ \/ Goto(p, "insert", "bykey") /\ ~KeyFree(ver[p])
       \/ Goto(p, "link", "bykey") /\ link[who[p]][row[p]] # None
       \/ Goto(p, "run", "bykey") /\ row[p] \in started
    /\ row' = Assign(row, p, None)
    /\ UNCHANGED <<rowVars, link, current, who, ver, held, ranSeen>>

\* Mutant: the lookup is not checked for None.
FindByKeyUnchecked(p) ==
    /\ Goto(p, "bykey", "acquire")
    /\ \/ \E r \in Inserted : FoundByKey(ver[p], r) /\ row' = Assign(row, p, r)
       \/ KeyFree(ver[p]) /\ UNCHANGED row
    /\ UNCHANGED <<rowVars, link, current, who, ver, held, ranSeen>>

\* It is taken for a lost race on the row; if no row owns the key it is raised.
FindByKey(p) ==
    \/ \E r \in Inserted :
        /\ FoundByKey(ver[p], r)
        /\ Goto(p, "bykey", "acquire")
        /\ row' = Assign(row, p, r)
        /\ UNCHANGED <<rowVars, link, current, who, ver, held, ranSeen>>
    \/ /\ KeyFree(ver[p])
       /\ End(p, "bykey")
       /\ UNCHANGED <<rowVars, link, current>>

-----------------------------------------------------------------------------
(* _acquire_repo_link, for join_repo and for _join_analysis: claim a slot,  *)
(* then link.                                                              *)

\* join_repo finds the row by id and asks for no version.
BeginJoin(p, u, r) ==
    /\ Alive(r)
    /\ Goto(p, "idle", "acquire")
    /\ who' = Assign(who, p, u)
    /\ row' = Assign(row, p, r)
    /\ UNCHANGED <<rowVars, link, current, ver, held, ranSeen>>

\* Mutant: the slot is claimed on a row nobody holds, too.
AcquireAnySlot(p) ==
    /\ Goto(p, "acquire", "linking")
    /\ count[row[p]] < MaxCount
    /\ AddToCount(row[p], 1)
    /\ UNCHANGED <<rows, version, ran, started, link, current, locals>>

\* The increment, filtered on user_count > 0 ...
AcquireSlot(p) ==
    /\ Goto(p, "acquire", "linking")
    /\ Alive(row[p])
    /\ count[row[p]] < MaxCount
    /\ AddToCount(row[p], 1)
    /\ UNCHANGED <<rows, version, ran, started, link, current, locals>>

\* ... matched nothing: 404.
AcquireNotFound(p) ==
    /\ End(p, "acquire")
    /\ ~Alive(row[p])
    /\ UNCHANGED <<rowVars, link, current>>

\* _join_analysis then retries a failed run (RepoRuns) but inserts no first
\* one.
LinkHolder(p) ==
    /\ End(p, "linking")
    /\ InsertLink(who[p], row[p])
    /\ UNCHANGED <<rowVars, current>>

LinkExists(p) ==
    /\ Goto(p, "linking", "undo")
    /\ link[who[p]][row[p]] # None
    /\ UNCHANGED <<rowVars, link, current, locals>>

\* ... undo the increment, then 409.
UndoSlot(p) ==
    /\ End(p, "undo")
    /\ AddToCount(row[p], -1)
    /\ UNCHANGED <<rows, version, ran, started, link, current>>

-----------------------------------------------------------------------------
(* relaunch_repo.                                                          *)

\* The request's dependencies read the caller's link and the row.
BeginRelaunch(p, u, r) ==
    /\ r \in Inserted /\ link[u][r] # None
    /\ Goto(p, "idle", "decide")
    /\ who' = Assign(who, p, u)
    /\ row' = Assign(row, p, r)
    /\ ranSeen' = Assign(ranSeen, p, ran[r])
    /\ UNCHANGED <<rowVars, link, current, ver, held>>

\* is_stale: neither the key nor the stamp that was read reaches version v.
IsStale(p, v) ==
    /\ version[row[p]] < v
    /\ ranSeen[p] = None \/ ranSeen[p] < v

\* _relaunch_at_current_version inserts the run that is missing.
Decide(p) ==
    \/ /\ Goto(p, "decide", "find")
       /\ IsStale(p, current)
       /\ ver' = Assign(ver, p, current)
       /\ row' = Assign(row, p, None)
       /\ UNCHANGED <<rowVars, link, current, who, held, ranSeen>>
    \/ /\ End(p, "decide")
       /\ ~IsStale(p, current)
       /\ started' = started \cup {row[p]}
       /\ UNCHANGED <<rows, version, ran, count, link, current>>

-----------------------------------------------------------------------------
(* delete_repo and update_user_repo: both start from a link that was read. *)

\* Whether an overlap is allowed for, or no request is at that step of the
\* link of user u to row r.
MayOverlap(kind, step, u, r) ==
    \/ kind \in Overlapping
    \/ \A q \in Requests :
            pc[q] = step /\ who[q] = u /\ row[q] = r => held[q] # link[u][r]

ReadLink(p, u, r, to) ==
    /\ r \in Inserted /\ link[u][r] # None
    /\ Goto(p, "idle", to)
    /\ who' = Assign(who, p, u)
    /\ row' = Assign(row, p, r)
    /\ held' = Assign(held, p, link[u][r])
    /\ UNCHANGED <<rowVars, link, current, ver, ranSeen>>

BeginDelete(p, u, r) ==
    /\ MayOverlap("delete", "drop", u, r)
    /\ MayOverlap("save", "save", u, r)
    /\ ReadLink(p, u, r, "drop")

BeginSave(p, u, r) ==
    /\ MayOverlap("save", "drop", u, r)
    /\ ReadLink(p, u, r, "save")

\* Mutant: the slot is released in the same breath, and again afterwards.
UnlinkReleasing(p) ==
    /\ Goto(p, "drop", "release")
    /\ link' = IF link[who[p]][row[p]] = held[p]
               THEN [link EXCEPT ![who[p]][row[p]] = None] ELSE link
    /\ AddToCount(row[p], -1)
    /\ UNCHANGED <<rows, version, ran, started, current, locals>>

\* user_repo.delete(): by `_id`, no matter whether it is still there.
Unlink(p) ==
    /\ Goto(p, "drop", "release")
    /\ link' = IF link[who[p]][row[p]] = held[p]
               THEN [link EXCEPT ![who[p]][row[p]] = None] ELSE link
    /\ UNCHANGED <<rowVars, current, locals>>

\* The decrement, unfiltered.
ReleaseSlot(p) ==
    /\ End(p, "release")
    /\ AddToCount(row[p], -1)
    /\ UNCHANGED <<rows, version, ran, started, link, current>>

\* user_repo.save(): an upsert by `_id`.  It brings a link back that was
\* deleted meanwhile, and fails on the unique index if another replaced it.
SaveLink(p) ==
    /\ End(p, "save")
    /\ link' = IF link[who[p]][row[p]] = None
               THEN [link EXCEPT ![who[p]][row[p]] = held[p]] ELSE link
    /\ UNCHANGED <<rowVars, current>>

-----------------------------------------------------------------------------
(* The server dies, the worker runs and is redeployed.                     *)

Crash(p) ==
    /\ Crashes
    /\ \E from \in Steps \ {"idle"} : End(p, from)
    /\ UNCHANGED <<rowVars, link, current>>

\* The worker stamps the version it runs (stamp_ran_analyzer_version).
RunStamps(r) ==
    /\ r \in started
    /\ ran' = [ran EXCEPT ![r] = current]
    /\ UNCHANGED <<rows, version, count, started, link, current, pc, locals>>

Deploy(v) ==
    /\ v # current
    /\ current' = v
    /\ UNCHANGED <<rowVars, link, pc, locals>>

-----------------------------------------------------------------------------
Begin(p) ==
    \E u \in Users :
        \/ BeginAnalyze(p, u)
        \/ \E r \in Rows : \/ BeginJoin(p, u, r) \/ BeginRelaunch(p, u, r)
                           \/ BeginDelete(p, u, r) \/ BeginSave(p, u, r)

RequestStep(p) ==
    \/ Find(p) \/ InsertRow(p) \/ CreatorLinks(p) \/ CreatorInsertsRun(p)
    \/ CreatorCollides(p) \/ FindByKey(p)
    \/ AcquireSlot(p) \/ AcquireNotFound(p) \/ LinkHolder(p) \/ LinkExists(p)
    \/ UndoSlot(p) \/ Decide(p)
    \/ Unlink(p) \/ ReleaseSlot(p) \/ SaveLink(p)

Next ==
    \/ \E p \in Requests : Begin(p) \/ RequestStep(p) \/ Crash(p)
    \/ \E r \in Rows : RunStamps(r)
    \/ \E v \in Versions : Deploy(v)

Spec == Init /\ [][Next]_vars

-----------------------------------------------------------------------------
(* Properties.                                                             *)

\* Past its lookups a request works on a row that exists, for its user.
OnARow == Steps \ {"idle", "find", "insert", "bykey"}

DocumentTypes ==
    /\ rows \in 0..MaxRows
    /\ version \in [Rows -> Versions \cup {None}]
    /\ ran \in [Rows -> Versions \cup {None}]
    /\ count \in [Rows -> Int]
    /\ started \subseteq Rows
    /\ link \in [Users -> [Rows -> Nat]]
    /\ current \in Versions

RequestTypes ==
    /\ pc \in [Requests -> Steps]
    /\ who \in [Requests -> Users \cup {None}]
    /\ row \in [Requests -> Rows \cup {None}]
    /\ ver \in [Requests -> Versions \cup {None}]
    /\ held \in [Requests -> Nat]
    /\ ranSeen \in [Requests -> Versions \cup {None}]
    /\ \A p \in Requests :
        /\ pc[p] # "idle" => who[p] \in Users
        /\ pc[p] \in OnARow => row[p] \in Inserted
        /\ pc[p] \in {"find", "insert", "link", "run", "bykey"} =>
              ver[p] \in Versions
        /\ pc[p] \in {"drop", "save"} => held[p] # None

TypeOK == DocumentTypes /\ RequestTypes

\* The counter is never below the number of holders, whoever joins, leaves or
\* crashes in between (RepoDocument: "an upper-bound approximation").
CountBoundsLinks == \A r \in Rows : count[r] >= Cardinality(Holders(r))

\* One source is analyzed once per version: no two rows that somebody holds
\* have the same key (the partial unique indexes of RepoDocument).
UniqueKey ==
    \A q, r \in Rows :
        Alive(q) /\ Alive(r) /\ version[q] = version[r] => q = r

\* A row that nobody holds any more is garbage and stays garbage: no request
\* brings it back beside the row that replaced it (_acquire_repo_link).
ZeroIsFinal ==
    [][\A r \in Inserted : count[r] <= 0 => count'[r] <= 0]_vars

-----------------------------------------------------------------------------
(* What the documentation says and some behaviour of the code contradicts. *)

\* "the creator links itself before inserting its run, so a repository
\* reachable without one is mid-create" (analyze_git).
RunlessIsMidCreate ==
    \A r \in Inserted :
        r \notin started =>
            \E p \in Requests :
                \/ row[p] = r /\ pc[p] \in {"link", "run"}
                \/ pc[p] \in {"bykey", "acquire", "linking", "undo"}
=============================================================================
