-------------------------- MODULE RepoLinksProofs --------------------------
(***************************************************************************)
(* Proofs about RepoLinks, for every number of users, requests and rows.   *)
(*                                                                         *)
(* Type correctness gives OneRowPerKey and ZeroStaysFinal, whatever        *)
(* overlaps and crashes.  CounterBoundsHolders needs the accounts of the   *)
(* slots (Slots), and that nobody works on a link that is being deleted:   *)
(* RepoLinks_double_delete shows that it fails without.                    *)
(***************************************************************************)
EXTENDS RepoLinks, FiniteSetTheorems, TLAPS

(* Initially there is no row, and no request is under way.                 *)
LEMMA TypeInit == Init => TypeOK
BY LinkBoundsAssumption
DEF Init, TypeOK, DocumentTypes, RequestTypes, Rows, Versions, None, Steps,
    OnARow, Inserted

(* A request past its lookups has a user and an existing row.              *)
LEMMA HasRow ==
  ASSUME DocumentTypes, RequestTypes, NEW p \in Requests, pc[p] \in OnARow
  PROVE  who[p] \in Users /\ row[p] \in Inserted /\ row[p] \in Rows
BY LinkBoundsAssumption DEF DocumentTypes, RequestTypes, OnARow, Inserted, Rows

(* A link is inserted where there is none.                                 *)
LEMMA InsertLinkEffect ==
  ASSUME NEW u, NEW r, InsertLink(u, r)
  PROVE  link[u][r] = None /\ \E l \in LinkIds : link' = [link EXCEPT ![u][r] = l]
BY DEF InsertLink, FreshLink

(* A request that ends keeps the types ...                                 *)
LEMMA EndTypes ==
  ASSUME RequestTypes, NEW p \in Requests, NEW from \in Steps, End(p, from),
         UNCHANGED rows
  PROVE  RequestTypes'
BY DEF RequestTypes, End, Goto, Assign, None, Steps, OnARow, Inserted

(* ... and so does one that goes on, with the row it works on from then.    *)
LEMMA GotoTypes ==
  ASSUME RequestTypes, NEW p \in Requests, NEW from \in Steps,
         NEW to \in Steps, NEW r \in Rows \cup {None}, Goto(p, from, to),
         from # "idle",
         row' = Assign(row, p, r), to \in OnARow => r \in Inserted,
         to \in {"find", "insert", "link", "run", "bykey"} => ver'[p] \in Versions,
         to \notin {"drop", "save"},
         ver' = ver \/ (\E v \in Versions : ver' = Assign(ver, p, v)),
         UNCHANGED <<rows, who, held, ranSeen>>
  PROVE  RequestTypes'
BY DEF RequestTypes, Goto, Assign, None, Steps, OnARow, Inserted

(* The types are kept: one step of the proof per action of Next.           *)
LEMMA TypeStep == TypeOK /\ [Next]_vars => TypeOK'
<1> SUFFICES ASSUME DocumentTypes, RequestTypes, [Next]_vars
             PROVE  DocumentTypes' /\ RequestTypes'
  BY DEF TypeOK
<1> USE LinkBoundsAssumption
    DEF Rows, Versions, None, Inserted, rowVars, locals
<1>1. ASSUME NEW p \in Requests, NEW u \in Users, BeginAnalyze(p, u)
      PROVE  DocumentTypes' /\ RequestTypes'
  <2>1. DocumentTypes'
    BY <1>1 DEF BeginAnalyze, DocumentTypes
  <2>2. RequestTypes'
    BY <1>1 DEF BeginAnalyze, DocumentTypes, RequestTypes, OnARow, Steps,
       Goto, Assign
  <2> QED
    BY <2>1, <2>2
<1>2. ASSUME NEW p \in Requests, NEW u \in Users, NEW r \in Rows, BeginJoin(p, u, r)
      PROVE  DocumentTypes' /\ RequestTypes'
  <2>1. DocumentTypes'
    BY <1>2 DEF BeginJoin, DocumentTypes
  <2>2. RequestTypes'
    BY <1>2 DEF BeginJoin, DocumentTypes, RequestTypes, OnARow, Steps,
       Alive, Goto, Assign
  <2> QED
    BY <2>1, <2>2
<1>3. ASSUME NEW p \in Requests, NEW u \in Users, NEW r \in Rows, BeginRelaunch(p, u, r)
      PROVE  DocumentTypes' /\ RequestTypes'
  <2>1. DocumentTypes'
    BY <1>3 DEF BeginRelaunch, DocumentTypes
  <2>2. RequestTypes'
    BY <1>3 DEF BeginRelaunch, DocumentTypes, RequestTypes, OnARow, Steps,
       Goto, Assign
  <2> QED
    BY <2>1, <2>2
<1>4. ASSUME NEW p \in Requests, NEW u \in Users, NEW r \in Rows, BeginDelete(p, u, r)
      PROVE  DocumentTypes' /\ RequestTypes'
  <2>1. DocumentTypes'
    BY <1>4 DEF BeginDelete, ReadLink, DocumentTypes
  <2>2. RequestTypes'
    BY <1>4 DEF BeginDelete, ReadLink, DocumentTypes, RequestTypes, OnARow, Steps,
       Goto, Assign
  <2> QED
    BY <2>1, <2>2
<1>5. ASSUME NEW p \in Requests, NEW u \in Users, NEW r \in Rows, BeginSave(p, u, r)
      PROVE  DocumentTypes' /\ RequestTypes'
  <2>1. DocumentTypes'
    BY <1>5 DEF BeginSave, ReadLink, DocumentTypes
  <2>2. RequestTypes'
    BY <1>5 DEF BeginSave, ReadLink, DocumentTypes, RequestTypes, OnARow, Steps,
       Goto, Assign
  <2> QED
    BY <2>1, <2>2
<1>6. ASSUME NEW p \in Requests, Find(p)
      PROVE  DocumentTypes' /\ RequestTypes'
  <2>1. DocumentTypes'
    BY <1>6 DEF Find, DocumentTypes, Goto
  <2>2. CASE \E r \in Inserted : Goto(p, "find", "acquire") /\ row' = Assign(row, p, r)
    <3>1. PICK r \in Inserted : Goto(p, "find", "acquire") /\ row' = Assign(row, p, r)
      BY <2>2
    <3>2. r \in Rows
      BY DEF DocumentTypes
    <3> QED
      BY <1>6, <2>1, <3>1, <3>2, GotoTypes DEF Find, Steps, OnARow
  <2>3. CASE Goto(p, "find", "insert") /\ UNCHANGED row
    BY <1>6, <2>1, <2>3 DEF Find, Goto, RequestTypes, Steps, OnARow
  <2> QED
    BY <1>6, <2>2, <2>3 DEF Find
<1>7. ASSUME NEW p \in Requests, InsertRow(p)
      PROVE  DocumentTypes' /\ RequestTypes'
  <2>1. DocumentTypes'
    BY <1>7 DEF InsertRow, DocumentTypes, RequestTypes, Goto
  <2>2. RequestTypes'
    BY <1>7 DEF InsertRow, DocumentTypes, RequestTypes, OnARow, Steps,
       Goto, Assign
  <2> QED
    BY <2>1, <2>2
<1>8. ASSUME NEW p \in Requests, CreatorLinks(p)
      PROVE  DocumentTypes' /\ RequestTypes'
  <2>1. who[p] \in Users /\ row[p] \in Rows
    BY <1>8, HasRow DEF CreatorLinks, Goto, OnARow, Steps
  <2>2. DocumentTypes'
    <3>1. PICK l \in Nat : link' = [link EXCEPT ![who[p]][row[p]] = l]
      BY <1>8, InsertLinkEffect DEF CreatorLinks, LinkIds
    <3> QED
      BY <1>8, <2>1, <3>1 DEF CreatorLinks, DocumentTypes
  <2>3. RequestTypes'
    BY <1>8 DEF CreatorLinks, Goto, RequestTypes, Steps, OnARow
  <2> QED
    BY <2>2, <2>3
<1>9. ASSUME NEW p \in Requests, CreatorInsertsRun(p)
      PROVE  DocumentTypes' /\ RequestTypes'
  <2>1. row[p] \in Rows
    BY <1>9, HasRow DEF CreatorInsertsRun, End, Goto, OnARow, Steps
  <2>2. DocumentTypes'
    BY <1>9, <2>1 DEF CreatorInsertsRun, DocumentTypes, AddToCount
  <2>3. RequestTypes'
    BY <1>9, EndTypes DEF CreatorInsertsRun, Steps
  <2> QED
    BY <2>2, <2>3
<1>10. ASSUME NEW p \in Requests, CreatorCollides(p)
      PROVE  DocumentTypes' /\ RequestTypes'
  <2>1. DocumentTypes'
    BY <1>10 DEF CreatorCollides, DocumentTypes
  <2>2. PICK from \in {"insert", "link", "run"} : Goto(p, from, "bykey")
    BY <1>10 DEF CreatorCollides
  <2>3. ver[p] \in Versions
    BY <2>2 DEF Goto, RequestTypes
  <2>4. RequestTypes'
    BY <1>10, <2>2, <2>3, GotoTypes DEF CreatorCollides, Steps, OnARow
  <2> QED
    BY <2>1, <2>4
<1>11. ASSUME NEW p \in Requests, FindByKey(p)
      PROVE  DocumentTypes' /\ RequestTypes'
  <2>1. DocumentTypes'
    BY <1>11 DEF FindByKey, DocumentTypes
  <2>2. CASE End(p, "bykey") /\ UNCHANGED rowVars
    BY <2>1, <2>2, EndTypes DEF Steps
  <2>3. ASSUME NEW r \in Inserted, Goto(p, "bykey", "acquire"),
               row' = Assign(row, p, r),
               UNCHANGED <<rowVars, link, current, who, ver, held, ranSeen>>
        PROVE  RequestTypes'
    <3>1. r \in Rows
      BY DEF DocumentTypes
    <3> QED
      BY <2>3, <3>1, GotoTypes DEF Steps, OnARow
  <2> QED
    BY <1>11, <2>1, <2>2, <2>3 DEF FindByKey
<1>12. ASSUME NEW p \in Requests, AcquireSlot(p)
      PROVE  DocumentTypes' /\ RequestTypes'
  <2>1. row[p] \in Rows
    BY <1>12, HasRow DEF AcquireSlot, Goto, OnARow, Steps
  <2>2. DocumentTypes'
    BY <1>12, <2>1 DEF AcquireSlot, DocumentTypes, AddToCount
  <2>3. RequestTypes'
    BY <1>12 DEF AcquireSlot, RequestTypes, OnARow, Steps, Goto
  <2> QED
    BY <2>2, <2>3
<1>13. ASSUME NEW p \in Requests, AcquireNotFound(p)
      PROVE  DocumentTypes' /\ RequestTypes'
  <2>1. DocumentTypes'
    BY <1>13 DEF AcquireNotFound, DocumentTypes, RequestTypes
  <2>2. RequestTypes'
    BY <1>13, EndTypes DEF AcquireNotFound, Steps
  <2> QED
    BY <2>1, <2>2
<1>14. ASSUME NEW p \in Requests, LinkHolder(p)
      PROVE  DocumentTypes' /\ RequestTypes'
  <2>1. who[p] \in Users /\ row[p] \in Rows
    BY <1>14, HasRow DEF LinkHolder, End, Goto, OnARow, Steps
  <2>2. DocumentTypes'
    <3>1. PICK l \in Nat : link' = [link EXCEPT ![who[p]][row[p]] = l]
      BY <1>14, InsertLinkEffect DEF LinkHolder, LinkIds
    <3> QED
      BY <1>14, <2>1, <3>1 DEF LinkHolder, DocumentTypes
  <2>3. RequestTypes'
    BY <1>14, EndTypes DEF LinkHolder, Steps
  <2> QED
    BY <2>2, <2>3
<1>15. ASSUME NEW p \in Requests, LinkExists(p)
      PROVE  DocumentTypes' /\ RequestTypes'
  <2>1. DocumentTypes'
    BY <1>15 DEF LinkExists, DocumentTypes
  <2>2. RequestTypes'
    BY <1>15 DEF LinkExists, RequestTypes, OnARow, Steps, Goto, Assign
  <2> QED
    BY <2>1, <2>2
<1>16. ASSUME NEW p \in Requests, UndoSlot(p)
      PROVE  DocumentTypes' /\ RequestTypes'
  <2>1. row[p] \in Rows
    BY <1>16, HasRow DEF UndoSlot, End, Goto, OnARow, Steps
  <2>2. DocumentTypes'
    BY <1>16, <2>1 DEF UndoSlot, DocumentTypes, AddToCount
  <2>3. RequestTypes'
    BY <1>16, EndTypes DEF UndoSlot, Steps
  <2> QED
    BY <2>2, <2>3
<1>17. ASSUME NEW p \in Requests, Decide(p)
      PROVE  DocumentTypes' /\ RequestTypes'
  <2>1. row[p] \in Rows
    BY <1>17, HasRow DEF Decide, End, Goto, OnARow, Steps
  <2>2. CASE /\ Goto(p, "decide", "find")
             /\ ver' = Assign(ver, p, current) /\ row' = Assign(row, p, None)
             /\ UNCHANGED <<rowVars, link, current, who, held, ranSeen>>
    BY <2>2 DEF DocumentTypes, RequestTypes, Steps, OnARow, Assign, Goto
  <2>3. CASE End(p, "decide") /\ started' = started \cup {row[p]}
             /\ UNCHANGED <<rows, version, ran, count, link, current>>
    BY <2>1, <2>3, EndTypes DEF DocumentTypes, Steps
  <2> QED
    BY <1>17, <2>2, <2>3 DEF Decide
<1>18. ASSUME NEW p \in Requests, Unlink(p)
      PROVE  DocumentTypes' /\ RequestTypes'
  <2>1. DocumentTypes'
    BY <1>18 DEF Unlink, DocumentTypes
  <2>2. RequestTypes'
    BY <1>18 DEF Unlink, RequestTypes, OnARow, Steps, Goto, Assign
  <2> QED
    BY <2>1, <2>2
<1>19. ASSUME NEW p \in Requests, ReleaseSlot(p)
      PROVE  DocumentTypes' /\ RequestTypes'
  <2>1. row[p] \in Rows
    BY <1>19, HasRow DEF ReleaseSlot, End, Goto, OnARow, Steps
  <2>2. DocumentTypes'
    BY <1>19, <2>1 DEF ReleaseSlot, DocumentTypes, AddToCount
  <2>3. RequestTypes'
    BY <1>19, EndTypes DEF ReleaseSlot, Steps
  <2> QED
    BY <2>2, <2>3
<1>20. ASSUME NEW p \in Requests, SaveLink(p)
      PROVE  DocumentTypes' /\ RequestTypes'
  <2>1. DocumentTypes'
    BY <1>20 DEF SaveLink, DocumentTypes, RequestTypes
  <2>2. RequestTypes'
    BY <1>20, EndTypes DEF SaveLink, Steps
  <2> QED
    BY <2>1, <2>2
<1>21. ASSUME NEW p \in Requests, Crash(p)
      PROVE  DocumentTypes' /\ RequestTypes'
  <2>1. DocumentTypes'
    BY <1>21 DEF Crash, DocumentTypes, RequestTypes
  <2>2. RequestTypes'
    BY <1>21, EndTypes DEF Crash, Steps
  <2> QED
    BY <2>1, <2>2
<1>22. ASSUME NEW r \in Rows, RunStamps(r)
      PROVE  DocumentTypes' /\ RequestTypes'
  <2>1. DocumentTypes'
    BY <1>22 DEF RunStamps, DocumentTypes
  <2>2. RequestTypes'
    BY <1>22 DEF RunStamps, RequestTypes, OnARow, Steps, Goto, Assign
  <2> QED
    BY <2>1, <2>2
<1>23. ASSUME NEW v \in Versions, Deploy(v)
      PROVE  DocumentTypes' /\ RequestTypes'
  <2>1. DocumentTypes'
    BY <1>23 DEF Deploy, DocumentTypes
  <2>2. RequestTypes'
    BY <1>23 DEF Deploy, RequestTypes, OnARow, Steps, Goto, Assign
  <2> QED
    BY <2>1, <2>2
<1>24. CASE UNCHANGED vars
  BY <1>24 DEF vars, DocumentTypes, RequestTypes
<1> QED
  BY <1>1, <1>2, <1>3, <1>4, <1>5, <1>6, <1>7, <1>8, <1>9, <1>10, <1>11, <1>12, <1>13, <1>14, <1>15, <1>16, <1>17, <1>18, <1>19, <1>20, <1>21, <1>22, <1>23, <1>24
  DEF Next, Begin, RequestStep

(* Every variable keeps its type, and a request past its lookups works on a *)
(* row that exists, for a user, at the version it fetched.                 *)
THEOREM TypeAlways == Spec => []TypeOK
BY TypeInit, TypeStep, PTL DEF Spec

\* From here on the types are used as one fact.
USE DEF DocumentTypes, RequestTypes

-----------------------------------------------------------------------------
(* The slots of a row: every holder has one, and so has every request that *)
(* has claimed one and not linked its user yet, or has unlinked its user   *)
(* and not released it yet.                                                *)
SlotSteps == {"link", "linking", "undo", "release"}

Pending(r) == {p \in Requests : row[p] = r /\ pc[p] \in SlotSteps}

SlotInv ==
    \A r \in Rows : Cardinality(Holders(r)) + Cardinality(Pending(r)) <= count[r]

\* The link that a request is about to delete or save is still the one it
\* read, and nobody else is about to delete it.
LeaverInv ==
    \A p \in Requests :
        pc[p] \in {"drop", "save"} =>
            /\ link[who[p]][row[p]] = held[p]
            /\ \A q \in Requests :
                   pc[q] = "drop" /\ who[q] = who[p] /\ row[q] = row[p] => q = p

\* Nobody holds a row before it is inserted.
NewRowInv == \A u \in Users : \A r \in Rows \ Inserted : link[u][r] = None

Slots == TypeOK /\ NewRowInv /\ LeaverInv /\ SlotInv

\* A request works on its own: the others stay where they are.
OthersStay(p) ==
    \A q \in Requests \ {p} :
        pc'[q] = pc[q] /\ who'[q] = who[q] /\ row'[q] = row[q] /\ held'[q] = held[q]

(* Both sets of a row are finite, whatever the links and the requests are.  *)
LEMMA SlotsFinite ==
  ASSUME NEW r
  PROVE  /\ IsFiniteSet(Holders(r)) /\ Cardinality(Holders(r)) \in Nat
         /\ IsFiniteSet(Pending(r)) /\ Cardinality(Pending(r)) \in Nat
<1>1. Holders(r) \subseteq Users /\ Pending(r) \subseteq Requests
  BY DEF Holders, Pending
<1> QED
  BY <1>1, FinitelyManyAssumption, FS_Subset, FS_CardinalityType

(* Cardinalities of the sets that a step leads to.                         *)
LEMMA Within ==
  ASSUME NEW S, IsFiniteSet(S), NEW T, T \subseteq S
  PROVE  Cardinality(T) \in Nat /\ Cardinality(T) <= Cardinality(S)
BY FS_Subset, FS_CardinalityType

LEMMA OneMore ==
  ASSUME NEW S, IsFiniteSet(S), NEW x, NEW T, T \subseteq S \cup {x}
  PROVE  Cardinality(T) \in Nat /\ Cardinality(T) <= Cardinality(S) + 1
<1>1. IsFiniteSet(S \cup {x}) /\ Cardinality(S \cup {x}) <= Cardinality(S) + 1
  <2>1. Cardinality(S) \in Nat
    BY FS_CardinalityType
  <2> QED
    BY <2>1, FS_AddElement
<1> QED
  BY <1>1, Within, FS_CardinalityType

LEMMA OneLess ==
  ASSUME NEW S, IsFiniteSet(S), NEW x \in S, NEW T, T \subseteq S \ {x}
  PROVE  Cardinality(T) \in Nat /\ Cardinality(T) <= Cardinality(S) - 1
<1>1. IsFiniteSet(S \ {x}) /\ Cardinality(S \ {x}) = Cardinality(S) - 1
  BY FS_RemoveElement
<1> QED
  BY <1>1, Within, FS_CardinalityType

(* One request moves at a time.                                            *)
LEMMA OneMoves ==
  ASSUME TypeOK, NEW p \in Requests, Begin(p) \/ RequestStep(p) \/ Crash(p)
  PROVE  OthersStay(p)
BY DEF TypeOK, OthersStay, Begin, RequestStep, Crash, locals,
       BeginAnalyze, BeginJoin, BeginRelaunch, BeginDelete, BeginSave, ReadLink,
       Find, InsertRow, CreatorLinks, CreatorInsertsRun, CreatorCollides,
       FindByKey, AcquireSlot, AcquireNotFound, LinkHolder, LinkExists,
       UndoSlot, Decide, Unlink, ReleaseSlot, SaveLink, Goto, End, Assign

(* A request that is not about to delete or save disturbs no leaver.        *)
LEMMA Leaves ==
  ASSUME LeaverInv, NEW p \in Requests, OthersStay(p),
         pc'[p] \notin {"drop", "save"}, UNCHANGED link
  PROVE  LeaverInv'
BY DEF LeaverInv, OthersStay

(* A step that takes no slot and makes no link keeps the counters above.    *)
LEMMA NoNewSlot ==
  ASSUME TypeOK, SlotInv, NEW p \in Requests, OthersStay(p),
         pc'[p] \in SlotSteps => pc[p] \in SlotSteps /\ row'[p] = row[p],
         UNCHANGED <<link, count>>
  PROVE  SlotInv'
<1> SUFFICES ASSUME NEW r \in Rows
             PROVE  (Cardinality(Holders(r)) + Cardinality(Pending(r)) <= count[r])'
  BY DEF SlotInv
<1>1. Holders(r)' = Holders(r) /\ count'[r] = count[r]
  BY DEF Holders
<1>2. Pending(r)' \subseteq Pending(r)
  BY DEF Pending, OthersStay
<1>3. Cardinality(Pending(r)') \in Nat /\ Cardinality(Pending(r)') <= Cardinality(Pending(r))
  BY <1>2, SlotsFinite, Within
<1> QED
  BY <1>1, <1>3, SlotsFinite DEF SlotInv, TypeOK

(* A request links its user with the slot it has.                          *)
LEMMA SlotToLink ==
  ASSUME TypeOK, NewRowInv, LeaverInv, SlotInv, NEW p \in Requests, OthersStay(p),
         pc[p] \in {"link", "linking"}, pc'[p] \notin SlotSteps \cup {"drop", "save"},
         InsertLink(who[p], row[p]), UNCHANGED <<rows, count>>
  PROVE  NewRowInv' /\ LeaverInv' /\ SlotInv'
<1>1. who[p] \in Users /\ row[p] \in Inserted /\ row[p] \in Rows
  BY HasRow DEF TypeOK, OnARow, Steps
<1>2. PICK l \in LinkIds : link' = [link EXCEPT ![who[p]][row[p]] = l]
  BY InsertLinkEffect
<1>3. link[who[p]][row[p]] = None
  BY InsertLinkEffect
<1>4. NewRowInv'
  BY <1>1, <1>2 DEF NewRowInv, Inserted, TypeOK
<1>5. LeaverInv'
  <2> SUFFICES ASSUME NEW q \in Requests, (pc[q] \in {"drop", "save"})'
               PROVE  (/\ link[who[q]][row[q]] = held[q]
                       /\ \A o \in Requests :
                            pc[o] = "drop" /\ who[o] = who[q] /\ row[o] = row[q]
                                => o = q)'
    BY DEF LeaverInv
  <2>1. q # p /\ pc[q] \in {"drop", "save"} /\ held[q] # None
    BY DEF OthersStay, TypeOK
  <2>2. who[q] \in Users /\ row[q] \in Rows
    BY <2>1, HasRow DEF TypeOK, OnARow, Steps
  <2>3. link'[who[q]][row[q]] = link[who[q]][row[q]]
    BY <1>1, <1>2, <1>3, <2>1, <2>2 DEF LeaverInv, TypeOK
  <2> QED
    BY <2>1, <2>3 DEF LeaverInv, OthersStay
<1>6. ASSUME NEW r \in Rows
      PROVE  (Cardinality(Holders(r)) + Cardinality(Pending(r)) <= count[r])'
  <2>1. CASE r = row[p]
    <3>1. Holders(r)' \subseteq Holders(r) \cup {who[p]}
      BY <1>1, <1>2, <2>1 DEF Holders, TypeOK
    <3>2. p \in Pending(r) /\ Pending(r)' \subseteq Pending(r) \ {p}
      BY <2>1 DEF Pending, OthersStay, SlotSteps
    <3>3. /\ Cardinality(Holders(r)') \in Nat
          /\ Cardinality(Holders(r)') <= Cardinality(Holders(r)) + 1
      BY <3>1, SlotsFinite, OneMore
    <3>4. /\ Cardinality(Pending(r)') \in Nat
          /\ Cardinality(Pending(r)') <= Cardinality(Pending(r)) - 1
      BY <3>2, SlotsFinite, OneLess
    <3> QED
      BY <3>3, <3>4, SlotsFinite DEF SlotInv, TypeOK
  <2>2. CASE r # row[p]
    <3>1. Holders(r)' = Holders(r)
      BY <1>1, <1>2, <2>2 DEF Holders, TypeOK
    <3>2. Pending(r)' = Pending(r)
      BY <2>2 DEF Pending, OthersStay
    <3> QED
      BY <3>1, <3>2 DEF SlotInv
  <2> QED
    BY <2>1, <2>2
<1> QED
  BY <1>4, <1>5, <1>6 DEF SlotInv

(* The accounts are inductive: one step per kind of action, by what it does *)
(* to links, slots and counters.                                            *)
LEMMA SlotsStep ==
  ASSUME Overlapping = {}, Slots, [Next]_vars
  PROVE  Slots'
<1> USE DEF Slots
<1>0. TypeOK'
  BY TypeStep
<1>1. ASSUME NEW p \in Requests, Begin(p)
      PROVE  Slots'
  <2>1. OthersStay(p) /\ pc[p] = "idle" /\ UNCHANGED <<link, count, rows>>
    BY <1>1, OneMoves DEF Begin, BeginAnalyze, BeginJoin, BeginRelaunch,
       BeginDelete, BeginSave, ReadLink, Goto, rowVars
  <2>2. pc'[p] \in {"find", "acquire", "decide", "drop", "save"}
    BY <1>1 DEF Begin, BeginAnalyze, BeginJoin, BeginRelaunch, BeginDelete,
       BeginSave, ReadLink, Goto, TypeOK
  <2>3. SlotInv'
    BY <2>1, <2>2, NoNewSlot DEF SlotSteps
  <2>4. CASE pc'[p] \notin {"drop", "save"}
    BY <1>0, <2>1, <2>3, <2>4, Leaves DEF NewRowInv, Inserted
  <2>5. CASE pc'[p] \in {"drop", "save"}
    <3>1. PICK u \in Users, r \in Rows : BeginDelete(p, u, r) \/ BeginSave(p, u, r)
      BY <1>1, <2>5 DEF Begin, BeginAnalyze, BeginJoin, BeginRelaunch, Goto, TypeOK
    <3>2. /\ who'[p] = u /\ row'[p] = r /\ held'[p] = link[u][r]
          /\ \A q \in Requests :
                pc[q] = "drop" /\ who[q] = u /\ row[q] = r => held[q] # link[u][r]
          /\ pc'[p] = "drop" =>
                \A q \in Requests :
                  pc[q] = "save" /\ who[q] = u /\ row[q] = r => held[q] # link[u][r]
      BY <3>1 DEF BeginDelete, BeginSave, ReadLink, MayOverlap, Goto, Assign, TypeOK
    <3>3. LeaverInv'
      BY <2>1, <2>5, <3>2 DEF LeaverInv, OthersStay
    <3> QED
      BY <1>0, <2>1, <2>3, <3>3 DEF NewRowInv, Inserted
  <2> QED
    BY <2>4, <2>5
<1>2. ASSUME NEW p \in Requests,
             \/ Find(p) \/ CreatorInsertsRun(p) \/ CreatorCollides(p)
             \/ FindByKey(p) \/ AcquireNotFound(p) \/ LinkExists(p)
             \/ Decide(p) \/ Crash(p)
      PROVE  Slots'
  <2>1. OthersStay(p) /\ UNCHANGED <<link, count, rows>>
    BY <1>2, OneMoves DEF RequestStep, Find, CreatorInsertsRun, CreatorCollides,
       FindByKey, AcquireNotFound, LinkExists, Decide, Crash, rowVars
  <2>2. \/ pc'[p] \notin SlotSteps \cup {"drop", "save"}
        \/ pc[p] = "linking" /\ pc'[p] = "undo" /\ row'[p] = row[p]
    BY <1>2 DEF Find, CreatorInsertsRun, CreatorCollides, FindByKey,
       AcquireNotFound, LinkExists, Decide, Crash, locals, Goto, End, TypeOK,
       SlotSteps
  <2> QED
    BY <1>0, <2>1, <2>2, NoNewSlot, Leaves DEF NewRowInv, Inserted, SlotSteps
<1>3. ASSUME NEW p \in Requests, SaveLink(p)
      PROVE  Slots'
  <2>1. link[who[p]][row[p]] = held[p] /\ held[p] # None
    BY <1>3 DEF SaveLink, End, Goto, LeaverInv, TypeOK
  <2>2. /\ OthersStay(p) /\ UNCHANGED <<link, count, rows>>
        /\ pc'[p] = "idle"
    BY <1>3, <2>1, OneMoves DEF RequestStep, SaveLink, End, Goto, TypeOK, rowVars
  <2> QED
    BY <1>0, <2>2, NoNewSlot, Leaves DEF NewRowInv, Inserted, SlotSteps
<1>4. ASSUME NEW p \in Requests, CreatorLinks(p) \/ LinkHolder(p)
      PROVE  Slots'
  <2>1. /\ OthersStay(p) /\ UNCHANGED <<count, rows>>
        /\ pc[p] \in {"link", "linking"}
        /\ pc'[p] \in {"idle", "run"}
        /\ InsertLink(who[p], row[p])
    BY <1>4, OneMoves DEF RequestStep, CreatorLinks, LinkHolder, End, Goto,
       TypeOK, rowVars
  <2> QED
    BY <1>0, <2>1, SlotToLink DEF SlotSteps
<1>5. ASSUME NEW p \in Requests, InsertRow(p)
      PROVE  Slots'
  <2>1. /\ OthersStay(p) /\ rows' = rows + 1 /\ rows' \in Rows
        /\ UNCHANGED link
        /\ count' = [count EXCEPT ![rows'] = 1]
        /\ pc[p] = "insert" /\ pc'[p] = "link" /\ row'[p] = rows'
    <3>1. OthersStay(p)
      BY <1>5, OneMoves DEF RequestStep
    <3>2. rows' = rows + 1 /\ rows' \in Rows
      BY <1>5, LinkBoundsAssumption DEF InsertRow, TypeOK, Rows
    <3> QED
      BY <1>5, <3>1, <3>2 DEF InsertRow, Goto, Assign, TypeOK
  <2>2. NewRowInv' /\ LeaverInv'
    <3>1. Inserted \subseteq Inserted'
      BY <2>1 DEF Inserted, TypeOK
    <3> QED
      BY <2>1, <3>1, Leaves DEF NewRowInv
  <2>3. ASSUME NEW r \in Rows
        PROVE  (Cardinality(Holders(r)) + Cardinality(Pending(r)) <= count[r])'
    <3>1. Holders(r)' = Holders(r)
      BY <2>1 DEF Holders
    <3>2. CASE r = rows'
      <4>1. Holders(r) = {}
        BY <2>1, <3>2 DEF Holders, NewRowInv, Inserted, TypeOK, Rows
      <4>2. \A q \in Requests : pc[q] \in SlotSteps => row[q] # r
        BY <2>1, <3>2 DEF TypeOK, SlotSteps, OnARow, Steps, Inserted
      <4>3. Pending(r)' \subseteq {} \cup {p}
        BY <2>1, <4>2 DEF Pending, OthersStay
      <4>4. Cardinality(Pending(r)') \in Nat /\ Cardinality(Pending(r)') <= 1
        <5>1. IsFiniteSet({}) /\ Cardinality({}) = 0
          BY FS_EmptySet
        <5> QED
          BY <4>3, <5>1, OneMore
      <4>5. Cardinality(Holders(r)') = 0
        BY <3>1, <4>1, FS_EmptySet
      <4>6. count'[r] = 1
        BY <2>1, <3>2 DEF TypeOK
      <4> QED
        BY <4>4, <4>5, <4>6
    <3>3. CASE r # rows'
      <4>1. Pending(r)' = Pending(r) /\ count'[r] = count[r]
        BY <2>1, <3>3 DEF Pending, OthersStay, TypeOK, SlotSteps
      <4> QED
        BY <3>1, <4>1 DEF SlotInv
    <3> QED
      BY <3>2, <3>3
  <2> QED
    BY <1>0, <2>2, <2>3 DEF SlotInv
<1>6. ASSUME NEW p \in Requests, AcquireSlot(p)
      PROVE  Slots'
  <2>1. /\ OthersStay(p) /\ row[p] \in Rows /\ UNCHANGED <<link, rows>>
        /\ count' = [count EXCEPT ![row[p]] = @ + 1]
        /\ pc[p] = "acquire" /\ pc'[p] = "linking" /\ row'[p] = row[p]
    BY <1>6, OneMoves, HasRow
    DEF RequestStep, AcquireSlot, AddToCount, Goto, locals, TypeOK,
        OnARow, Steps
  <2>2. NewRowInv' /\ LeaverInv'
    BY <2>1, Leaves DEF NewRowInv, Inserted
  <2>3. ASSUME NEW r \in Rows
        PROVE  (Cardinality(Holders(r)) + Cardinality(Pending(r)) <= count[r])'
    <3>1. Holders(r)' = Holders(r)
      BY <2>1 DEF Holders
    <3>2. CASE r = row[p]
      <4>1. Pending(r)' \subseteq Pending(r) \cup {p}
        BY <2>1 DEF Pending, OthersStay
      <4>2. /\ Cardinality(Pending(r)') \in Nat
            /\ Cardinality(Pending(r)') <= Cardinality(Pending(r)) + 1
        BY <4>1, SlotsFinite, OneMore
      <4>3. count'[r] = count[r] + 1
        BY <2>1, <3>2 DEF TypeOK
      <4> QED
        BY <3>1, <4>2, <4>3, SlotsFinite DEF SlotInv, TypeOK
    <3>3. CASE r # row[p]
      <4>1. Pending(r)' = Pending(r) /\ count'[r] = count[r]
        BY <2>1, <3>3 DEF Pending, OthersStay, TypeOK
      <4> QED
        BY <3>1, <4>1 DEF SlotInv
    <3> QED
      BY <3>2, <3>3
  <2> QED
    BY <1>0, <2>2, <2>3 DEF SlotInv
<1>7. ASSUME NEW p \in Requests, UndoSlot(p) \/ ReleaseSlot(p)
      PROVE  Slots'
  <2>1. /\ OthersStay(p) /\ row[p] \in Rows /\ UNCHANGED <<link, rows>>
        /\ count' = [count EXCEPT ![row[p]] = @ + -1]
        /\ pc[p] \in {"undo", "release"} /\ pc'[p] = "idle"
    BY <1>7, OneMoves, HasRow
    DEF RequestStep, UndoSlot, ReleaseSlot, AddToCount, End, Goto, TypeOK,
        OnARow, Steps
  <2>2. NewRowInv' /\ LeaverInv'
    BY <2>1, Leaves DEF NewRowInv, Inserted
  <2>3. ASSUME NEW r \in Rows
        PROVE  (Cardinality(Holders(r)) + Cardinality(Pending(r)) <= count[r])'
    <3>1. Holders(r)' = Holders(r)
      BY <2>1 DEF Holders
    <3>2. CASE r = row[p]
      <4>1. p \in Pending(r) /\ Pending(r)' \subseteq Pending(r) \ {p}
        BY <2>1, <3>2 DEF Pending, OthersStay, SlotSteps
      <4>2. /\ Cardinality(Pending(r)') \in Nat
            /\ Cardinality(Pending(r)') <= Cardinality(Pending(r)) - 1
        BY <4>1, SlotsFinite, OneLess
      <4>3. count'[r] = count[r] - 1
        BY <2>1, <3>2 DEF TypeOK
      <4> QED
        BY <3>1, <4>2, <4>3, SlotsFinite DEF SlotInv, TypeOK
    <3>3. CASE r # row[p]
      <4>1. Pending(r)' = Pending(r) /\ count'[r] = count[r]
        BY <2>1, <3>3 DEF Pending, OthersStay, TypeOK, SlotSteps
      <4> QED
        BY <3>1, <4>1 DEF SlotInv
    <3> QED
      BY <3>2, <3>3
  <2> QED
    BY <1>0, <2>2, <2>3 DEF SlotInv
<1>8. ASSUME NEW p \in Requests, Unlink(p)
      PROVE  Slots'
  <2>1. /\ OthersStay(p) /\ who[p] \in Users /\ row[p] \in Rows
        /\ UNCHANGED <<count, rows>>
        /\ pc[p] = "drop" /\ pc'[p] = "release" /\ row'[p] = row[p]
    BY <1>8, OneMoves, HasRow
    DEF RequestStep, Unlink, Goto, rowVars, locals, TypeOK, OnARow, Steps
  <2>2. link[who[p]][row[p]] = held[p] /\ held[p] # None
    BY <2>1 DEF LeaverInv, TypeOK
  <2>3. link' = [link EXCEPT ![who[p]][row[p]] = None]
    BY <1>8, <2>2 DEF Unlink
  <2>4. NewRowInv'
    BY <2>1, <2>3 DEF NewRowInv, Inserted, TypeOK
  <2>5. LeaverInv'
    <3> SUFFICES ASSUME NEW q \in Requests, (pc[q] \in {"drop", "save"})'
                 PROVE  (/\ link[who[q]][row[q]] = held[q]
                         /\ \A o \in Requests :
                              pc[o] = "drop" /\ who[o] = who[q] /\ row[o] = row[q]
                                  => o = q)'
      BY DEF LeaverInv
    <3>1. q # p /\ pc[q] \in {"drop", "save"}
      BY <2>1 DEF OthersStay
    <3>2. who[q] \in Users /\ row[q] \in Rows
      BY <3>1, HasRow DEF TypeOK, OnARow, Steps
    <3>3. ~(who[q] = who[p] /\ row[q] = row[p])
      BY <2>1, <3>1 DEF LeaverInv
    <3>4. link'[who[q]][row[q]] = link[who[q]][row[q]]
      BY <2>1, <2>3, <3>2, <3>3 DEF TypeOK
    <3> QED
      BY <2>1, <3>1, <3>4 DEF LeaverInv, OthersStay
  <2>6. ASSUME NEW r \in Rows
        PROVE  (Cardinality(Holders(r)) + Cardinality(Pending(r)) <= count[r])'
    <3>1. CASE r = row[p]
      <4>1. /\ who[p] \in Holders(r)
            /\ Holders(r)' \subseteq Holders(r) \ {who[p]}
        BY <2>1, <2>2, <2>3, <3>1 DEF Holders, TypeOK, None
      <4>2. Pending(r)' \subseteq Pending(r) \cup {p}
        BY <2>1 DEF Pending, OthersStay
      <4>3. /\ Cardinality(Holders(r)') \in Nat
            /\ Cardinality(Holders(r)') <= Cardinality(Holders(r)) - 1
        BY <4>1, SlotsFinite, OneLess
      <4>4. /\ Cardinality(Pending(r)') \in Nat
            /\ Cardinality(Pending(r)') <= Cardinality(Pending(r)) + 1
        BY <2>1, <4>2, SlotsFinite, OneMore
      <4> QED
        BY <2>1, <4>3, <4>4, SlotsFinite DEF SlotInv, TypeOK
    <3>2. CASE r # row[p]
      <4>1. Holders(r)' = Holders(r)
        BY <2>1, <2>3, <3>2 DEF Holders, TypeOK
      <4>2. Pending(r)' = Pending(r)
        BY <2>1, <3>2 DEF Pending, OthersStay
      <4> QED
        BY <2>1, <4>1, <4>2 DEF SlotInv
    <3> QED
      BY <3>1, <3>2
  <2> QED
    BY <1>0, <2>4, <2>5, <2>6 DEF SlotInv
<1>9. ASSUME UNCHANGED <<rows, count, link, pc, locals>>
      PROVE  Slots'
  BY <1>0, <1>9 DEF NewRowInv, Inserted, LeaverInv, SlotInv, Holders, Pending, locals
<1> QED
  BY <1>1, <1>2, <1>3, <1>4, <1>5, <1>6, <1>7, <1>8, <1>9
  DEF Next, RequestStep, RunStamps, Deploy, vars, rowVars

(* The slots are an invariant of what the server does while no request     *)
(* deletes a link that another request is about to delete or to save.      *)
LEMMA SlotsAlways == Overlapping = {} /\ Spec => []Slots
<1> SUFFICES ASSUME Overlapping = {}
             PROVE  Spec => []Slots
  OBVIOUS
<1>1. Init => Slots
  <2> SUFFICES ASSUME Init
               PROVE  NewRowInv /\ LeaverInv /\ SlotInv
    BY TypeInit DEF Slots
  <2>1. NewRowInv /\ LeaverInv
    BY DEF Init, NewRowInv, LeaverInv, Inserted
  <2>2. ASSUME NEW r \in Rows
        PROVE  Holders(r) = {} /\ Pending(r) = {} /\ count[r] = 0
    BY DEF Init, Holders, Pending, SlotSteps
  <2> QED
    BY <2>1, <2>2, FS_EmptySet DEF SlotInv
<1>2. Slots /\ [Next]_vars => Slots'
  BY SlotsStep
<1> QED
  BY <1>1, <1>2, PTL DEF Spec

(* The counter of a row is never below the number of its holders, however  *)
(* many users join, leave and crash in between, as long as no two requests *)
(* remove or rewrite one link at once (`user_count`, RepoDocument).         *)
THEOREM CounterBoundsHolders == Overlapping = {} /\ Spec => []CountBoundsLinks
<1>1. Slots => CountBoundsLinks
  BY SlotsFinite DEF Slots, SlotInv, CountBoundsLinks, TypeOK
<1> QED
  BY <1>1, SlotsAlways, PTL

-----------------------------------------------------------------------------
(* What a step does to the rows that are alive: an inserted one has a free  *)
(* key, no other one comes to life, and none changes its key.               *)
LEMMA RowsStep ==
  ASSUME TypeOK, Next
  PROVE  \/ /\ UNCHANGED <<rows, version>>
            /\ \A r \in Rows : Alive(r)' => Alive(r)
         \/ \E v \in Versions :
              /\ rows' = rows + 1 /\ rows' \in Rows
              /\ KeyFree(v)
              /\ version' = [version EXCEPT ![rows'] = v]
              /\ count' = [count EXCEPT ![rows'] = 1]
<1>1. ASSUME NEW p \in Requests, InsertRow(p)
      PROVE  \E v \in Versions :
               /\ rows' = rows + 1 /\ rows' \in Rows
               /\ KeyFree(v)
               /\ version' = [version EXCEPT ![rows'] = v]
               /\ count' = [count EXCEPT ![rows'] = 1]
  <2>1. rows' = rows + 1 /\ rows' \in Rows
    BY <1>1, LinkBoundsAssumption DEF InsertRow, TypeOK, Rows
  <2>2. ver[p] \in Versions
    BY <1>1 DEF InsertRow, Goto, TypeOK
  <2> QED
    BY <1>1, <2>1, <2>2 DEF InsertRow
<1>2. ASSUME NEW p \in Requests, AcquireSlot(p)
      PROVE  /\ UNCHANGED <<rows, version>>
             /\ \A r \in Rows : Alive(r)' => Alive(r)
  BY <1>2 DEF AcquireSlot, AddToCount, Alive, Inserted, TypeOK
<1>3. ASSUME NEW p \in Requests, UndoSlot(p) \/ ReleaseSlot(p)
      PROVE  /\ UNCHANGED <<rows, version>>
             /\ \A r \in Rows : Alive(r)' => Alive(r)
  BY <1>3 DEF UndoSlot, ReleaseSlot, AddToCount, Alive, Inserted, TypeOK
<1>4. ASSUME NEW p \in Requests, Begin(p) \/ Crash(p)
      PROVE  UNCHANGED <<rows, version, count>>
  BY <1>4 DEF Begin, Crash, BeginAnalyze, BeginJoin, BeginRelaunch, BeginDelete,
     BeginSave, ReadLink, rowVars
<1>5. ASSUME NEW p \in Requests,
             \/ Find(p) \/ CreatorLinks(p) \/ CreatorInsertsRun(p)
             \/ CreatorCollides(p) \/ FindByKey(p) \/ AcquireNotFound(p)
             \/ LinkHolder(p) \/ LinkExists(p) \/ Decide(p) \/ Unlink(p)
             \/ SaveLink(p)
      PROVE  UNCHANGED <<rows, version, count>>
  BY <1>5 DEF Find, CreatorLinks, CreatorInsertsRun, CreatorCollides, FindByKey,
     AcquireNotFound, LinkHolder, LinkExists, Decide, Unlink, SaveLink, rowVars
<1>6. ASSUME UNCHANGED <<rows, version, count>>
      PROVE  UNCHANGED <<rows, version>> /\ \A r \in Rows : Alive(r)' => Alive(r)
  BY <1>6 DEF Alive, Inserted
<1>7. (\E r \in Rows : RunStamps(r)) \/ (\E v \in Versions : Deploy(v))
        => UNCHANGED <<rows, version, count>>
  BY DEF RunStamps, Deploy, rowVars
<1> QED
  BY <1>1, <1>2, <1>3, <1>4, <1>5, <1>6, <1>7 DEF Next, RequestStep

(* No two rows that somebody holds have the same key, whoever creates,     *)
(* joins, relaunches or leaves at the same time and whoever crashes (the   *)
(* partial unique indexes of RepoDocument).                                *)
THEOREM OneRowPerKey == Spec => []UniqueKey
<1>1. Init => UniqueKey
  BY DEF Init, UniqueKey, Alive, Inserted
<1>2. ASSUME TypeOK, UniqueKey, [Next]_vars
      PROVE  UniqueKey'
  <2>1. CASE UNCHANGED vars
    BY <1>2, <2>1 DEF vars, rowVars, UniqueKey, Alive, Inserted
  <2>2. CASE UNCHANGED <<rows, version>> /\ \A r \in Rows : Alive(r)' => Alive(r)
    BY <1>2, <2>2 DEF UniqueKey
  <2>3. ASSUME NEW v \in Versions,
               rows' = rows + 1, rows' \in Rows, KeyFree(v),
               version' = [version EXCEPT ![rows'] = v],
               count' = [count EXCEPT ![rows'] = 1]
        PROVE  UniqueKey'
    <3>1. ASSUME NEW r \in Rows, Alive(r)', r # rows'
          PROVE  r \in Inserted /\ Alive(r) /\ version'[r] = version[r] /\ version[r] # v
      BY <1>2, <2>3, <3>1 DEF Alive, Inserted, KeyFree, FoundByKey, TypeOK, Rows
    <3>2. version'[rows'] = v
      BY <1>2, <2>3 DEF TypeOK
    <3> QED
      BY <1>2, <3>1, <3>2 DEF UniqueKey
  <2> QED
    BY <1>2, <2>1, <2>2, <2>3, RowsStep
<1> QED
  BY <1>1, <1>2, TypeAlways, PTL DEF Spec

(* A row whose counter has fallen to zero is never brought back, by any    *)
(* interleaving of requests (_acquire_repo_link claims a slot on a row     *)
(* somebody holds, or none).                                               *)
THEOREM ZeroStaysFinal == Spec => ZeroIsFinal
<1>1. ASSUME TypeOK, [Next]_vars
      PROVE  [\A r \in Inserted : count[r] <= 0 => count'[r] <= 0]_vars
  <2> SUFFICES ASSUME Next, NEW r \in Inserted, count[r] <= 0
               PROVE  count'[r] <= 0
    BY <1>1
  <2>1. r \in Rows /\ ~Alive(r)
    BY <1>1, LinkBoundsAssumption DEF TypeOK, Inserted, Rows, Alive
  <2>2. CASE UNCHANGED <<rows, version>> /\ \A q \in Rows : Alive(q)' => Alive(q)
    <3>1. ~Alive(r)' /\ r \in Inserted'
      BY <2>1, <2>2 DEF Inserted
    <3>2. count'[r] \in Int
      BY <1>1, <2>1, TypeStep DEF TypeOK
    <3> QED
      BY <3>1, <3>2 DEF Alive, Inserted
  <2>3. CASE rows' = rows + 1 /\ count' = [count EXCEPT ![rows'] = 1]
    BY <1>1, <2>1, <2>3 DEF TypeOK, Inserted
  <2> QED
    BY <1>1, <2>2, <2>3, RowsStep
<1> QED
  BY <1>1, TypeAlways, PTL DEF Spec, ZeroIsFinal
=============================================================================
