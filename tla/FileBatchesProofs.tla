-------------------------- MODULE FileBatchesProofs --------------------------
(***************************************************************************)
(* Proofs about FileBatches, for every number of files, runs and crashes,  *)
(* every size of batches, chunks and retries, and every set of texts that  *)
(* the language model may answer with.                                     *)
(***************************************************************************)
EXTENDS FileBatches, FiniteSetTheorems, FunctionTheorems,
        TLAPS

(***************************************************************************)
(* The inductive invariant.  The counters of a bulk insert are bounded by  *)
(* the documents it has dealt with, not by all those of its batch: without *)
(* that, a duplicate could be counted on top of itself.                    *)
(***************************************************************************)

DealtWith(b) == b \ (bulk[b].todo \cup bulk[b].throttled)

BatchInv(b) ==
    /\ bulk[b].todo \subseteq b /\ bulk[b].throttled \subseteq b
    /\ bulk[b].todo \cap bulk[b].throttled = {}
    /\ bulk[b].ok <= Cardinality(DealtWith(b) \cap catalog)
    /\ bulk[b].ok + bulk[b].bad + Cardinality(bulk[b].todo)
         + Cardinality(bulk[b].throttled) = Cardinality(b)

\* A coroutine generates only what is not documented yet, and indexes only
\* what is stored; the index follows the store.
FileInv(f) ==
    /\ at[f] \in {"generate", "save"} => documentation[f] = None
    /\ at[f] = "save" => holds[f] # None
    /\ at[f] = "index" => holds[f] # None /\ holds[f] = documentation[f]
    /\ index[f] # None => index[f] = documentation[f]

\* What is counted for a file is stored.
ResultInv(f) ==
    /\ phase = "analyze" /\ at[f] \notin {"waiting", "file"} => result[f] # None
    /\ result[f] # None => /\ result[f].file => f \in catalog
                           /\ result[f].graphs <= Cardinality(Covered(f))
                           /\ result[f].graphs + result[f].lost
                                = IF result[f].built THEN Cardinality(Graphs) ELSE 0
                           /\ result[f].doc => documentation[f] # None
                           /\ result[f].rag => index[f] # None

Backed(s) ==
    /\ s.files <= Cardinality(catalog)
    /\ s.graphs <= Cardinality(CoveredPairs)
    /\ s.graphs + s.lost = (Targeted - s.unbuilt) * Cardinality(Graphs)
    /\ s.docs <= Cardinality(Documented)
    /\ s.rags <= Cardinality(Indexed)
    /\ s.files + s.failed = Targeted + Others

Browsable == Targeted + Others > 0 => catalog # {}

\* What each phase of the orchestration may rely on.
PhaseInv ==
    /\ phase = "catalog" => \A f \in TargetedFiles : at[f] = "waiting"
    /\ phase = "analyze" => \A b \in CatalogBatches : Returned(b)
    /\ phase \in {"summarize", "complete"} => stats # None /\ Browsable
    /\ phase = "complete" => summary # None
    /\ status = "completed" => phase = "ended" /\ summary # None /\ Browsable

TotalsInv ==
    /\ stats # None => Backed(stats)
    /\ summary # None => Backed(summary)

Persisting ==
    /\ TypeOK
    /\ \A b \in CatalogBatches : BatchInv(b)
    /\ \A f \in TargetedFiles : FileInv(f) /\ ResultInv(f)
    /\ PhaseInv
    /\ TotalsInv

-----------------------------------------------------------------------------
(* Batches.                                                                *)

LEMMA MultipleHasFactor ==
  ASSUME NEW B \in Nat, B > 0, NEW x \in Nat, x % B = 0
  PROVE  \E q \in Nat : x = B * q
BY Z3

(* Of two multiples of B, the greater is at least B greater.                *)
LEMMA MultiplesApart ==
  ASSUME NEW B \in Nat, B > 0, NEW x \in Nat, NEW y \in Nat,
         x % B = 0, y % B = 0, x < y
  PROVE  x + B <= y
<1>1. PICK p \in Nat : x = B * p
  BY MultipleHasFactor
<1>2. PICK q \in Nat : y = B * q
  BY MultipleHasFactor
<1>3. B * p < B * q => B * (p + 1) <= B * q /\ B * (p + 1) = B * p + B
  OBVIOUS
<1> QED
  BY <1>1, <1>2, <1>3

(* The batches of an interval of files are disjoint, and make it up.        *)
LEMMA SlicesPartition ==
  ASSUME NEW lo \in Nat, NEW hi \in Nat
  PROVE  LET S == Slices(lo..hi)
         IN  /\ UNION S = lo..hi
             /\ \A b, c \in S : b # c => b \cap c = {}
<1> DEFINE files == lo..hi
           S == Slices(files)
<1>1. BatchSize \in Nat /\ BatchSize > 0
  BY CountsAssumption
<1>2. ASSUME files # {}
      PROVE  Min(files) = lo
  BY <1>2 DEF Min
<1>3. \A b \in S : \E i \in files :
          /\ (i - lo) % BatchSize = 0
          /\ b = {g \in files : i <= g /\ g < i + BatchSize}
  BY <1>2 DEF Slices
<1>4. files \subseteq UNION S
  <2> SUFFICES ASSUME NEW f \in files
               PROVE  \E b \in S : f \in b
    OBVIOUS
  <2> DEFINE i == f - ((f - lo) % BatchSize)
  <2>1. /\ f - lo \in Nat
        /\ (f - lo) % BatchSize \in 0..(BatchSize - 1)
        /\ (f - lo) % BatchSize <= f - lo
        /\ ((f - lo) - ((f - lo) % BatchSize)) % BatchSize = 0
    BY <1>1
  <2>2. i \in files /\ i - lo = (f - lo) - ((f - lo) % BatchSize)
    BY <2>1, <1>1
  <2>3. (i - lo) % BatchSize = 0 /\ i <= f /\ f < i + BatchSize
    BY <2>1, <2>2, <1>1
  <2>4. {g \in files : i <= g /\ g < i + BatchSize} \in S
    BY <1>2, <2>2, <2>3 DEF Slices
  <2> QED
    BY <2>3, <2>4
<1>5. ASSUME NEW b \in S, NEW c \in S, NEW f \in b, f \in c
      PROVE  b = c
  <2>1. PICK i \in files : /\ (i - lo) % BatchSize = 0
                           /\ b = {g \in files : i <= g /\ g < i + BatchSize}
    BY <1>3
  <2>2. PICK j \in files : /\ (j - lo) % BatchSize = 0
                           /\ c = {g \in files : j <= g /\ g < j + BatchSize}
    BY <1>3
  <2>3. f \in Nat /\ i <= f /\ f < i + BatchSize /\ j <= f /\ f < j + BatchSize
    BY <1>5, <2>1, <2>2
  <2>4. i - lo \in Nat /\ j - lo \in Nat
    OBVIOUS
  <2>5. ~(i < j)
    <3> SUFFICES ASSUME i < j
                 PROVE  FALSE
      OBVIOUS
    <3>1. (i - lo) + BatchSize <= j - lo
      BY <1>1, <2>1, <2>2, <2>4, MultiplesApart
    <3> QED
      BY <1>1, <2>3, <3>1
  <2>6. ~(j < i)
    <3> SUFFICES ASSUME j < i
                 PROVE  FALSE
      OBVIOUS
    <3>1. (j - lo) + BatchSize <= i - lo
      BY <1>1, <2>1, <2>2, <2>4, MultiplesApart
    <3> QED
      BY <1>1, <2>3, <3>1
  <2> QED
    BY <2>1, <2>2, <2>5, <2>6
<1> QED
  BY <1>3, <1>4, <1>5

LEMMA FilesAreFinite ==
  /\ IsFiniteSet(TargetedFiles) /\ IsFiniteSet(OtherFiles)
  /\ Cardinality(TargetedFiles) = Targeted /\ Cardinality(OtherFiles) = Others
  /\ TargetedFiles \cap OtherFiles = {}
<1>1. /\ 1 \in Int /\ Targeted \in Int
      /\ Targeted + 1 \in Int /\ Targeted + Others \in Int
  BY CountsAssumption
<1>2. IsFiniteSet(1..Targeted) /\ Cardinality(1..Targeted) = Targeted
  <2>1. /\ IsFiniteSet(1..Targeted)
        /\ Cardinality(1..Targeted) = IF 1 > Targeted THEN 0 ELSE Targeted - 1 + 1
    BY <1>1, FS_Interval
  <2>2. Targeted \in Nat /\ (1 > Targeted => Targeted = 0)
    BY CountsAssumption
  <2> QED
    BY <2>1, <2>2
<1>3. /\ IsFiniteSet(Targeted + 1 .. Targeted + Others)
      /\ Cardinality(Targeted + 1 .. Targeted + Others) = Others
  <2> DEFINE lo == Targeted + 1
             hi == Targeted + Others
  <2>1. /\ IsFiniteSet(lo..hi)
        /\ Cardinality(lo..hi) = IF lo > hi THEN 0 ELSE hi - lo + 1
    BY <1>1, FS_Interval
  <2>2. IF lo > hi THEN Others = 0 ELSE Others = hi - lo + 1
    BY CountsAssumption
  <2> HIDE DEF lo, hi
  <2>3. Cardinality(lo..hi) = Others
    BY <2>1, <2>2
  <2> QED
    BY <2>1, <2>3 DEF lo, hi
<1>4. TargetedFiles \cap OtherFiles = {}
  BY CountsAssumption DEF TargetedFiles, OtherFiles
<1> QED
  BY <1>2, <1>3, <1>4 DEF TargetedFiles, OtherFiles

LEMMA CatalogBatchesPartition ==
  /\ UNION CatalogBatches = OtherFiles
  /\ \A b \in CatalogBatches : b \subseteq OtherFiles /\ IsFiniteSet(b)
  /\ \A b, c \in CatalogBatches : b # c => b \cap c = {}
<1>1. Targeted + 1 \in Nat /\ Targeted + Others \in Nat
  BY CountsAssumption
<1>2. /\ UNION CatalogBatches = OtherFiles
      /\ \A b, c \in CatalogBatches : b # c => b \cap c = {}
  BY <1>1, SlicesPartition DEF CatalogBatches, OtherFiles
<1>3. ASSUME NEW b \in CatalogBatches
      PROVE  b \subseteq OtherFiles /\ IsFiniteSet(b)
  BY <1>2, FilesAreFinite, FS_Subset
<1> QED
  BY <1>2, <1>3

-----------------------------------------------------------------------------
(* Sums.  A sum of counters is the number of pairs of a batch (or a file)  *)
(* and a number up to its counter.                                         *)

Pairs(n) == UNION {{b} \X (1..n[b]) : b \in DOMAIN n}

\* Each counter is bounded by a set of what it counts, apart from the others.
Bounds(S, part, n) ==
    /\ n \in [S -> Nat]
    /\ \A b \in S : n[b] <= Cardinality(part[b])
    /\ \A b, c \in S : b # c => part[b] \cap part[c] = {}

\* The counters are the sizes of those sets, which make up C.
Fills(S, part, n, C) ==
    /\ \A b \in S : n[b] = Cardinality(part[b])
    /\ \A x \in C : \E b \in S : x \in part[b]

(* The sum of counters of disjoint parts of C is bounded by the size of C,  *)
(* and is that size if the counters are exact and the parts make up C.      *)
LEMMA SumIsBounded ==
  ASSUME NEW S, NEW C, IsFiniteSet(C), NEW part \in [S -> SUBSET C],
         NEW n, Bounds(S, part, n)
  PROVE  /\ IsFiniteSet(Pairs(n))
         /\ Cardinality(Pairs(n)) <= Cardinality(C)
         /\ Fills(S, part, n, C) => Cardinality(Pairs(n)) = Cardinality(C)
<1> USE DEF Bounds
<1> DEFINE K(b) == Cardinality(part[b])
           count == [b \in S |-> CHOOSE g : g \in Bijection(1..K(b), part[b])]
           h == [p \in Pairs(n) |-> count[p[1]][p[2]]]
<1>1. ASSUME NEW b \in S
      PROVE  K(b) \in Nat /\ count[b] \in Bijection(1..K(b), part[b])
  <2>1. IsFiniteSet(part[b])
    BY FS_Subset
  <2>2. K(b) \in Nat /\ ExistsBijection(1..K(b), part[b])
    BY <2>1, FS_CardinalityType
  <2> QED
    BY <2>2 DEF ExistsBijection
<1>2. ASSUME NEW p \in Pairs(n)
      PROVE  /\ p[1] \in S /\ p[2] \in 1..n[p[1]] /\ p[2] \in 1..K(p[1])
             /\ p = <<p[1], p[2]>>
  <2>1. p[1] \in S /\ p[2] \in 1..n[p[1]] /\ p = <<p[1], p[2]>>
    BY DEF Pairs
  <2>2. n[p[1]] \in Nat /\ K(p[1]) \in Nat /\ n[p[1]] <= K(p[1])
    BY <2>1, <1>1
  <2> QED
    BY <2>1, <2>2
<1>3. ASSUME NEW p \in Pairs(n)
      PROVE  h[p] \in part[p[1]] /\ h[p] \in C
  <2>1. count[p[1]] \in [1..K(p[1]) -> part[p[1]]]
    BY <1>1, <1>2 DEF Bijection, Injection
  <2>2. h[p] \in part[p[1]]
    BY <1>2, <2>1
  <2> QED
    BY <1>2, <2>2
<1>4. h \in Injection(Pairs(n), C)
  <2>1. h \in [Pairs(n) -> C]
    BY <1>3
  <2>2. ASSUME NEW p \in Pairs(n), NEW q \in Pairs(n), h[p] = h[q]
        PROVE  p = q
    <3>1. p[1] = q[1]
      <4>1. h[p] \in part[p[1]] /\ h[p] \in part[q[1]]
        BY <1>3, <2>2
      <4>2. p[1] \in S /\ q[1] \in S
        BY <1>2
      <4> QED
        BY <4>1, <4>2
    <3>2. count[p[1]][p[2]] = count[p[1]][q[2]]
      BY <2>2, <3>1
    <3>3. p[2] \in 1..K(p[1]) /\ q[2] \in 1..K(p[1])
      BY <1>2, <3>1
    <3>4. p[2] = q[2]
      <4>1. count[p[1]] \in Injection(1..K(p[1]), part[p[1]])
        BY <1>1, <1>2 DEF Bijection
      <4> HIDE DEF count, K
      <4>2. \A k, l \in 1..K(p[1]) :
                count[p[1]][k] = count[p[1]][l] => k = l
        <5> DEFINE g == count[p[1]]
                   U == 1..K(p[1])
                   V == part[p[1]]
        <5>1. g \in Injection(U, V)
          BY <4>1
        <5> HIDE DEF g, U, V
        <5>2. \A k, l \in U : g[k] = g[l] => k = l
          BY <5>1, Fun_InjectionProperties
        <5> QED
          BY <5>2 DEF g, U
      <4> QED
        BY <4>2, <3>2, <3>3
    <3> QED
      BY <1>2, <3>1, <3>4
  <2> QED
    BY <2>1, <2>2 DEF Injection, IsInjective
<1>5. ASSUME Fills(S, part, n, C)
      PROVE  h \in Surjection(Pairs(n), C)
  <2>1. \A b \in S : n[b] = K(b)
    BY <1>5 DEF Fills
  <2>2. ASSUME NEW x \in C
        PROVE  \E p \in Pairs(n) : h[p] = x
    <3>1. PICK b \in S : x \in part[b]
      BY <1>5 DEF Fills
    <3>2. PICK k \in 1..K(b) : count[b][k] = x
      BY <3>1, <1>1 DEF Bijection, Surjection
    <3>3. <<b, k>> \in Pairs(n)
      BY <2>1, <3>2 DEF Pairs
    <3> QED
      BY <3>2, <3>3
  <2> QED
    BY <1>4, <2>2 DEF Surjection, Injection
<1> QED
  BY <1>4, <1>5, FS_Injection

(* The sum of two counters is the sum of their sums.                        *)
LEMMA SumOfSums ==
  ASSUME NEW S, NEW n \in [S -> Nat], NEW m \in [S -> Nat],
         IsFiniteSet(Pairs([b \in S |-> n[b] + m[b]]))
  PROVE  /\ IsFiniteSet(Pairs(n)) /\ IsFiniteSet(Pairs(m))
         /\ Cardinality(Pairs(n)) + Cardinality(Pairs(m))
              = Cardinality(Pairs([b \in S |-> n[b] + m[b]]))
<1> DEFINE T == Pairs([b \in S |-> n[b] + m[b]])
           Rest == T \ Pairs(n)
           shift == [p \in Rest |-> <<p[1], p[2] - n[p[1]]>>]
<1>1. \A x : x \in T <=> \E b \in S : \E k \in 1..(n[b] + m[b]) : x = <<b, k>>
  BY DEF Pairs
<1>2. \A x : x \in Pairs(n) <=> \E b \in S : \E k \in 1..n[b] : x = <<b, k>>
  BY DEF Pairs
<1>3. \A x : x \in Pairs(m) <=> \E b \in S : \E k \in 1..m[b] : x = <<b, k>>
  BY DEF Pairs
<1>4. Pairs(n) \subseteq T
  BY <1>1, <1>2
<1>5. ASSUME NEW x
      PROVE  x \in Rest <=>
               \E b \in S : \E k \in (n[b] + 1)..(n[b] + m[b]) : x = <<b, k>>
  BY <1>1, <1>2
<1>6. shift \in [Rest -> Pairs(m)]
  <2> SUFFICES ASSUME NEW p \in Rest
               PROVE  shift[p] \in Pairs(m)
    OBVIOUS
  <2>1. PICK b \in S : \E k \in (n[b] + 1)..(n[b] + m[b]) : p = <<b, k>>
    BY <1>5
  <2>2. PICK k \in (n[b] + 1)..(n[b] + m[b]) : p = <<b, k>>
    BY <2>1
  <2>3. k - n[b] \in 1..m[b] /\ shift[p] = <<b, k - n[b]>>
    BY <2>2
  <2> QED
    BY <1>3, <2>3
<1>7. ASSUME NEW p \in Rest, NEW q \in Rest, shift[p] = shift[q]
      PROVE  p = q
  <2>1. PICK b \in S, k \in Int : p = <<b, k>>
    BY <1>5
  <2>2. PICK c \in S, l \in Int : q = <<c, l>>
    BY <1>5
  <2>3. b = c /\ k - n[b] = l - n[c]
    BY <1>7, <2>1, <2>2
  <2> QED
    BY <2>1, <2>2, <2>3
<1>8. ASSUME NEW y \in Pairs(m)
      PROVE  \E p \in Rest : shift[p] = y
  <2>1. PICK b \in S : \E k \in 1..m[b] : y = <<b, k>>
    BY <1>3
  <2>2. PICK k \in 1..m[b] : y = <<b, k>>
    BY <2>1
  <2>3. n[b] + k \in (n[b] + 1)..(n[b] + m[b]) /\ (n[b] + k) - n[b] = k
    OBVIOUS
  <2>4. <<b, n[b] + k>> \in Rest
    BY <1>5, <2>3
  <2> QED
    BY <2>2, <2>3, <2>4
<1>9. shift \in Bijection(Rest, Pairs(m))
  BY <1>6, <1>7, <1>8 DEF Bijection, Injection, Surjection, IsInjective
<1>10. IsFiniteSet(Rest) /\ IsFiniteSet(Pairs(n))
  BY <1>4, FS_Difference, FS_Subset
<1>11. IsFiniteSet(Pairs(m)) /\ Cardinality(Pairs(m)) = Cardinality(Rest)
  BY <1>9, <1>10, FS_Bijection DEF ExistsBijection
<1>12. Cardinality(Rest) = Cardinality(T) - Cardinality(Pairs(n))
  <2>1. T \cap Pairs(n) = Pairs(n)
    BY <1>4
  <2> QED
    BY <2>1, FS_Difference
<1>13. Cardinality(T) \in Nat /\ Cardinality(Pairs(n)) \in Nat
  BY <1>10, FS_CardinalityType
<1> QED
  BY <1>10, <1>11, <1>12, <1>13

-----------------------------------------------------------------------------
(* Bulk inserts.                                                           *)

LEMMA DisjointUnion ==
  ASSUME NEW S, IsFiniteSet(S), NEW T, IsFiniteSet(T), S \cap T = {}
  PROVE  /\ IsFiniteSet(S \cup T)
         /\ Cardinality(S) \in Nat /\ Cardinality(T) \in Nat
         /\ Cardinality(S \cup T) = Cardinality(S) + Cardinality(T)
<1>1. /\ IsFiniteSet(S \cup T)
      /\ Cardinality(S \cup T)
           = Cardinality(S) + Cardinality(T) - Cardinality(S \cap T)
  BY FS_Union
<1>2. Cardinality(S \cap T) = 0
  BY FS_EmptySet
<1>3. Cardinality(S) \in Nat /\ Cardinality(T) \in Nat
  BY FS_CardinalityType
<1> QED
  BY <1>1, <1>2, <1>3

(* The documents of a chunk, by their outcomes.                             *)
LEMMA OutcomesAddUp ==
  ASSUME NEW chunk, IsFiniteSet(chunk),
         NEW o \in [chunk -> {"stored", "duplicate", "throttled", "refused"}]
  PROVE  /\ \A code : With(o, code) \subseteq chunk /\ IsFiniteSet(With(o, code))
                      /\ Cardinality(With(o, code)) \in Nat
         /\ Cardinality(chunk) \in Nat
         /\ Cardinality(chunk) = Cardinality(With(o, "stored"))
              + Cardinality(With(o, "duplicate"))
              + Cardinality(With(o, "throttled")) + Cardinality(With(o, "refused"))
         /\ Cardinality(chunk) - Cardinality(chunk \ With(o, "stored"))
              = Cardinality(With(o, "stored"))
<1> DEFINE A == With(o, "stored")
           B == With(o, "duplicate")
           C == With(o, "throttled")
           D == With(o, "refused")
<1>1. ASSUME NEW code
      PROVE  /\ With(o, code) \subseteq chunk /\ IsFiniteSet(With(o, code))
             /\ Cardinality(With(o, code)) \in Nat
  <2>1. With(o, code) \subseteq chunk
    BY DEF With
  <2> QED
    BY <2>1, FS_Subset, FS_CardinalityType
<1>2. /\ A \cap B = {} /\ (A \cup B) \cap C = {} /\ (A \cup B \cup C) \cap D = {}
      /\ A \cup B \cup C \cup D = chunk
  BY DEF With
<1> HIDE DEF A, B, C, D
<1>3. /\ IsFiniteSet(A) /\ IsFiniteSet(B) /\ IsFiniteSet(C) /\ IsFiniteSet(D)
      /\ Cardinality(A) \in Nat /\ Cardinality(B) \in Nat
      /\ Cardinality(C) \in Nat /\ Cardinality(D) \in Nat
  BY <1>1 DEF A, B, C, D
<1>4. IsFiniteSet(A \cup B) /\ Cardinality(A \cup B) = Cardinality(A) + Cardinality(B)
  BY <1>2, <1>3, DisjointUnion
<1>5. /\ IsFiniteSet(A \cup B \cup C)
      /\ Cardinality(A \cup B \cup C) = Cardinality(A) + Cardinality(B) + Cardinality(C)
  BY <1>2, <1>3, <1>4, DisjointUnion
<1>6. Cardinality(A \cup B \cup C \cup D)
        = Cardinality(A) + Cardinality(B) + Cardinality(C) + Cardinality(D)
  BY <1>2, <1>3, <1>5, DisjointUnion
<1>7. Cardinality(chunk \ A) = Cardinality(chunk) - Cardinality(A)
  <2>1. chunk \cap A = A
    BY <1>2
  <2> QED
    BY <2>1, FS_Difference
<1>8. Cardinality(chunk) \in Nat
  BY FS_CardinalityType
<1>9. Cardinality(chunk) = Cardinality(A) + Cardinality(B) + Cardinality(C)
                             + Cardinality(D)
  BY <1>2, <1>6
<1>10. Cardinality(chunk) - Cardinality(chunk \ A) = Cardinality(A)
  BY <1>3, <1>7, <1>8
<1> QED
  BY <1>1, <1>8, <1>9, <1>10 DEF A, B, C, D

(* What is known of the batch of an insert.                                 *)
LEMMA BatchFacts ==
  ASSUME TypeOK, NEW b \in CatalogBatches, BatchInv(b)
  PROVE  /\ IsFiniteSet(b) /\ Cardinality(b) \in Nat /\ b \subseteq OtherFiles
         /\ bulk[b] \in BulkStates
         /\ IsFiniteSet(bulk[b].todo) /\ Cardinality(bulk[b].todo) \in Nat
         /\ IsFiniteSet(bulk[b].throttled)
         /\ Cardinality(bulk[b].throttled) \in Nat
         /\ bulk[b].ok \in Nat /\ bulk[b].bad \in Nat
<1>1. IsFiniteSet(b) /\ b \subseteq OtherFiles
  BY CatalogBatchesPartition
<1>2. bulk[b].todo \in SUBSET b /\ bulk[b].throttled \in SUBSET b
  BY DEF BatchInv
<1>3. bulk[b] \in BulkStates
  BY DEF TypeOK
<1>4. bulk[b].ok \in Nat /\ bulk[b].bad \in Nat
  BY <1>3 DEF BulkStates
<1>5. IsFiniteSet(bulk[b].todo) /\ IsFiniteSet(bulk[b].throttled)
  BY <1>1, <1>2, FS_Subset
<1> QED
  BY <1>1, <1>3, <1>4, <1>5, FS_CardinalityType

(* A fresh insert has dealt with nothing.                                   *)
LEMMA NewBulkIsConsistent ==
  ASSUME NEW b \in CatalogBatches, bulk'[b] = NewBulk(b)
  PROVE  BatchInv(b)' /\ bulk'[b] \in BulkStates
<1>1. IsFiniteSet(b) /\ b \subseteq OtherFiles
  BY CatalogBatchesPartition
<1>2. /\ bulk'[b].todo = b /\ bulk'[b].throttled = {} /\ bulk'[b].round = 1
      /\ bulk'[b].ok = 0 /\ bulk'[b].bad = 0
  BY DEF NewBulk
<1>3. DealtWith(b)' \cap catalog' = {} /\ Cardinality({}) = 0
  BY <1>2, FS_EmptySet DEF DealtWith
<1>4. Cardinality(b) \in Nat
  BY <1>1, FS_CardinalityType
<1>5. BatchInv(b)'
  <2>1. /\ Cardinality(bulk'[b].todo) = Cardinality(b)
        /\ Cardinality(bulk'[b].throttled) = 0
        /\ Cardinality(DealtWith(b)' \cap catalog') = 0
    BY <1>2, <1>3
  <2>2. bulk'[b].ok + bulk'[b].bad + Cardinality(bulk'[b].todo)
          + Cardinality(bulk'[b].throttled) = Cardinality(b)
    BY <1>2, <1>4, <2>1
  <2>3. bulk'[b].ok <= Cardinality(DealtWith(b)' \cap catalog')
    BY <1>2, <2>1
  <2> QED
    BY <1>2, <2>2, <2>3 DEF BatchInv
<1>6. 1 \in 1..MaxRounds
  BY CountsAssumption
<1> QED
  BY <1>1, <1>5, <1>6 DEF NewBulk, BulkStates

(* A catalog that grows leaves a batch that does not move consistent.       *)
LEMMA CatalogMayGrow ==
  ASSUME TypeOK, NEW b \in CatalogBatches, BatchInv(b),
         bulk'[b] = bulk[b], catalog \subseteq catalog'
  PROVE  BatchInv(b)'
<1>1. IsFiniteSet(DealtWith(b) \cap catalog')
  BY BatchFacts, FS_Subset DEF DealtWith
<1>2. DealtWith(b) \cap catalog \in SUBSET (DealtWith(b) \cap catalog')
  OBVIOUS
<1>3. Cardinality(DealtWith(b) \cap catalog)
        <= Cardinality(DealtWith(b) \cap catalog')
  BY <1>1, <1>2, FS_Subset
<1>4. IsFiniteSet(DealtWith(b) \cap catalog)
  BY <1>1, <1>2, FS_Subset
<1>5. /\ Cardinality(DealtWith(b) \cap catalog) \in Nat
      /\ Cardinality(DealtWith(b) \cap catalog') \in Nat
  BY <1>1, <1>4, FS_CardinalityType
<1>6. bulk[b].ok <= Cardinality(DealtWith(b) \cap catalog')
  BY <1>3, <1>5, BatchFacts DEF BatchInv
<1>7. DealtWith(b)' = DealtWith(b)
  BY DEF DealtWith
<1> QED
  BY <1>6, <1>7 DEF BatchInv

(* One insert_many: what is counted as a success is dealt with and stored.  *)
LEMMA InsertKeepsBatch ==
  ASSUME TypeOK, NEW b \in CatalogBatches, BatchInv(b), InsertChunk(b)
  PROVE  BatchInv(b)' /\ bulk'[b] \in BulkStates /\ catalog \subseteq catalog'
         /\ catalog' \subseteq TargetedFiles \cup OtherFiles
<1> DEFINE chunk == Chunk(bulk[b].todo)
           todo == bulk[b].todo
           throttled == bulk[b].throttled
<1>1. PICK o \in InsertOutcomes(chunk) :
          /\ bulk' = [bulk EXCEPT ![b] = Tally(@, o)]
          /\ catalog' = catalog \cup With(o, "stored")
  BY DEF InsertChunk
<1>2. /\ chunk \subseteq todo /\ todo \subseteq b /\ throttled \subseteq b
      /\ todo \cap throttled = {}
  BY DEF Chunk, BatchInv
<1>3. IsFiniteSet(chunk)
  BY <1>2, BatchFacts, FS_Subset
<1>4. /\ o \in [chunk -> {"stored", "duplicate", "throttled", "refused"}]
      /\ \A d \in chunk : /\ o[d] = "stored" => d \notin catalog
                          /\ o[d] = "duplicate" => d \in catalog
      /\ DOMAIN o = chunk
  BY DEF InsertOutcomes
<1> DEFINE A == With(o, "stored")
           B == With(o, "duplicate")
           C == With(o, "throttled")
           D == With(o, "refused")
<1>5. /\ A \subseteq chunk /\ B \subseteq chunk /\ C \subseteq chunk
      /\ A \cap B = {} /\ A \cap C = {} /\ B \cap C = {}
      /\ A \cap catalog = {} /\ B \subseteq catalog
  BY <1>4 DEF With
<1>6. /\ IsFiniteSet(A) /\ IsFiniteSet(B) /\ IsFiniteSet(C)
      /\ Cardinality(A) \in Nat /\ Cardinality(B) \in Nat
      /\ Cardinality(C) \in Nat /\ Cardinality(D) \in Nat
      /\ Cardinality(chunk) \in Nat
      /\ Cardinality(chunk)
           = Cardinality(A) + Cardinality(B) + Cardinality(C) + Cardinality(D)
      /\ Cardinality(chunk) - Cardinality(chunk \ A) = Cardinality(A)
  BY <1>3, <1>4, OutcomesAddUp
<1>7. bulk[b] \in BulkStates /\ bulk'[b] = Tally(bulk[b], o)
  BY <1>1, BatchFacts DEF TypeOK
<1>8. /\ bulk'[b].todo = todo \ chunk
      /\ bulk'[b].throttled = throttled \cup C
      /\ bulk'[b].round = bulk[b].round
      /\ bulk'[b].ok = bulk[b].ok + Cardinality(B)
                         + (Cardinality(chunk) - Cardinality(chunk \ A))
      /\ bulk'[b].bad = bulk[b].bad + Cardinality(D)
      /\ bulk'[b] = [todo |-> bulk'[b].todo, throttled |-> bulk'[b].throttled,
                     round |-> bulk'[b].round, ok |-> bulk'[b].ok,
                     bad |-> bulk'[b].bad]
  BY <1>4, <1>7 DEF Tally, BulkStates
<1> HIDE DEF A, B, C, D, chunk
<1>9. bulk'[b].ok = bulk[b].ok + Cardinality(B) + Cardinality(A)
  BY <1>6, <1>8
<1>10. Cardinality(bulk'[b].todo) = Cardinality(todo) - Cardinality(chunk)
  <2>1. todo \cap chunk = chunk
    BY <1>2
  <2>2. IsFiniteSet(todo)
    BY BatchFacts
  <2>3. Cardinality(todo \ chunk) = Cardinality(todo) - Cardinality(todo \cap chunk)
    BY <2>2, FS_Difference
  <2> QED
    BY <1>8, <2>1, <2>3
<1>11. Cardinality(bulk'[b].throttled) = Cardinality(throttled) + Cardinality(C)
  <2>1. throttled \cap C = {}
    BY <1>2, <1>5
  <2>2. IsFiniteSet(throttled) /\ Cardinality(throttled) \in Nat
    BY BatchFacts
  <2> QED
    BY <1>6, <1>8, <2>1, <2>2, DisjointUnion
<1>12. bulk'[b].ok <= Cardinality(DealtWith(b)' \cap catalog')
  <2> DEFINE E == DealtWith(b) \cap catalog
  <2>1. E \subseteq b /\ E \cap chunk = {}
    BY <1>2 DEF DealtWith
  <2>2. IsFiniteSet(E) /\ Cardinality(E) \in Nat
    BY <2>1, BatchFacts, FS_Subset, FS_CardinalityType
  <2>3. E \cup (A \cup B) \subseteq DealtWith(b)' \cap catalog'
    <3>1. DealtWith(b)' = b \ ((todo \ chunk) \cup (throttled \cup C))
      BY <1>8 DEF DealtWith
    <3>2. E \subseteq DealtWith(b)' /\ A \cup B \subseteq DealtWith(b)'
      BY <1>2, <1>5, <2>1, <3>1 DEF DealtWith
    <3> QED
      BY <1>1, <1>5, <3>2 DEF A
  <2>4. /\ IsFiniteSet(A \cup B)
        /\ Cardinality(A \cup B) = Cardinality(A) + Cardinality(B)
    BY <1>5, <1>6, DisjointUnion
  <2>5. E \cap (A \cup B) = {}
    BY <1>5, <2>1
  <2> HIDE DEF E
  <2>6. Cardinality(E \cup (A \cup B))
          = Cardinality(E) + Cardinality(A) + Cardinality(B)
    <3>1. Cardinality(E \cup (A \cup B)) = Cardinality(E) + Cardinality(A \cup B)
      BY <2>2, <2>4, <2>5, DisjointUnion
    <3> QED
      BY <1>6, <2>2, <2>4, <3>1
  <2>7. IsFiniteSet(DealtWith(b)' \cap catalog')
    BY BatchFacts, FS_Subset DEF DealtWith
  <2>8. /\ Cardinality(E \cup (A \cup B)) <= Cardinality(DealtWith(b)' \cap catalog')
        /\ Cardinality(DealtWith(b)' \cap catalog') \in Nat
    BY <2>3, <2>7, FS_Subset, FS_CardinalityType
  <2>9. bulk[b].ok <= Cardinality(E) /\ bulk[b].ok \in Nat
    BY BatchFacts DEF BatchInv, E
  <2> QED
    BY <1>6, <1>9, <2>2, <2>6, <2>8, <2>9
<1>13. BatchInv(b)'
  <2>1. /\ bulk'[b].todo \subseteq b /\ bulk'[b].throttled \subseteq b
        /\ bulk'[b].todo \cap bulk'[b].throttled = {}
    BY <1>2, <1>5, <1>8
  <2>2. bulk'[b].ok + bulk'[b].bad + Cardinality(bulk'[b].todo)
          + Cardinality(bulk'[b].throttled) = Cardinality(b)
    <3>1. bulk[b].ok + bulk[b].bad + Cardinality(todo) + Cardinality(throttled)
            = Cardinality(b)
      BY DEF BatchInv
    <3> QED
      BY <1>6, <1>8, <1>9, <1>10, <1>11, <3>1, BatchFacts
  <2> QED
    BY <1>12, <2>1, <2>2 DEF BatchInv
<1>14. bulk'[b] \in BulkStates
  <2>1. bulk'[b].ok \in Nat /\ bulk'[b].bad \in Nat
    BY <1>6, <1>8, <1>9, BatchFacts
  <2>2. bulk'[b].round \in 1..MaxRounds
    BY <1>7, <1>8 DEF BulkStates
  <2>3. bulk'[b].todo \in SUBSET OtherFiles /\ bulk'[b].throttled \in SUBSET OtherFiles
    BY <1>2, <1>5, <1>8, BatchFacts
  <2> QED
    BY <1>8, <2>1, <2>2, <2>3 DEF BulkStates
<1>15. catalog' \subseteq TargetedFiles \cup OtherFiles
  BY <1>1, <1>2, <1>5, BatchFacts DEF TypeOK, A
<1> QED
  BY <1>1, <1>13, <1>14, <1>15

(* The end of a round.                                                      *)
LEMMA RequeueKeepsBatch ==
  ASSUME TypeOK, NEW b \in CatalogBatches, BatchInv(b), EndRound(b)
  PROVE  BatchInv(b)' /\ bulk'[b] \in BulkStates
<1> DEFINE old == bulk[b]
           new == bulk'[b]
<1>1. old \in BulkStates /\ new = Requeued(old) /\ catalog' = catalog /\ old.todo = {}
  BY BatchFacts DEF EndRound, TypeOK
<1>2. Cardinality({}) = 0
  BY FS_EmptySet
<1>3. MaxRounds \in Nat
  BY CountsAssumption
<1>4. CASE old.round < MaxRounds
  <2>1. new = [todo |-> old.throttled, throttled |-> {}, round |-> old.round + 1,
               ok |-> old.ok, bad |-> old.bad]
    BY <1>1, <1>4 DEF Requeued, BulkStates
  <2>2. new \in BulkStates
    BY <1>1, <1>3, <1>4, <2>1 DEF BulkStates
  <2>3. DealtWith(b)' = DealtWith(b)
    BY <1>1, <2>1 DEF DealtWith
  <2>10. /\ Cardinality(old.todo) = 0 /\ Cardinality(new.throttled) = 0
         /\ Cardinality(new.todo) = Cardinality(old.throttled)
    BY <1>1, <1>2, <2>1
  <2>11. /\ old.ok \in Nat /\ old.bad \in Nat
         /\ Cardinality(old.throttled) \in Nat /\ Cardinality(b) \in Nat
         /\ old.ok + old.bad + Cardinality(old.todo) + Cardinality(old.throttled)
              = Cardinality(b)
    BY BatchFacts DEF BatchInv
  <2>12. new.ok + new.bad + Cardinality(new.todo) + Cardinality(new.throttled)
           = Cardinality(b)
    BY <1>2, <2>1, <2>10, <2>11
  <2>13. new.ok <= Cardinality(DealtWith(b)' \cap catalog')
    BY <1>1, <2>1, <2>3 DEF BatchInv
  <2>14. /\ new.todo \subseteq b /\ new.throttled \subseteq b
         /\ new.todo \cap new.throttled = {}
    BY <2>1 DEF BatchInv
  <2> QED
    BY <2>2, <2>12, <2>13, <2>14 DEF BatchInv
<1>5. CASE ~(old.round < MaxRounds)
  <2>1. new = [todo |-> {}, throttled |-> {}, round |-> old.round,
               ok |-> old.ok, bad |-> old.bad + Cardinality(old.throttled)]
    BY <1>1, <1>5 DEF Requeued, BulkStates
  <2>2. new \in BulkStates
    BY <1>1, <2>1, BatchFacts DEF BulkStates
  <2>3. DealtWith(b) \cap catalog \in SUBSET (DealtWith(b)' \cap catalog)
        /\ DealtWith(b)' = b
    BY <1>1, <2>1 DEF DealtWith
  <2>4. IsFiniteSet(b \cap catalog)
    BY BatchFacts, FS_Subset
  <2>5. /\ Cardinality(DealtWith(b) \cap catalog) <= Cardinality(b \cap catalog)
        /\ IsFiniteSet(DealtWith(b) \cap catalog)
    BY <2>3, <2>4, FS_Subset
  <2>6. /\ Cardinality(b \cap catalog) \in Nat
        /\ Cardinality(DealtWith(b) \cap catalog) \in Nat
    BY <2>4, <2>5, FS_CardinalityType
  <2>7. old.ok <= Cardinality(b \cap catalog)
    BY <2>5, <2>6, BatchFacts DEF BatchInv
  <2>10. /\ Cardinality(old.todo) = 0 /\ Cardinality(new.throttled) = 0
         /\ Cardinality(new.todo) = Cardinality({})
    BY <1>1, <1>2, <2>1
  <2>11. /\ old.ok \in Nat /\ old.bad \in Nat
         /\ Cardinality(old.throttled) \in Nat /\ Cardinality(b) \in Nat
         /\ old.ok + old.bad + Cardinality(old.todo) + Cardinality(old.throttled)
              = Cardinality(b)
    BY BatchFacts DEF BatchInv
  <2>12. new.ok + new.bad + Cardinality(new.todo) + Cardinality(new.throttled)
           = Cardinality(b)
    BY <1>2, <2>1, <2>10, <2>11
  <2>13. new.ok <= Cardinality(DealtWith(b)' \cap catalog')
    BY <1>1, <2>1, <2>3, <2>7 DEF BatchInv
  <2>14. /\ new.todo \subseteq b /\ new.throttled \subseteq b
         /\ new.todo \cap new.throttled = {}
    BY <2>1 DEF BatchInv
  <2> QED
    BY <2>2, <2>12, <2>13, <2>14 DEF BatchInv
<1> QED
  BY <1>4, <1>5

-----------------------------------------------------------------------------
(* The coroutine of a file.                                                *)

\* What a step of a coroutine leaves alone, and what it only adds to.
LEMMA FileStepFrame ==
  ASSUME TypeOK, NEW f \in TargetedFiles, FileStep(f)
  PROVE  /\ phase = "analyze"
         /\ UNCHANGED <<orchestration, crashes, bulk, summary>>
         /\ catalog \subseteq catalog'
         /\ catalog' \subseteq TargetedFiles \cup OtherFiles
<1> USE DEF TypeOK, Step, Skip, Undocumented, artifacts
<1>1. ASSUME Enter(f) \/ Download(f) \/ PersistGraphs(f)
      PROVE  /\ phase = "analyze" /\ catalog' = catalog
             /\ UNCHANGED <<orchestration, crashes, bulk, summary>>
  BY <1>1 DEF Enter, Download, PersistGraphs
<1>2. ASSUME LookupDocumentation(f) \/ GenerateDocumentation(f)
             \/ SaveDocumentation(f) \/ IndexDocumentation(f)
      PROVE  /\ phase = "analyze" /\ catalog' = catalog
             /\ UNCHANGED <<orchestration, crashes, bulk, summary>>
  BY <1>2 DEF LookupDocumentation, GenerateDocumentation, SaveDocumentation,
     IndexDocumentation
<1>3. ASSUME PersistFile(f)
      PROVE  /\ phase = "analyze" /\ catalog' \in {catalog, catalog \cup {f}}
             /\ UNCHANGED <<orchestration, crashes, bulk, summary>>
  BY <1>3 DEF PersistFile
<1> QED
  BY <1>1, <1>2, <1>3 DEF FileStep

\* A step that stores no graph of a file.
LEMMA CoveredIsKept ==
  ASSUME NEW f \in TargetedFiles, graphs'[f] = graphs[f]
  PROVE  /\ Cardinality(Covered(f)') = Cardinality(Covered(f))
         /\ 0 <= Cardinality(Covered(f)')
<1>1. Cardinality(Covered(f)') = Cardinality(Covered(f))
  BY DEF Covered
<1>2. Cardinality(Covered(f)') \in Nat
  BY GraphsAssumption, FS_Subset, FS_CardinalityType DEF Covered
<1> QED
  BY <1>1, <1>2

\* What becomes of the graphs of a file: what is counted has its scope stored,
\* and the counters account for every graph.
GraphsCounted(f) ==
    /\ graphs' \in [TargetedFiles -> SUBSET Scopes(Graphs)]
    /\ \A g \in TargetedFiles : graphs[g] \subseteq graphs'[g]
    /\ result' \in [TargetedFiles -> FileResults \cup {None}]
    /\ result'[f] \in FileResults
    /\ \/ result' = result /\ graphs' = graphs
       \/ /\ result'[f].graphs <= Cardinality(Covered(f)')
          /\ result'[f].graphs + result'[f].lost = Cardinality(Graphs)
          /\ result'[f].built
    /\ result'[f].file = result[f].file
    /\ result'[f].doc = result[f].doc /\ result'[f].rag = result[f].rag
    /\ \A g \in TargetedFiles : g # f => result'[g] = result[g]

LEMMA GraphsAreCounted ==
  ASSUME TypeOK, NEW f \in TargetedFiles, PersistGraphs(f), result[f] \in FileResults
  PROVE  GraphsCounted(f)
<1> USE DEF TypeOK
<1>1. Cardinality(Graphs) \in Nat
  BY GraphsAssumption, FS_CardinalityType
<1>2. Cardinality(Covered(f)') \in Nat
  BY GraphsAssumption, FS_Subset, FS_CardinalityType DEF Covered
<1>3. ASSUME NEW ok \in Nat, NEW bad \in Nat,
             ok <= Cardinality(Covered(f)'), ok + bad = Cardinality(Graphs),
             result' = [result EXCEPT ![f] = Counting(@, ok, bad)],
             NEW stored \in SUBSET Graphs,
             graphs' = [graphs EXCEPT ![f] = @ \cup Scopes(stored)]
      PROVE  GraphsCounted(f)
  <2>1. /\ result'[f] = Counting(result[f], ok, bad)
        /\ \A g \in TargetedFiles : g # f => result'[g] = result[g]
    BY <1>3
  <2>2. LET r == Counting(result[f], ok, bad)
        IN  /\ r \in FileResults /\ r.graphs = ok /\ r.lost = bad /\ r.built
            /\ r.file = result[f].file /\ r.doc = result[f].doc
            /\ r.rag = result[f].rag
    BY DEF Counting, FileResults
  <2> HIDE DEF Counting
  <2>3. result' \in [TargetedFiles -> FileResults \cup {None}]
    BY <1>3, <2>2
  <2>4. /\ graphs' \in [TargetedFiles -> SUBSET Scopes(Graphs)]
        /\ \A g \in TargetedFiles : graphs[g] \subseteq graphs'[g]
    <3>1. Scopes(stored) \subseteq Scopes(Graphs)
      BY DEF Scopes
    <3> HIDE DEF Scopes
    <3> QED
      BY <1>3, <3>1
  <2> QED
    BY <1>3, <2>1, <2>2, <2>3, <2>4 DEF GraphsCounted
<1>4. CASE UNCHANGED <<graphs, result>>
  BY <1>4 DEF GraphsCounted
<1>5. ASSUME NEW o \in GraphOutcomes(f),
             graphs' = [graphs EXCEPT ![f] = @ \cup Scopes(With(o, "stored"))],
             result' = [result EXCEPT ![f] = CountGraphs(@, o)]
      PROVE  GraphsCounted(f)
  <2> DEFINE bad == With(o, "failed")
             ok == Graphs \ bad
  <2>1. /\ bad \subseteq Graphs /\ With(o, "stored") \subseteq Graphs
        /\ ok = With(o, "stored") \cup With(o, "duplicate")
        /\ Scopes(With(o, "duplicate")) \subseteq graphs[f] \cup Scopes(With(o, "stored"))
    BY DEF GraphOutcomes, With
  <2>2. ok \subseteq Covered(f)'
    <3>1. \A g \in ok : ScopeOf[g] \in graphs[f] \cup Scopes(With(o, "stored"))
      BY <2>1 DEF Scopes
    <3> QED
      BY <1>5, <2>1, <3>1 DEF Covered
  <2>3. IsFiniteSet(Covered(f)')
    BY GraphsAssumption, FS_Subset DEF Covered
  <2>4. /\ Cardinality(ok) <= Cardinality(Covered(f)')
        /\ IsFiniteSet(ok) /\ IsFiniteSet(bad)
    BY <2>1, <2>2, <2>3, GraphsAssumption, FS_Subset
  <2>5. Cardinality(ok) \in Nat /\ Cardinality(bad) \in Nat
    BY <2>4, FS_CardinalityType
  <2>6. Cardinality(ok) + Cardinality(bad) = Cardinality(Graphs)
    <3>1. Graphs \cap bad = bad
      BY <2>1
    <3>2. Cardinality(ok) = Cardinality(Graphs) - Cardinality(Graphs \cap bad)
      BY GraphsAssumption, FS_Difference
    <3> QED
      BY <1>1, <2>5, <3>1, <3>2
  <2>7. result' = [result EXCEPT ![f] = Counting(@, Cardinality(ok), Cardinality(bad))]
    BY <1>5 DEF CountGraphs
  <2> QED
    BY <1>3, <1>5, <2>1, <2>4, <2>5, <2>6, <2>7
<1>6. ASSUME NEW applied \in SUBSET Graphs,
             graphs' = [graphs EXCEPT ![f] = @ \cup Scopes(applied)],
             result' = [result EXCEPT ![f] = Counting(@, 0, Cardinality(Graphs))]
      PROVE  GraphsCounted(f)
  <2>1. 0 <= Cardinality(Covered(f)') /\ 0 + Cardinality(Graphs) = Cardinality(Graphs)
    BY <1>1, <1>2
  <2> QED
    BY <1>1, <1>3, <1>6, <2>1
<1> QED
  BY <1>4, <1>5, <1>6 DEF PersistGraphs

LEMMA FileStepTypes ==
  ASSUME TypeOK, \A g \in TargetedFiles : FileInv(g) /\ ResultInv(g),
         NEW f \in TargetedFiles, FileStep(f)
  PROVE  TypeOK'
<1> DEFINE Coroutines == /\ at' \in [TargetedFiles -> Steps]
                         /\ holds' \in [TargetedFiles -> Contents \cup {None}]
                         /\ result' \in [TargetedFiles -> FileResults \cup {None}]
           Artifacts ==
             /\ graphs' \in [TargetedFiles -> SUBSET Scopes(Graphs)]
             /\ documentation' \in [TargetedFiles -> Contents \cup {None}]
             /\ index' \in [TargetedFiles -> Contents \cup {None}]
<1> SUFFICES Coroutines /\ Artifacts
  BY FileStepFrame DEF TypeOK, orchestration
<1>1. at' \in [TargetedFiles -> Steps]
  BY DEF FileStep, Enter, PersistFile, Download, PersistGraphs,
     LookupDocumentation, GenerateDocumentation, SaveDocumentation,
     IndexDocumentation, Step, Skip, Undocumented, Steps, TypeOK
<1>2. phase = "analyze" /\ (at[f] \notin {"waiting", "file"} => result[f] \in FileResults)
  BY FileStepFrame DEF ResultInv, TypeOK
<1>3. Skipped \in FileResults
  BY DEF Skipped, FileResults
<1> USE DEF TypeOK, Step, artifacts
<1>4. ASSUME Enter(f)
      PROVE  Coroutines /\ Artifacts
  <2>1. UNCHANGED <<holds, result, graphs, documentation, index>>
    BY <1>4 DEF Enter
  <2> QED
    BY <1>1, <2>1
<1>5. ASSUME PersistFile(f)
      PROVE  Coroutines /\ Artifacts
  <2>1. [Skipped EXCEPT !.file = TRUE] \in FileResults
    BY DEF Skipped, FileResults
  <2>2. /\ UNCHANGED <<holds, graphs, documentation, index>>
        /\ \/ result' = [result EXCEPT ![f] = Skipped]
           \/ result' = [result EXCEPT ![f] = [Skipped EXCEPT !.file = TRUE]]
    BY <1>5 DEF PersistFile, Skip
  <2> HIDE DEF Skipped
  <2> QED
    BY <1>1, <1>3, <2>1, <2>2
<1>6. ASSUME Download(f)
      PROVE  Coroutines /\ Artifacts
  BY <1>1, <1>3, <1>6 DEF Download, Skip
<1>7. ASSUME PersistGraphs(f)
      PROVE  Coroutines /\ Artifacts
  <2>1. at[f] = "graphs" /\ UNCHANGED <<holds, documentation, index>>
    BY <1>7 DEF PersistGraphs
  <2>2. result[f] \in FileResults
    BY <1>2, <2>1
  <2> QED
    BY <1>1, <1>7, <2>1, <2>2, GraphsAreCounted DEF GraphsCounted
<1>8. ASSUME at[f] \notin {"waiting", "file"}
      PROVE  /\ [result EXCEPT ![f].doc = TRUE]
                  \in [TargetedFiles -> FileResults \cup {None}]
             /\ [result EXCEPT ![f].rag = TRUE]
                  \in [TargetedFiles -> FileResults \cup {None}]
  <2>1. result[f] \in FileResults
    BY <1>2, <1>8
  <2>2. /\ [result[f] EXCEPT !.doc = TRUE] \in FileResults
        /\ [result[f] EXCEPT !.rag = TRUE] \in FileResults
    BY <2>1 DEF FileResults
  <2> QED
    BY <2>2
<1>9. ASSUME LookupDocumentation(f)
      PROVE  Coroutines /\ Artifacts
  BY <1>1, <1>8, <1>9 DEF LookupDocumentation, Undocumented
<1>10. ASSUME GenerateDocumentation(f)
       PROVE  Coroutines /\ Artifacts
  BY <1>1, <1>10 DEF GenerateDocumentation, Undocumented
<1>11. ASSUME SaveDocumentation(f)
       PROVE  Coroutines /\ Artifacts
  <2>1. FirstText(f) \in Contents \cup {None}
    BY DEF FirstText
  <2>2. documentation' \in {documentation, [documentation EXCEPT ![f] = FirstText(f)]}
        /\ UNCHANGED <<graphs, index>>
    BY <1>11 DEF SaveDocumentation, Undocumented
  <2>3. Artifacts
    BY <2>1, <2>2
  <2>4. at[f] \notin {"waiting", "file"}
        /\ result' \in {result, [result EXCEPT ![f].doc = TRUE]}
        /\ holds' \in {holds, [holds EXCEPT ![f] = None]}
    BY <1>11 DEF SaveDocumentation, Undocumented
  <2>5. Coroutines
    BY <1>1, <1>8, <2>4
  <2> QED
    BY <2>3, <2>5
<1>12. ASSUME IndexDocumentation(f)
       PROVE  Coroutines /\ Artifacts
  BY <1>1, <1>8, <1>12 DEF IndexDocumentation
<1> QED
  BY <1>4, <1>5, <1>6, <1>7, <1>9, <1>10, <1>11, <1>12 DEF FileStep

(* The coroutine's own file, and the others, which it does not touch.       *)
LEMMA FileStepKeepsFiles ==
  ASSUME TypeOK, \A g \in TargetedFiles : FileInv(g) /\ ResultInv(g),
         NEW f \in TargetedFiles, FileStep(f)
  PROVE  \A g \in TargetedFiles : FileInv(g)' /\ ResultInv(g)'
<1>1. phase = "analyze" /\ phase' = phase /\ catalog \subseteq catalog'
  BY FileStepFrame DEF orchestration
<1>2. None \notin FileResults /\ None \notin Contents
  BY NoneAssumption
<1> USE DEF FileInv, ResultInv, TypeOK, Step, artifacts
<1>3. ASSUME NEW g \in TargetedFiles, g # f
      PROVE  FileInv(g)' /\ ResultInv(g)'
  <2>1. /\ at'[g] = at[g] /\ holds'[g] = holds[g] /\ result'[g] = result[g]
        /\ graphs'[g] = graphs[g] /\ documentation'[g] = documentation[g]
        /\ index'[g] = index[g]
    BY <1>3 DEF FileStep, Enter, PersistFile, Download, PersistGraphs,
       LookupDocumentation, GenerateDocumentation, SaveDocumentation,
       IndexDocumentation, Skip, Undocumented
  <2> QED
    BY <1>1, <2>1, CoveredIsKept
<1>4. at[f] \notin {"waiting", "file"} => result[f] \in FileResults
  BY <1>1
<1>5. ASSUME Enter(f)
      PROVE  FileInv(f)' /\ ResultInv(f)'
  BY <1>1, <1>5, CoveredIsKept DEF Enter
<1>6. ASSUME PersistFile(f)
      PROVE  FileInv(f)' /\ ResultInv(f)'
  <2>1. /\ Skipped \in FileResults /\ ~Skipped.file /\ ~Skipped.built
        /\ Skipped.graphs = 0 /\ Skipped.lost = 0 /\ ~Skipped.doc /\ ~Skipped.rag
    BY DEF Skipped, FileResults
  <2>2. LET r == [Skipped EXCEPT !.file = TRUE]
        IN  /\ r \in FileResults /\ ~r.built /\ r.graphs = 0 /\ r.lost = 0
            /\ ~r.doc /\ ~r.rag
    BY DEF Skipped, FileResults
  <2>3. CASE result' = [result EXCEPT ![f] = [Skipped EXCEPT !.file = TRUE]]
               /\ f \in catalog' /\ at' = [at EXCEPT ![f] = "download"]
    <3>1. /\ result'[f] = [Skipped EXCEPT !.file = TRUE] /\ UNCHANGED <<holds, artifacts>>
          /\ at'[f] = "download"
      BY <1>6, <2>3 DEF PersistFile, Skip
    <3>2. FileInv(f)'
      BY <3>1
    <3>3. /\ result'[f].graphs = 0 /\ result'[f].lost = 0 /\ ~result'[f].built
          /\ ~result'[f].doc /\ ~result'[f].rag /\ result'[f] # None
      BY <1>2, <2>2, <3>1
    <3>4. 0 <= Cardinality(Covered(f)')
      BY <3>1, CoveredIsKept
    <3>5. ResultInv(f)'
      BY <2>3, <3>1, <3>3, <3>4
    <3> QED
      BY <3>2, <3>5
  <2>4. CASE Skip(f, "file")
    BY <1>1, <1>2, <1>6, <2>1, <2>4, CoveredIsKept DEF PersistFile, Skip
  <2> QED
    BY <1>6, <2>3, <2>4 DEF PersistFile
<1>7. ASSUME Download(f)
      PROVE  FileInv(f)' /\ ResultInv(f)'
  <2>1. /\ Skipped \in FileResults /\ ~Skipped.file /\ ~Skipped.built
        /\ Skipped.graphs = 0 /\ Skipped.lost = 0 /\ ~Skipped.doc /\ ~Skipped.rag
    BY DEF Skipped, FileResults
  <2>2. CASE Skip(f, "download")
    BY <1>1, <1>2, <1>7, <2>1, <2>2, CoveredIsKept DEF Download, Skip
  <2>3. CASE ~Skip(f, "download")
    BY <1>1, <1>2, <1>7, <2>3, CoveredIsKept DEF Download
  <2> QED
    BY <2>2, <2>3
<1>8. ASSUME PersistGraphs(f)
      PROVE  FileInv(f)' /\ ResultInv(f)'
  <2>1. at[f] = "graphs" /\ at'[f] = "lookup"
        /\ UNCHANGED <<catalog, documentation, index>>
    BY <1>8 DEF PersistGraphs
  <2>2. result[f] \in FileResults
    BY <1>4, <2>1
  <2>3. FileInv(f)'
    BY <2>1
  <2>4. ResultInv(f)'
    <3>1. CASE result' = result /\ graphs' = graphs
      BY <1>1, <1>2, <2>1, <2>2, <3>1 DEF Covered
    <3>2. CASE ~(result' = result /\ graphs' = graphs)
      BY <1>1, <1>2, <1>8, <2>1, <2>2, <3>2, GraphsAreCounted DEF GraphsCounted
    <3> QED
      BY <3>1, <3>2
  <2> QED
    BY <2>3, <2>4
<1>9. ASSUME result[f] \in FileResults
      PROVE  /\ LET r == [result[f] EXCEPT !.doc = TRUE]
                IN  /\ r \in FileResults /\ r.graphs = result[f].graphs
                    /\ r.lost = result[f].lost /\ r.built = result[f].built
                    /\ r.file = result[f].file /\ r.rag = result[f].rag
             /\ LET r == [result[f] EXCEPT !.rag = TRUE]
                IN  /\ r \in FileResults /\ r.graphs = result[f].graphs
                    /\ r.lost = result[f].lost /\ r.built = result[f].built
                    /\ r.file = result[f].file /\ r.doc = result[f].doc
  BY <1>9 DEF FileResults
<1>10. ASSUME LookupDocumentation(f)
       PROVE  FileInv(f)' /\ ResultInv(f)'
  <2>1. result[f] \in FileResults
    BY <1>4, <1>10 DEF LookupDocumentation, Undocumented
  <2>2. CASE result' = [result EXCEPT ![f].doc = TRUE] /\ documentation[f] # None
    <3>1. /\ at'[f] \in {"index", "generate", "done"} /\ UNCHANGED <<artifacts, catalog>>
          /\ at'[f] = "index" => holds'[f] = documentation[f]
          /\ at'[f] = "generate" => documentation[f] = None
      BY <1>10 DEF LookupDocumentation, Undocumented
    <3>2. FileInv(f)'
      BY <2>2, <3>1
    <3>3. ResultInv(f)'
      BY <1>1, <1>2, <1>9, <2>1, <2>2, <3>1, CoveredIsKept
    <3> QED
      BY <3>2, <3>3
  <2>3. CASE result' = result
    <3>1. /\ at'[f] \in {"generate", "done", "index"} /\ UNCHANGED <<artifacts, catalog>>
          /\ at'[f] = "generate" => documentation[f] = None
          /\ at'[f] = "index" => holds'[f] = documentation[f] /\ documentation[f] # None
      BY <1>10 DEF LookupDocumentation, Undocumented
    <3> QED
      BY <1>1, <2>1, <2>3, <3>1, <1>2, CoveredIsKept
  <2> QED
    BY <1>10, <2>2, <2>3 DEF LookupDocumentation, Undocumented
<1>11. ASSUME GenerateDocumentation(f)
       PROVE  FileInv(f)' /\ ResultInv(f)'
  BY <1>1, <1>2, <1>4, <1>11, CoveredIsKept DEF GenerateDocumentation, Undocumented
<1>12. ASSUME SaveDocumentation(f)
       PROVE  FileInv(f)' /\ ResultInv(f)'
  <2>1. result[f] \in FileResults /\ documentation[f] = None /\ holds[f] # None
    BY <1>4, <1>12 DEF SaveDocumentation, Undocumented
  <2>2. FirstText(f) = holds[f] /\ index[f] = None
    BY <2>1 DEF FirstText
  <2>3. CASE /\ Step(f, "save", "index")
             /\ documentation' = [documentation EXCEPT ![f] = FirstText(f)]
             /\ result' = [result EXCEPT ![f].doc = TRUE]
             /\ UNCHANGED <<holds, catalog, graphs, index>>
    <3>1. FileInv(f)'
      BY <2>1, <2>2, <2>3
    <3>2. ResultInv(f)'
      BY <1>1, <1>2, <1>9, <2>1, <2>2, <2>3, CoveredIsKept
    <3> QED
      BY <3>1, <3>2
  <2>4. CASE /\ Undocumented(f, "save")
             /\ documentation' \in {documentation,
                                    [documentation EXCEPT ![f] = FirstText(f)]}
    <3>1. FileInv(f)'
      BY <2>1, <2>2, <2>4 DEF Undocumented
    <3>2. ResultInv(f)'
      BY <1>1, <1>2, <2>1, <2>2, <2>4, CoveredIsKept DEF Undocumented
    <3> QED
      BY <3>1, <3>2
  <2> QED
    BY <1>12, <2>3, <2>4 DEF SaveDocumentation
<1>13. ASSUME IndexDocumentation(f)
       PROVE  FileInv(f)' /\ ResultInv(f)'
  <2>1. result[f] \in FileResults /\ holds[f] # None /\ holds[f] = documentation[f]
    BY <1>4, <1>13 DEF IndexDocumentation
  <2>2. at'[f] = "done" /\ UNCHANGED <<catalog, graphs, documentation>>
        /\ index'[f] \in {index[f], documentation[f]}
    BY <1>13, <2>1 DEF IndexDocumentation
  <2>3. FileInv(f)'
    BY <2>2
  <2>4. CASE result' = result
    BY <2>1, <2>2, <2>4, <1>1, <1>2, CoveredIsKept
  <2>5. CASE result' = [result EXCEPT ![f].rag = TRUE] /\ index'[f] = documentation[f]
    <3>1. documentation[f] # None
      BY <2>1
    <3> QED
      BY <1>1, <1>2, <1>9, <2>1, <2>2, <2>3, <2>5, <3>1, CoveredIsKept
  <2> QED
    BY <1>13, <2>1, <2>4, <2>5 DEF IndexDocumentation
<1> QED
  BY <1>3, <1>5, <1>6, <1>7, <1>8, <1>10, <1>11, <1>12, <1>13 DEF FileStep

(* What a coroutine stores stays covered, documented and indexed.           *)
LEMMA FileStepOnlyAdds ==
  ASSUME TypeOK, NEW f \in TargetedFiles, FileInv(f), ResultInv(f), FileStep(f)
  PROVE  /\ CoveredPairs \subseteq CoveredPairs'
         /\ Documented \subseteq Documented' /\ Indexed \subseteq Indexed'
<1> USE DEF TypeOK, FileInv, Step, artifacts, Documented, Indexed
<1>1. ASSUME Enter(f) \/ PersistFile(f) \/ Download(f) \/ PersistGraphs(f)
             \/ LookupDocumentation(f) \/ GenerateDocumentation(f)
      PROVE  documentation' = documentation /\ index' = index
  BY <1>1 DEF Enter, PersistFile, Download, PersistGraphs, LookupDocumentation,
     GenerateDocumentation, Skip, Undocumented
<1>2. ASSUME SaveDocumentation(f)
      PROVE  index' = index /\ Documented \subseteq Documented'
  BY <1>2 DEF SaveDocumentation, Undocumented
<1>3. ASSUME IndexDocumentation(f)
      PROVE  documentation' = documentation /\ Indexed \subseteq Indexed'
  BY <1>3 DEF IndexDocumentation
<1>4. \A g \in TargetedFiles : graphs[g] \subseteq graphs'[g]
  <2>1. CASE PersistGraphs(f)
    <3>1. result[f] \in FileResults
      BY <2>1 DEF PersistGraphs, ResultInv
    <3> QED
      BY <2>1, <3>1, GraphsAreCounted DEF GraphsCounted
  <2>2. CASE ~PersistGraphs(f)
    <3>1. graphs' = graphs
      BY <2>2 DEF FileStep, Enter, PersistFile, Download, LookupDocumentation,
         GenerateDocumentation, SaveDocumentation, IndexDocumentation, Skip,
         Undocumented
    <3> QED
      BY <3>1
  <2> QED
    BY <2>1, <2>2
<1>5. CoveredPairs \subseteq CoveredPairs'
  BY <1>4 DEF CoveredPairs, Covered
<1> QED
  BY <1>1, <1>2, <1>3, <1>5 DEF FileStep

-----------------------------------------------------------------------------
(* Fan-in.                                                                 *)

LEMMA StoresAreFinite ==
  ASSUME TypeOK
  PROVE  /\ IsFiniteSet(catalog) /\ Cardinality(catalog) \in Nat
         /\ IsFiniteSet(CoveredPairs) /\ Cardinality(CoveredPairs) \in Nat
         /\ IsFiniteSet(Documented) /\ Cardinality(Documented) \in Nat
         /\ IsFiniteSet(Indexed) /\ Cardinality(Indexed) \in Nat
<1>1. IsFiniteSet(TargetedFiles \cup OtherFiles)
  BY FilesAreFinite, FS_Union
<1>2. IsFiniteSet(catalog)
  BY <1>1, FS_Subset DEF TypeOK
<1>3. IsFiniteSet(Documented) /\ IsFiniteSet(Indexed)
  BY FilesAreFinite, FS_Subset DEF Documented, Indexed
<1>4. IsFiniteSet(CoveredPairs)
  BY FilesAreFinite, GraphsAssumption, FS_Product, FS_Subset DEF CoveredPairs
<1> QED
  BY <1>2, <1>3, <1>4, FS_CardinalityType

(* Totals that the stores cover stay covered while the stores grow.         *)
LEMMA CoverageGrows ==
  ASSUME TypeOK, TypeOK', catalog \subseteq catalog',
         CoveredPairs \subseteq CoveredPairs',
         Documented \subseteq Documented', Indexed \subseteq Indexed'
  PROVE  \A s \in StatsRecords : Backed(s) => Backed(s)'
<1>1. /\ IsFiniteSet(catalog') /\ IsFiniteSet(CoveredPairs')
      /\ IsFiniteSet(Documented') /\ IsFiniteSet(Indexed')
  <2>1. IsFiniteSet(TargetedFiles \cup OtherFiles)
    BY FilesAreFinite, FS_Union
  <2>2. IsFiniteSet(catalog')
    BY <2>1, FS_Subset DEF TypeOK
  <2>3. IsFiniteSet(Documented') /\ IsFiniteSet(Indexed')
    BY FilesAreFinite, FS_Subset DEF Documented, Indexed
  <2>4. IsFiniteSet(CoveredPairs')
    BY FilesAreFinite, GraphsAssumption, FS_Product, FS_Subset DEF CoveredPairs
  <2> QED
    BY <2>2, <2>3, <2>4
<1>2. /\ Cardinality(catalog) <= Cardinality(catalog')
      /\ Cardinality(CoveredPairs) <= Cardinality(CoveredPairs')
      /\ Cardinality(Documented) <= Cardinality(Documented')
      /\ Cardinality(Indexed) <= Cardinality(Indexed')
  BY <1>1, FS_Subset
<1>3. /\ Cardinality(catalog') \in Nat /\ Cardinality(CoveredPairs') \in Nat
      /\ Cardinality(Documented') \in Nat /\ Cardinality(Indexed') \in Nat
  BY <1>1, FS_CardinalityType
<1> QED
  BY <1>2, <1>3, StoresAreFinite DEF Backed, StatsRecords

(* The counters of all batches, once every insert has returned.             *)
LEMMA BatchTotals ==
  ASSUME TypeOK, \A b \in CatalogBatches : BatchInv(b) /\ Returned(b)
  PROVE  /\ Summed(bulk, "ok") \in Nat /\ Summed(bulk, "bad") \in Nat
         /\ Summed(bulk, "ok") + Summed(bulk, "bad") = Others
         /\ Summed(bulk, "ok") <= Cardinality(OtherFiles \cap catalog)
<1> DEFINE ok == [b \in CatalogBatches |-> bulk[b].ok]
           bad == [b \in CatalogBatches |-> bulk[b].bad]
           both == [b \in CatalogBatches |-> ok[b] + bad[b]]
<1>1. \A b \in CatalogBatches : /\ bulk[b].ok \in Nat /\ bulk[b].bad \in Nat
                                /\ bulk[b]["ok"] = bulk[b].ok
                                /\ bulk[b]["bad"] = bulk[b].bad
  BY BatchFacts
<1>2. ok \in [CatalogBatches -> Nat] /\ bad \in [CatalogBatches -> Nat]
      /\ both \in [CatalogBatches -> Nat]
  BY <1>1
<1>3. /\ Summed(bulk, "ok") = Cardinality(Pairs(ok))
      /\ Summed(bulk, "bad") = Cardinality(Pairs(bad))
  <2>1. /\ UNION {{b} \X (1..bulk[b]["ok"]) : b \in CatalogBatches} = Pairs(ok)
        /\ UNION {{b} \X (1..bulk[b]["bad"]) : b \in CatalogBatches} = Pairs(bad)
    BY <1>1 DEF Pairs
  <2> QED
    BY <2>1 DEF Summed, TypeOK
<1>4. ASSUME NEW b \in CatalogBatches
      PROVE  ok[b] <= Cardinality(b \cap catalog) /\ both[b] = Cardinality(b)
  <2>1. DealtWith(b) = b
    BY DEF Returned, DealtWith
  <2>2. Cardinality(bulk[b].todo) = 0 /\ Cardinality(bulk[b].throttled) = 0
    BY FS_EmptySet DEF Returned
  <2>3. bulk[b].ok + bulk[b].bad + 0 + 0 = Cardinality(b)
    BY <2>2 DEF BatchInv
  <2>4. bulk[b].ok + bulk[b].bad = Cardinality(b)
    BY <1>1, <2>3
  <2> QED
    BY <2>1, <2>4 DEF BatchInv
<1> HIDE DEF ok, bad, both
<1>5. \A b \in CatalogBatches : both[b] = Cardinality(b)
  BY <1>4
<1>6. IsFiniteSet(Pairs(both)) /\ Cardinality(Pairs(both)) = Others
  <2> DEFINE part == [b \in CatalogBatches |-> b]
  <2>1. /\ part \in [CatalogBatches -> SUBSET OtherFiles]
        /\ Bounds(CatalogBatches, part, both) /\ Fills(CatalogBatches, part, both, OtherFiles)
    <3>1. \A b \in CatalogBatches : both[b] \in Nat /\ both[b] <= Cardinality(b)
      BY <1>2, <1>5
    <3> QED
      BY <1>2, <1>5, <3>1, CatalogBatchesPartition DEF Bounds, Fills
  <2> HIDE DEF part
  <2> QED
    BY <2>1, SumIsBounded, FilesAreFinite
<1>7. /\ IsFiniteSet(Pairs(ok)) /\ IsFiniteSet(Pairs(bad))
      /\ Cardinality(Pairs(ok)) + Cardinality(Pairs(bad)) = Cardinality(Pairs(both))
  BY <1>2, <1>6, SumOfSums DEF both
<1>8. Cardinality(Pairs(ok)) <= Cardinality(OtherFiles \cap catalog)
  <2> DEFINE part == [b \in CatalogBatches |-> b \cap catalog]
             C == OtherFiles \cap catalog
  <2>1. part \in [CatalogBatches -> SUBSET C] /\ Bounds(CatalogBatches, part, ok)
    BY <1>2, <1>4, CatalogBatchesPartition DEF Bounds
  <2>2. IsFiniteSet(C)
    BY FilesAreFinite, FS_Subset
  <2> HIDE DEF part, C
  <2>3. Cardinality(Pairs(ok)) <= Cardinality(C)
    BY <2>1, <2>2, SumIsBounded
  <2> QED
    BY <2>3 DEF C
<1>9. Cardinality(Pairs(ok)) \in Nat /\ Cardinality(Pairs(bad)) \in Nat
  BY <1>7, FS_CardinalityType
<1> QED
  BY <1>3, <1>6, <1>7, <1>8, <1>9

(* The graphs that all files count, once every file has a result.           *)
LEMMA GraphTotals ==
  ASSUME TypeOK, \A f \in TargetedFiles : ResultInv(f) /\ result[f] # None
  PROVE  LET unbuilt == Cardinality(TargetedFiles \ Results("built"))
         IN  /\ Summed(result, "graphs") \in Nat /\ Summed(result, "lost") \in Nat
             /\ unbuilt \in Nat
             /\ Summed(result, "graphs") + Summed(result, "lost")
                  = (Targeted - unbuilt) * Cardinality(Graphs)
             /\ Summed(result, "graphs") <= Cardinality(CoveredPairs)
<1> DEFINE ok == [f \in TargetedFiles |-> result[f].graphs]
           bad == [f \in TargetedFiles |-> result[f].lost]
           both == [f \in TargetedFiles |-> ok[f] + bad[f]]
           Built == Results("built")
<1>1. \A f \in TargetedFiles :
         /\ result[f] \in FileResults
         /\ result[f].graphs \in Nat /\ result[f].lost \in Nat
         /\ result[f]["graphs"] = result[f].graphs
         /\ result[f]["lost"] = result[f].lost
  BY DEF TypeOK, FileResults
<1>2. /\ ok \in [TargetedFiles -> Nat] /\ bad \in [TargetedFiles -> Nat]
      /\ both \in [TargetedFiles -> Nat]
  BY <1>1
<1>3. /\ Summed(result, "graphs") = Cardinality(Pairs(ok))
      /\ Summed(result, "lost") = Cardinality(Pairs(bad))
  <2>1. /\ UNION {{f} \X (1..result[f]["graphs"]) : f \in TargetedFiles} = Pairs(ok)
        /\ UNION {{f} \X (1..result[f]["lost"]) : f \in TargetedFiles} = Pairs(bad)
    BY <1>1 DEF Pairs
  <2> QED
    BY <2>1 DEF Summed, TypeOK
<1>4. ASSUME NEW f \in TargetedFiles
      PROVE  /\ ok[f] <= Cardinality(Covered(f))
             /\ both[f] = IF f \in Built THEN Cardinality(Graphs) ELSE 0
  BY DEF ResultInv, Results
<1>5. Built \subseteq TargetedFiles
  BY DEF Results
<1> HIDE DEF ok, bad, Built
<1>6. ASSUME NEW f, NEW T, IsFiniteSet(T)
      PROVE  Cardinality({f} \X T) = Cardinality(T)
  <2>1. Cardinality({f} \X T) = Cardinality({f}) * Cardinality(T)
    BY <1>6, FS_Singleton, FS_Product
  <2>2. Cardinality({f}) = 1 /\ Cardinality(T) \in Nat
    BY <1>6, FS_Singleton, FS_CardinalityType
  <2> QED
    BY <2>1, <2>2
<1>7. IsFiniteSet(Built \X Graphs)
      /\ Cardinality(Built \X Graphs) = Cardinality(Built) * Cardinality(Graphs)
      /\ IsFiniteSet(Built)
  BY <1>5, FilesAreFinite, GraphsAssumption, FS_Subset, FS_Product
<1>8. /\ IsFiniteSet(Pairs(both))
      /\ Cardinality(Pairs(both)) = Cardinality(Built) * Cardinality(Graphs)
  <2> DEFINE part == [f \in TargetedFiles |-> IF f \in Built THEN {f} \X Graphs ELSE {}]
             C == Built \X Graphs
  <2>1. part \in [TargetedFiles -> SUBSET C]
    OBVIOUS
  <2>2. \A f \in TargetedFiles : both[f] = Cardinality(part[f])
    <3> SUFFICES ASSUME NEW f \in TargetedFiles
                 PROVE  both[f] = Cardinality(part[f])
      OBVIOUS
    <3>1. CASE f \in Built
      BY <1>4, <1>6, <3>1, GraphsAssumption
    <3>2. CASE f \notin Built
      BY <1>4, <3>2, FS_EmptySet
    <3> QED
      BY <3>1, <3>2
  <2>3. \A f, g \in TargetedFiles : f # g => part[f] \cap part[g] = {}
    OBVIOUS
  <2>4. \A x \in C : \E f \in TargetedFiles : x \in part[f]
    BY <1>5
  <2> HIDE DEF part, both
  <2>5. \A f \in TargetedFiles : both[f] <= Cardinality(part[f])
    BY <1>2, <2>2
  <2>6. Bounds(TargetedFiles, part, both) /\ Fills(TargetedFiles, part, both, C)
    BY <1>2, <2>2, <2>3, <2>4, <2>5 DEF Bounds, Fills
  <2> HIDE DEF C
  <2>7. IsFiniteSet(C)
    BY <1>7 DEF C
  <2>8. IsFiniteSet(Pairs(both)) /\ Cardinality(Pairs(both)) = Cardinality(C)
    BY <2>1, <2>6, <2>7, SumIsBounded
  <2> QED
    BY <1>7, <2>8 DEF C
<1>9. Cardinality(Pairs(ok)) <= Cardinality(CoveredPairs)
  <2> DEFINE part == [f \in TargetedFiles |-> {f} \X Covered(f)]
  <2>1. part \in [TargetedFiles -> SUBSET CoveredPairs]
    BY DEF CoveredPairs, Covered
  <2>2. \A f \in TargetedFiles : Cardinality(part[f]) = Cardinality(Covered(f))
    <3> SUFFICES ASSUME NEW f \in TargetedFiles
                 PROVE  Cardinality({f} \X Covered(f)) = Cardinality(Covered(f))
      OBVIOUS
    <3>1. IsFiniteSet(Covered(f))
      BY GraphsAssumption, FS_Subset DEF Covered
    <3> QED
      BY <1>6, <3>1
  <2>3. \A f, g \in TargetedFiles : f # g => part[f] \cap part[g] = {}
    OBVIOUS
  <2> HIDE DEF part
  <2>4. Bounds(TargetedFiles, part, ok)
    BY <1>2, <1>4, <2>2, <2>3 DEF Bounds
  <2> QED
    BY <2>1, <2>4, SumIsBounded, StoresAreFinite
<1>10. /\ IsFiniteSet(Pairs(ok)) /\ IsFiniteSet(Pairs(bad))
       /\ Cardinality(Pairs(ok)) + Cardinality(Pairs(bad)) = Cardinality(Pairs(both))
  BY <1>2, <1>8, SumOfSums
<1>11. Cardinality(Pairs(ok)) \in Nat /\ Cardinality(Pairs(bad)) \in Nat
  BY <1>10, FS_CardinalityType
<1>12. /\ Cardinality(TargetedFiles \ Built) \in Nat
       /\ Cardinality(Built) = Targeted - Cardinality(TargetedFiles \ Built)
  <2>1. TargetedFiles \cap Built = Built
    BY <1>5
  <2>2. /\ IsFiniteSet(TargetedFiles \ Built)
        /\ Cardinality(TargetedFiles \ Built)
             = Cardinality(TargetedFiles) - Cardinality(TargetedFiles \cap Built)
    BY FilesAreFinite, FS_Difference
  <2>3. /\ IsFiniteSet(TargetedFiles \ Built)
        /\ Cardinality(TargetedFiles \ Built) = Targeted - Cardinality(Built)
    BY <2>1, <2>2, FilesAreFinite
  <2>4. Cardinality(TargetedFiles \ Built) \in Nat /\ Cardinality(Built) \in Nat
    BY <1>7, <2>3, FS_CardinalityType
  <2> QED
    BY <2>3, <2>4, CountsAssumption
<1> HIDE DEF both
<1> QED
  BY <1>3, <1>8, <1>9, <1>10, <1>11, <1>12 DEF Built

(* What the orchestration sums up, the stores cover.                        *)
LEMMA TotalsAreCovered ==
  ASSUME TypeOK, \A b \in CatalogBatches : BatchInv(b) /\ Returned(b),
         \A f \in TargetedFiles : ResultInv(f) /\ result[f] # None
  PROVE  /\ Totals \in StatsRecords /\ Backed(Totals)
         /\ Totals.files # 0 => catalog # {}
<1> DEFINE R == Results("file")
           D == Results("doc")
           I == {f \in Results("doc") : result[f].rag}
           U == TargetedFiles \ Results("built")
<1>1. \A f \in TargetedFiles :
         /\ result[f] \in FileResults
         /\ result[f].file => f \in catalog
         /\ result[f].doc => f \in Documented
         /\ result[f].rag => f \in Indexed
  BY DEF TypeOK, ResultInv, FileResults, Documented, Indexed
<1>2. /\ R \subseteq TargetedFiles \cap catalog /\ D \subseteq Documented
      /\ I \subseteq Indexed
  BY <1>1 DEF Results
<1>3. /\ IsFiniteSet(R) /\ IsFiniteSet(D) /\ IsFiniteSet(I)
      /\ Cardinality(R) \in Nat /\ Cardinality(D) \in Nat /\ Cardinality(I) \in Nat
      /\ Cardinality(D) <= Cardinality(Documented)
      /\ Cardinality(I) <= Cardinality(Indexed)
  <2>1. IsFiniteSet(R) /\ IsFiniteSet(D) /\ IsFiniteSet(I)
    BY <1>2, FilesAreFinite, StoresAreFinite, FS_Subset
  <2>2. /\ Cardinality(D) <= Cardinality(Documented)
        /\ Cardinality(I) <= Cardinality(Indexed)
    BY <1>2, StoresAreFinite, FS_Subset
  <2> QED
    BY <2>1, <2>2, FS_CardinalityType
<1>4. /\ Summed(result, "graphs") \in Nat /\ Summed(result, "lost") \in Nat
      /\ Cardinality(U) \in Nat
      /\ Summed(result, "graphs") + Summed(result, "lost")
           = (Targeted - Cardinality(U)) * Cardinality(Graphs)
      /\ Summed(result, "graphs") <= Cardinality(CoveredPairs)
  BY GraphTotals
<1>5. /\ Cardinality(TargetedFiles \ R) \in Nat
      /\ Cardinality(R) + Cardinality(TargetedFiles \ R) = Targeted
  <2>1. TargetedFiles \cap R = R
    BY <1>2
  <2>2. /\ IsFiniteSet(TargetedFiles \ R)
        /\ Cardinality(TargetedFiles \ R)
             = Cardinality(TargetedFiles) - Cardinality(TargetedFiles \cap R)
    BY FilesAreFinite, FS_Difference
  <2>3. Cardinality(TargetedFiles \ R) \in Nat
    BY <2>2, FS_CardinalityType
  <2>4. Cardinality(TargetedFiles \ R) = Targeted - Cardinality(R)
    BY <2>1, <2>2, FilesAreFinite
  <2> QED
    BY <1>3, <2>3, <2>4, CountsAssumption
<1>6. Summed(bulk, "ok") + Cardinality(R) <= Cardinality(catalog)
  <2> DEFINE O == OtherFiles \cap catalog
  <2>1. IsFiniteSet(O) /\ O \cap R = {}
    BY <1>2, FilesAreFinite, FS_Subset
  <2>2. Cardinality(O \cup R) = Cardinality(O) + Cardinality(R)
        /\ Cardinality(O) \in Nat
    BY <1>3, <2>1, DisjointUnion
  <2>3. O \cup R \subseteq catalog
    BY <1>2
  <2>4. /\ Cardinality(O \cup R) <= Cardinality(catalog)
        /\ Cardinality(catalog) \in Nat
    BY <2>3, StoresAreFinite, FS_Subset
  <2>5. Summed(bulk, "ok") <= Cardinality(O) /\ Summed(bulk, "ok") \in Nat
    BY BatchTotals
  <2> HIDE DEF O
  <2> QED
    BY <1>3, <2>2, <2>4, <2>5
<1> HIDE DEF R, D, I, U
<1>7. Totals = [files   |-> Summed(bulk, "ok") + Cardinality(R),
                failed  |-> Summed(bulk, "bad") + Cardinality(TargetedFiles \ R),
                graphs  |-> Summed(result, "graphs"),
                lost    |-> Summed(result, "lost"),
                unbuilt |-> Cardinality(U),
                docs    |-> Cardinality(D),
                rags    |-> Cardinality(I)]
  BY DEF Totals, R, D, I, U
<1>8. Totals \in StatsRecords
  BY <1>3, <1>4, <1>5, <1>7, BatchTotals DEF StatsRecords
<1>9. Totals.files + Totals.failed = Targeted + Others
  <2>1. /\ Totals.files = Summed(bulk, "ok") + Cardinality(R)
        /\ Totals.failed = Summed(bulk, "bad") + Cardinality(TargetedFiles \ R)
    BY <1>7
  <2>2. /\ Summed(bulk, "ok") \in Nat /\ Summed(bulk, "bad") \in Nat
        /\ Summed(bulk, "ok") + Summed(bulk, "bad") = Others
    BY BatchTotals
  <2> QED
    BY <1>3, <1>5, <2>1, <2>2, CountsAssumption
<1>10. Backed(Totals)
  BY <1>3, <1>4, <1>6, <1>7, <1>9 DEF Backed
<1>11. Totals.files # 0 => catalog # {}
  <2>1. Totals.files \in Nat /\ Totals.files <= Cardinality(catalog)
    BY <1>8, <1>10 DEF Backed, StatsRecords
  <2>2. catalog = {} => Cardinality(catalog) = 0
    BY FS_EmptySet
  <2> QED
    BY <2>1, <2>2
<1> QED
  BY <1>8, <1>10, <1>11

-----------------------------------------------------------------------------
(* Persisting is inductive.                                                *)

LEMMA PersistingInit == Init => Persisting
<1> SUFFICES ASSUME Init
             PROVE  Persisting
  OBVIOUS
<1> USE DEF Init
<1>1. ASSUME NEW b \in CatalogBatches
      PROVE  BatchInv(b) /\ bulk[b] \in BulkStates
  <2>1. IsFiniteSet(b) /\ b \subseteq OtherFiles
    BY CatalogBatchesPartition
  <2>2. bulk[b] = NewBulk(b)
    OBVIOUS
  <2>3. /\ bulk[b].todo = b /\ bulk[b].throttled = {}
        /\ bulk[b].ok = 0 /\ bulk[b].bad = 0
    BY <2>2 DEF NewBulk
  <2>4. /\ Cardinality(DealtWith(b) \cap catalog) = 0
        /\ Cardinality(bulk[b].throttled) = 0
    <3>1. DealtWith(b) \cap catalog = {}
      OBVIOUS
    <3> QED
      BY <2>3, <3>1, FS_EmptySet
  <2>5. Cardinality(b) \in Nat
    BY <2>1, FS_CardinalityType
  <2>6. bulk[b].ok + bulk[b].bad + Cardinality(bulk[b].todo)
          + Cardinality(bulk[b].throttled) = Cardinality(b)
    BY <2>3, <2>4, <2>5
  <2>7. bulk[b].ok <= Cardinality(DealtWith(b) \cap catalog)
    BY <2>3, <2>4
  <2>8. BatchInv(b)
    BY <2>3, <2>6, <2>7 DEF BatchInv
  <2>9. 1 \in 1..MaxRounds
    BY CountsAssumption
  <2> QED
    BY <2>1, <2>2, <2>8, <2>9 DEF NewBulk, BulkStates
<1>2. TypeOK
  <2>1. bulk \in [CatalogBatches -> BulkStates]
    BY <1>1
  <2>2. /\ run \in 1..MaxRuns /\ tries \in 0..MaxTries - 1
        /\ crashes \in 0..MaxCrashes
    BY CountsAssumption
  <2> QED
    BY <2>1, <2>2 DEF TypeOK, Phases, Steps
<1>3. \A f \in TargetedFiles : FileInv(f) /\ ResultInv(f)
  BY DEF FileInv, ResultInv
<1> QED
  BY <1>1, <1>2, <1>3 DEF Persisting, PhaseInv, TotalsInv

\* A step that leaves the coroutines and the bulk inserts alone.
LEMMA OrchestrationStep ==
  ASSUME Persisting, UNCHANGED <<bulk, coroutines, catalog, artifacts>>,
         phase' = "analyze" => phase = "analyze" \/ phase = "catalog",
         TypeOK', PhaseInv', TotalsInv'
  PROVE  Persisting'
<1> USE DEF Persisting, coroutines, artifacts
<1>1. ASSUME NEW b \in CatalogBatches
      PROVE  BatchInv(b)'
  BY CatalogMayGrow
<1>2. ASSUME NEW f \in TargetedFiles
      PROVE  FileInv(f)' /\ ResultInv(f)'
  BY CoveredIsKept DEF FileInv, ResultInv, PhaseInv
<1> QED
  BY <1>1, <1>2

\* An activity that raised.
LEMMA RetryTypes ==
  ASSUME TypeOK, NEW again \in Phases, Retry(again)
  PROVE  /\ phase' \in {again, "failing"} /\ phase' \in Phases
         /\ tries' \in 0..MaxTries - 1
         /\ UNCHANGED <<run, status, stats>>
BY CountsAssumption DEF TypeOK, Retry, Phases

(* The actions of the catalog phase.                                        *)
LEMMA CatalogSteps ==
  ASSUME Persisting, NEW b \in CatalogBatches,
         InsertChunk(b) \/ EndRound(b) \/ RaiseInsert(b)
  PROVE  Persisting'
<1> USE DEF Persisting
<1>1. /\ phase = "catalog" /\ UNCHANGED <<crashes, coroutines, artifacts, summary>>
      /\ UNCHANGED <<run, status, stats>>
  BY DEF InsertChunk, EndRound, RaiseInsert, Retry, orchestration
<1>2. phase' \in {"catalog", "failing"} /\ tries' \in 0..MaxTries - 1
  <2>1. "catalog" \in Phases
    BY DEF Phases
  <2> QED
    BY <1>1, <2>1, RetryTypes DEF InsertChunk, EndRound, RaiseInsert,
       orchestration, TypeOK
<1>3. \A c \in CatalogBatches : c # b => bulk'[c] = bulk[c]
  BY DEF InsertChunk, EndRound, RaiseInsert, TypeOK
<1>4. /\ catalog \subseteq catalog' /\ catalog' \subseteq TargetedFiles \cup OtherFiles
      /\ BatchInv(b)' /\ bulk'[b] \in BulkStates
  <2>1. CASE InsertChunk(b)
    BY <2>1, InsertKeepsBatch
  <2>2. CASE EndRound(b)
    BY <2>2, RequeueKeepsBatch DEF EndRound, TypeOK
  <2>3. CASE RaiseInsert(b)
    <3>1. bulk'[b] = NewBulk(b)
      BY <2>3 DEF RaiseInsert, TypeOK
    <3>2. Chunk(bulk[b].todo) \subseteq OtherFiles
      BY BatchFacts DEF Chunk, BatchInv
    <3>3. catalog \subseteq catalog' /\ catalog' \subseteq TargetedFiles \cup OtherFiles
      BY <2>3, <3>2 DEF RaiseInsert, TypeOK
    <3> QED
      BY <3>1, <3>3, NewBulkIsConsistent
  <2> QED
    BY <2>1, <2>2, <2>3
<1>5. TypeOK'
  <2>1. bulk' \in [CatalogBatches -> BulkStates]
    BY <1>3, <1>4 DEF TypeOK, InsertChunk, EndRound, RaiseInsert
  <2> QED
    BY <1>1, <1>2, <1>4, <2>1 DEF TypeOK, coroutines, artifacts, Phases
<1>6. ASSUME NEW c \in CatalogBatches
      PROVE  BatchInv(c)'
  BY <1>3, <1>4, CatalogMayGrow
<1>7. ASSUME NEW f \in TargetedFiles
      PROVE  FileInv(f)' /\ ResultInv(f)'
  BY <1>1, <1>2, <1>4, CoveredIsKept DEF FileInv, ResultInv, coroutines, artifacts
<1>8. PhaseInv'
  BY <1>1, <1>2 DEF PhaseInv, coroutines
<1>9. TotalsInv'
  <2>1. /\ Documented \subseteq Documented' /\ Indexed \subseteq Indexed'
        /\ CoveredPairs \subseteq CoveredPairs'
        /\ stats' = stats /\ summary' = summary
    BY <1>1 DEF Documented, Indexed, CoveredPairs, Covered, artifacts
  <2>2. \A s \in StatsRecords : Backed(s) => Backed(s)'
    BY <1>4, <1>5, <2>1, CoverageGrows
  <2> QED
    BY <2>1, <2>2 DEF TotalsInv, TypeOK, Backed
<1> QED
  BY <1>5, <1>6, <1>7, <1>8, <1>9

(* The steps of a coroutine.                                                *)
LEMMA CoroutineStep ==
  ASSUME Persisting, NEW f \in TargetedFiles, FileStep(f)
  PROVE  Persisting'
<1> USE DEF Persisting
<1>1. /\ phase = "analyze" /\ UNCHANGED <<orchestration, crashes, bulk, summary>>
      /\ catalog \subseteq catalog'
  BY FileStepFrame
<1>2. TypeOK'
  BY FileStepTypes
<1>3. ASSUME NEW b \in CatalogBatches
      PROVE  BatchInv(b)'
  BY <1>1, CatalogMayGrow
<1>4. \A g \in TargetedFiles : FileInv(g)' /\ ResultInv(g)'
  BY FileStepKeepsFiles
<1>5. PhaseInv'
  BY <1>1 DEF PhaseInv, orchestration, Returned
<1>6. TotalsInv'
  <2>1. \A s \in StatsRecords : Backed(s) => Backed(s)'
    BY <1>1, <1>2, CoverageGrows, FileStepOnlyAdds
  <2> QED
    BY <1>1, <2>1 DEF TotalsInv, TypeOK, Backed, orchestration
<1> QED
  BY <1>2, <1>3, <1>4, <1>5, <1>6

(* The sums, and the gate.                                                  *)
LEMMA FanInStep ==
  ASSUME Persisting, FanIn
  PROVE  Persisting'
<1> USE DEF Persisting
<1>1. /\ Totals \in StatsRecords /\ Backed(Totals)
      /\ Totals.files # 0 => catalog # {}
  <2>1. \A b \in CatalogBatches : BatchInv(b) /\ Returned(b)
    BY DEF FanIn, PhaseInv
  <2>2. \A f \in TargetedFiles : ResultInv(f) /\ result[f] # None
    BY DEF FanIn, ResultInv
  <2> QED
    BY <2>1, <2>2, TotalsAreCovered
<1>2. /\ phase' = IF GateRefuses(Totals) THEN "failing" ELSE "summarize"
      /\ stats' = Totals /\ bulk' = [b \in CatalogBatches |-> NewBulk(b)]
      /\ result' = [f \in TargetedFiles |-> None]
      /\ UNCHANGED <<run, status, tries, crashes, at, holds, catalog, artifacts, summary>>
  BY DEF FanIn
<1>3. ASSUME NEW b \in CatalogBatches
      PROVE  BatchInv(b)' /\ bulk'[b] \in BulkStates
  BY <1>2, NewBulkIsConsistent
<1>4. TypeOK'
  <2>1. bulk' \in [CatalogBatches -> BulkStates]
    BY <1>2, <1>3
  <2> QED
    BY <1>1, <1>2, <2>1 DEF TypeOK, Phases, artifacts
<1>5. ASSUME NEW f \in TargetedFiles
      PROVE  FileInv(f)' /\ ResultInv(f)'
  BY <1>2 DEF FileInv, ResultInv, artifacts
<1>6. PhaseInv'
  <2>1. stats' # None
    BY <1>1, <1>2, NoneAssumption
  <2>2. phase' = "summarize" => Browsable'
    BY <1>1, <1>2 DEF GateRefuses, Browsable
  <2>3. status' # "completed" /\ phase' \in {"summarize", "failing"}
    BY <1>2 DEF PhaseInv, FanIn
  <2> QED
    BY <2>1, <2>2, <2>3 DEF PhaseInv
<1>7. TotalsInv'
  <2>1. /\ catalog' = catalog /\ CoveredPairs' = CoveredPairs
        /\ Documented' = Documented /\ Indexed' = Indexed
    BY <1>2 DEF Documented, Indexed, CoveredPairs, Covered, artifacts
  <2> QED
    BY <1>1, <1>2, <2>1 DEF TotalsInv, Backed
<1> QED
  BY <1>3, <1>4, <1>5, <1>6, <1>7

(* The actions of the orchestration after and between the fan-outs.         *)
LEMMA OrchestrationSteps ==
  ASSUME Persisting, StartAnalysis \/ PersistSummary \/ Complete \/ PatchFailed
  PROVE  Persisting'
<1> USE DEF Persisting
<1>1. UNCHANGED <<bulk, coroutines, catalog, artifacts>>
      /\ UNCHANGED <<run, stats, crashes>>
  BY DEF StartAnalysis, PersistSummary, Complete, PatchFailed, Retry
<1>2. "summarize" \in Phases
  BY DEF Phases
<1>3. /\ catalog' = catalog /\ CoveredPairs' = CoveredPairs
      /\ Documented' = Documented /\ Indexed' = Indexed
  BY <1>1 DEF Documented, Indexed, CoveredPairs, Covered, artifacts
<1>4. CASE StartAnalysis
  <2>1. TypeOK'
    BY <1>1, <1>4, CountsAssumption
    DEF StartAnalysis, TypeOK, Phases, coroutines, artifacts
  <2>2. PhaseInv'
    BY <1>1, <1>4 DEF StartAnalysis, PhaseInv, Returned, coroutines
  <2>3. TotalsInv'
    BY <1>1, <1>3, <1>4 DEF StartAnalysis, TotalsInv, Backed
  <2> QED
    BY <1>1, <1>4, <2>1, <2>2, <2>3, OrchestrationStep DEF StartAnalysis
<1>5. CASE PersistSummary
  <2>1. phase = "summarize" /\ stats # None /\ stats \in StatsRecords /\ Browsable
    BY <1>5 DEF PersistSummary, PhaseInv, TypeOK
  <2>2. /\ FirstSummary \in StatsRecords /\ Backed(FirstSummary)
        /\ FirstSummary # None
    BY <2>1, NoneAssumption DEF FirstSummary, TotalsInv, TypeOK
  <2>3. /\ summary' \in {summary, FirstSummary} /\ UNCHANGED status
        /\ phase' \in {"complete", "summarize", "failing"}
        /\ phase' = "complete" => summary' = FirstSummary
        /\ tries' \in 0..MaxTries - 1
    BY <1>2, <1>5, RetryTypes DEF PersistSummary, TypeOK
  <2>4. TypeOK'
    BY <1>1, <2>2, <2>3 DEF TypeOK, Phases, coroutines, artifacts
  <2>5. PhaseInv'
    BY <1>1, <2>1, <2>2, <2>3 DEF PhaseInv, Browsable
  <2>6. TotalsInv'
    BY <1>1, <1>3, <2>2, <2>3 DEF TotalsInv, Backed
  <2> QED
    BY <1>1, <2>3, <2>4, <2>5, <2>6, OrchestrationStep
<1>6. CASE Complete
  <2>1. phase = "complete" /\ stats # None /\ Browsable /\ summary # None
    BY <1>6 DEF Complete, PhaseInv
  <2>2. /\ phase' \in {"ended", "summarize", "failing"} /\ UNCHANGED summary
        /\ IF phase' = "ended" THEN status' = "completed" ELSE status' = status
        /\ tries' \in 0..MaxTries - 1
    BY <1>2, <1>6, RetryTypes DEF Complete, TypeOK
  <2>3. TypeOK'
    BY <1>1, <2>2 DEF TypeOK, Phases, coroutines, artifacts
  <2>4. PhaseInv'
    BY <1>1, <2>1, <2>2 DEF PhaseInv, Browsable
  <2>5. TotalsInv'
    BY <1>1, <1>3, <2>2 DEF TotalsInv, Backed
  <2> QED
    BY <1>1, <2>2, <2>3, <2>4, <2>5, OrchestrationStep
<1>7. CASE PatchFailed
  <2>1. TypeOK'
    BY <1>1, <1>7 DEF PatchFailed, TypeOK, Phases, coroutines, artifacts
  <2>2. PhaseInv'
    BY <1>7 DEF PatchFailed, PhaseInv
  <2>3. TotalsInv'
    BY <1>1, <1>3, <1>7 DEF PatchFailed, TotalsInv, Backed
  <2> QED
    BY <1>1, <1>7, <2>1, <2>2, <2>3, OrchestrationStep DEF PatchFailed
<1> QED
  BY <1>4, <1>5, <1>6, <1>7

(* Executions that die, and runs that follow.                               *)
LEMMA CrashStep ==
  ASSUME Persisting, CrashExecution
  PROVE  Persisting'
<1> USE DEF Persisting
<1>1. crashes' \in 0..MaxCrashes /\ UNCHANGED <<catalog, artifacts, summary>>
  BY CountsAssumption DEF CrashExecution, TypeOK
<1>2. /\ catalog' = catalog /\ CoveredPairs' = CoveredPairs
      /\ Documented' = Documented /\ Indexed' = Indexed
  BY <1>1 DEF Documented, Indexed, CoveredPairs, Covered, artifacts
<1>3. ASSUME NEW b \in CatalogBatches, CrashCatalog(b), UNCHANGED orchestration
      PROVE  Persisting'
  <2>1. ASSUME NEW c \in CatalogBatches
        PROVE  BatchInv(c)' /\ bulk'[c] \in BulkStates
    <3>1. CASE c = b
      <4>1. bulk'[b] = NewBulk(b)
        BY <1>3 DEF CrashCatalog, TypeOK
      <4> QED
        BY <3>1, <4>1, NewBulkIsConsistent
    <3>2. CASE c # b
      <4>1. bulk'[c] = bulk[c]
        BY <1>3, <3>2 DEF CrashCatalog, TypeOK
      <4> QED
        BY <1>1, <4>1, CatalogMayGrow, BatchFacts
    <3> QED
      BY <3>1, <3>2
  <2>2. bulk' \in [CatalogBatches -> BulkStates]
    BY <1>3, <2>1 DEF CrashCatalog, TypeOK
  <2>3. TypeOK'
    BY <1>1, <1>3, <2>2
    DEF CrashCatalog, TypeOK, orchestration, coroutines, artifacts
  <2>4. ASSUME NEW f \in TargetedFiles
        PROVE  FileInv(f)' /\ ResultInv(f)'
    BY <1>1, <1>3, CoveredIsKept
    DEF FileInv, ResultInv, CrashCatalog, orchestration, coroutines, artifacts
  <2>5. PhaseInv'
    BY <1>1, <1>3 DEF PhaseInv, CrashCatalog, orchestration, coroutines, Browsable
  <2>6. TotalsInv'
    BY <1>1, <1>2, <1>3 DEF TotalsInv, Backed, orchestration
  <2> QED
    BY <2>1, <2>3, <2>4, <2>5, <2>6
<1>4. ASSUME NEW b \in AnalyzeBatches, CrashBatch(b), UNCHANGED orchestration
      PROVE  Persisting'
  <2>1. TypeOK'
    BY <1>1, <1>4 DEF CrashBatch, TypeOK, orchestration, artifacts, Steps
  <2>2. ASSUME NEW c \in CatalogBatches
        PROVE  BatchInv(c)'
    BY <1>1, <1>4, CatalogMayGrow DEF CrashBatch
  <2>3. ASSUME NEW f \in TargetedFiles
        PROVE  FileInv(f)' /\ ResultInv(f)'
    BY <1>1, <1>4, CoveredIsKept
    DEF FileInv, ResultInv, CrashBatch, orchestration, artifacts
  <2>4. PhaseInv'
    BY <1>1, <1>4 DEF PhaseInv, CrashBatch, orchestration, Browsable, Returned
  <2>5. TotalsInv'
    BY <1>1, <1>2, <1>4 DEF TotalsInv, Backed, orchestration
  <2> QED
    BY <2>1, <2>2, <2>3, <2>4, <2>5
<1>5. ASSUME phase = "complete", phase' = "summarize",
             UNCHANGED <<run, status, tries, stats, bulk, coroutines>>
      PROVE  Persisting'
  <2>1. TypeOK'
    BY <1>1, <1>5 DEF TypeOK, Phases, coroutines, artifacts
  <2>2. PhaseInv'
    BY <1>1, <1>5 DEF PhaseInv, Browsable
  <2>3. TotalsInv'
    BY <1>1, <1>2, <1>5 DEF TotalsInv, Backed
  <2> QED
    BY <1>1, <1>5, <2>1, <2>2, <2>3, OrchestrationStep
<1> QED
  BY <1>3, <1>4, <1>5 DEF CrashExecution

LEMMA NewRunStep ==
  ASSUME Persisting, NewRun
  PROVE  Persisting'
<1> USE DEF Persisting
<1>1. ASSUME NEW b \in CatalogBatches
      PROVE  BatchInv(b)' /\ bulk'[b] \in BulkStates
  <2>1. bulk'[b] = NewBulk(b)
    BY DEF NewRun
  <2> QED
    BY <2>1, NewBulkIsConsistent
<1>2. TypeOK'
  <2>1. bulk' \in [CatalogBatches -> BulkStates]
    BY <1>1 DEF NewRun
  <2>2. run' \in 1..MaxRuns /\ tries' \in 0..MaxTries - 1
    BY CountsAssumption DEF NewRun, TypeOK
  <2> QED
    BY <2>1, <2>2 DEF NewRun, TypeOK, Phases, Steps, artifacts
<1>3. ASSUME NEW f \in TargetedFiles
      PROVE  FileInv(f)' /\ ResultInv(f)'
  BY DEF NewRun, FileInv, ResultInv, artifacts
<1>4. PhaseInv'
  BY DEF NewRun, PhaseInv
<1>5. TotalsInv'
  <2>1. /\ catalog' = catalog /\ CoveredPairs' = CoveredPairs
        /\ Documented' = Documented /\ Indexed' = Indexed
        /\ summary' = summary /\ stats' = None
    BY DEF NewRun, Documented, Indexed, CoveredPairs, Covered, artifacts
  <2> QED
    BY <2>1 DEF TotalsInv, Backed
<1> QED
  BY <1>1, <1>2, <1>3, <1>4, <1>5

LEMMA StutteringStep ==
  ASSUME Persisting, UNCHANGED vars
  PROVE  Persisting'
<1> USE DEF Persisting
<1>1. /\ UNCHANGED <<orchestration, coroutines, artifacts, crashes, bulk, summary, catalog>>
      /\ CoveredPairs' = CoveredPairs
      /\ Documented' = Documented /\ Indexed' = Indexed
  BY DEF vars, artifacts, Documented, Indexed, CoveredPairs, Covered
<1>2. TypeOK'
  BY <1>1 DEF TypeOK, orchestration, coroutines, artifacts
<1>3. \A b \in CatalogBatches : BatchInv(b)'
  BY <1>1 DEF BatchInv, DealtWith, artifacts
<1>4. \A f \in TargetedFiles : FileInv(f)' /\ ResultInv(f)'
  BY <1>1, CoveredIsKept DEF FileInv, ResultInv, orchestration, coroutines, artifacts
<1>5. PhaseInv'
  BY <1>1 DEF PhaseInv, Returned, Browsable, orchestration, coroutines, artifacts
<1>6. TotalsInv'
  BY <1>1 DEF TotalsInv, Backed, orchestration
<1> QED
  BY <1>2, <1>3, <1>4, <1>5, <1>6

LEMMA PersistingStep == Persisting /\ [Next]_vars => Persisting'
BY CatalogSteps, CoroutineStep, FanInStep, OrchestrationSteps, CrashStep,
   NewRunStep, StutteringStep DEF Next

LEMMA PersistingAlways == Spec => []Persisting
BY PersistingInit, PersistingStep, PTL DEF Spec

-----------------------------------------------------------------------------
(* Every variable keeps its type, the sums of the orchestration included.   *)
THEOREM BatchTypes == Spec => []TypeOK
<1>1. Persisting => TypeOK
  BY DEF Persisting
<1> QED
  BY <1>1, PersistingAlways, PTL

(* What an activity counts as a success is in the store, a bulk insert       *)
(* accounts for each of its documents once, and the summary claims no more  *)
(* than the repository has (persist_file_docs, persist_repo_meta).          *)
THEOREM CountersAreSound == Spec => []CountedIsStored
<1>1. Persisting => CountedIsStored
  <2> SUFFICES ASSUME Persisting
               PROVE  CountedIsStored
    OBVIOUS
  <2> USE DEF Persisting
  <2>1. ASSUME NEW b \in CatalogBatches
        PROVE  /\ bulk[b].ok <= Cardinality(b \cap catalog)
               /\ bulk[b].ok + bulk[b].bad + Cardinality(bulk[b].todo)
                    + Cardinality(bulk[b].throttled) = Cardinality(b)
    <3>1. IsFiniteSet(b \cap catalog)
      BY BatchFacts, FS_Subset
    <3>2. DealtWith(b) \cap catalog \in SUBSET (b \cap catalog)
      BY DEF DealtWith
    <3>3. /\ Cardinality(DealtWith(b) \cap catalog) <= Cardinality(b \cap catalog)
          /\ IsFiniteSet(DealtWith(b) \cap catalog)
      BY <3>1, <3>2, FS_Subset
    <3>4. /\ Cardinality(DealtWith(b) \cap catalog) \in Nat
          /\ Cardinality(b \cap catalog) \in Nat
      BY <3>1, <3>3, FS_CardinalityType
    <3> QED
      BY <3>3, <3>4, BatchFacts DEF BatchInv
  <2>2. ASSUME NEW f \in TargetedFiles, result[f] # None
        PROVE  /\ result[f].file => f \in catalog
               /\ result[f].graphs <= Cardinality(Covered(f))
               /\ result[f].graphs + result[f].lost
                    = IF result[f].built THEN Cardinality(Graphs) ELSE 0
               /\ result[f].doc => f \in Documented
               /\ result[f].rag => f \in Indexed
    BY <2>2 DEF ResultInv, Documented, Indexed
  <2>3. summary # None => Backed(summary)
    BY DEF TotalsInv
  <2> QED
    BY <2>1, <2>2, <2>3 DEF CountedIsStored, Backed
<1> QED
  BY <1>1, PersistingAlways, PTL

(* The integrity gate: a run that completes leaves its summary, and a       *)
(* catalog that is not empty if the run detected any file.                  *)
THEOREM CompletedCanBeShown == Spec => []CompletedIsBrowsable
<1>1. Persisting => CompletedIsBrowsable
  BY DEF Persisting, PhaseInv, Browsable, CompletedIsBrowsable
<1> QED
  BY <1>1, PersistingAlways, PTL

(* _document_file: the search index holds the stored documentation, however *)
(* often executions die between the two writes or answers are lost.         *)
THEOREM IndexFollowsStore == Spec => []IndexMatchesDocumentation
<1>1. Persisting => IndexMatchesDocumentation
  BY DEF Persisting, FileInv, IndexMatchesDocumentation, Indexed
<1> QED
  BY <1>1, PersistingAlways, PTL

(* _document_file: no file that is documented is sent to the model again.   *)
THEOREM NeverPaidTwice == Spec => PaidOnce
<1>1. ASSUME Persisting, [Next]_vars
      PROVE  [\A f \in TargetedFiles :
                at[f] = "generate" /\ at'[f] = "save" => f \notin Documented]_vars
  BY <1>1 DEF Persisting, FileInv, Documented
<1> QED
  BY <1>1, PersistingAlways, PTL DEF Spec, PaidOnce
=============================================================================
