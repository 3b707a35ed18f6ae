---------------------------- MODULE MCRepoLinks ----------------------------
(* Instances of RepoLinks for TLC.                                         *)
EXTENDS RepoLinks, TLC

CONSTANTS a, b, p1, p2

\* Users are interchangeable, and so are requests.
Interchangeable == Permutations(Users) \cup Permutations(Requests)

\* Bound: a behaviour follows two users while the worker is at its first
\* version, or one user across two versions.
InPlay == {u \in Users : \/ \E r \in Rows : link[u][r] # None
                         \/ \E p \in Requests : who[p] = u}
FirstVersionOnly ==
    /\ current = 1
    /\ \A r \in Rows : version[r] # 2
Scope == FirstVersionOnly \/ Cardinality(InPlay) <= 1
=============================================================================
