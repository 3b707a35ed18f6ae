---------------------------- MODULE SourcePrefix ----------------------------
(***************************************************************************)
(* What materializing a source promises to the orchestrations of the       *)
(* worker: files of a prefix only come, it is published only with the      *)
(* whole tree in it, an attempt is served the whole tree or fails, one     *)
(* that looks at a published prefix puts no file under it, and neither a   *)
(* publication nor a delivery is taken back.                               *)
(*                                                                         *)
(* An attempt that looked before the publication goes on filling, and so   *)
(* does every attempt on a source without files, published or not.         *)
(***************************************************************************)
CONSTANTS
    Attempts,
    Trees      \* the sets of files a source may consist of

VARIABLES
    tree,      \* the files of the source
    files,     \* those that are there
    published,
    outcome    \* attempt -> what became of it

prefixVars == <<tree, files, published, outcome>>

Init ==
    /\ tree \in Trees
    /\ files = {}
    /\ published = FALSE
    /\ outcome = [a \in Attempts |-> "pending"]

Ends(a, from, to) ==
    /\ outcome[a] = from
    /\ outcome' = [outcome EXCEPT ![a] = to]

\* A prefix that is not published, or has no file, is filled ...
Start(a) ==
    /\ ~published \/ tree = {}
    /\ Ends(a, "pending", "filling")
    /\ UNCHANGED <<tree, files, published>>

\* ... a published one is found.
Find(a) ==
    /\ published /\ tree # {}
    /\ Ends(a, "pending", "served")
    /\ UNCHANGED <<tree, files, published>>

\* An attempt that failed may go on putting files.
PutFile(a) ==
    /\ outcome[a] \in {"filling", "failed"}
    /\ \E f \in tree : files' = files \cup {f}
    /\ UNCHANGED <<tree, published, outcome>>

\* The attempt that publishes may fail in doing so.
Publish(a) ==
    /\ files = tree
    /\ Ends(a, "filling", "served") \/ Ends(a, "filling", "failed")
    /\ published' = TRUE
    /\ UNCHANGED <<tree, files>>

Deliver(a) ==
    /\ Ends(a, "served", "whole")
    /\ UNCHANGED <<tree, files, published>>

\* At any time until then.
Fail(a) ==
    /\ \E from \in {"pending", "filling", "served"} : Ends(a, from, "failed")
    /\ UNCHANGED <<tree, files, published>>

Next == \E a \in Attempts :
            \/ Start(a) \/ Find(a) \/ PutFile(a)
            \/ Publish(a) \/ Deliver(a) \/ Fail(a)

Spec == Init /\ [][Next]_prefixVars
=============================================================================
