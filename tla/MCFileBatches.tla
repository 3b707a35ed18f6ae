---------------------------- MODULE MCFileBatches ----------------------------
(* Instances of FileBatches for TLC.                                       *)
EXTENDS FileBatches, TLC

CONSTANTS first, second

\* Two methods, each of a nested type of the same simple name.
Homonyms == {"outer", "inner"}
OneScope == [g \in Homonyms |-> "key"]

\* Bound: of the two targeted files the graphs of the first alone are built.
OneIsBuilt == graphs[2] = {} /\ (result[2] # None => ~result[2].built)

\* The texts of the language model are told apart only by being different.
Interchangeable == Permutations(Contents)
=============================================================================
