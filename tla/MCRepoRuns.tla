----------------------------- MODULE MCRepoRuns -----------------------------
(* Instances of RepoRuns for TLC.                                          *)
EXTENDS RepoRuns

CONSTANTS c, r1
=============================================================================
