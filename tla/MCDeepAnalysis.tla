--------------------------- MODULE MCDeepAnalysis ---------------------------
(* Instances of DeepAnalysis for TLC.                                      *)
EXTENDS DeepAnalysis

CONSTANTS steady, quiet
=============================================================================
