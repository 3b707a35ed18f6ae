--------------------------- MODULE MCSourceUpload ---------------------------
(* Instances of SourceUpload for TLC.                                      *)
EXTENDS SourceUpload

CONSTANTS first, second
=============================================================================
