--------------------------- MODULE MCSharedCounter ---------------------------
(* Small instances of SharedCounter for TLC.                               *)
EXTENDS SharedCounter
=============================================================================
