---------------------------- MODULE MCCommandList ----------------------------
(* Small instances of CommandList for TLC.                                 *)
EXTENDS CommandList, TLC

Symmetric == Permutations(Items) \cup Permutations(Readers)
=============================================================================
