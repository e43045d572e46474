------------------------------ MODULE MCDBImpl ------------------------------
(***************************************************************************)
(* DBImpl for TLC.  The compaction threads are alike, so their             *)
(* permutations are a symmetry of the safety runs; the liveness run does   *)
(* not use it.                                                             *)
(***************************************************************************)
EXTENDS Version, TLC

Symmetry == Permutations(Compactors)

=============================================================================
