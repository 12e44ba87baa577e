--------------------------- MODULE MC_TubeManager ---------------------------
(***************************************************************************)
(* TLC instances of TubeManager.  The configurations differ in Env, in the *)
(* number of tube IDs and in what they check.                              *)
(***************************************************************************)
EXTENDS TubeManager, TLC

\* Managers and IDs are interchangeable (safety runs only).
Symmetry == Permutations(Mgr) \cup Permutations(Id)
=============================================================================
