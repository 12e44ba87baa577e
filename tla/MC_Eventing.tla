----------------------------- MODULE MC_Eventing -----------------------------
(***************************************************************************)
(* TLC instances of Eventing.                                              *)
(***************************************************************************)
EXTENDS Eventing, TLC

\* Events and callbacks are interchangeable, in the runs without liveness.
Symmetry == Permutations(Ev) \cup Permutations(Cb)
=============================================================================
