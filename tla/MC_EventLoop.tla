---------------------------- MODULE MC_EventLoop ----------------------------
(***************************************************************************)
(* TLC instances of EventLoop.                                             *)
(***************************************************************************)
EXTENDS EventLoop, TLC
=============================================================================
