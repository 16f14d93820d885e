-------------------------- MODULE MCForkTransition --------------------------
(* An instance of ForkTransition: all four networks over one small range of *)
(* times.                                                                   *)
EXTENDS ForkTransition

CONSTANT MaxTime

Times == 0 .. MaxTime
=============================================================================
