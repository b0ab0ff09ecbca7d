---------------------------- MODULE MCPhaseExec ----------------------------
(* TLC instances of PhaseExec: the bounds are in the configurations. *)
EXTENDS PhaseExec
=============================================================================
