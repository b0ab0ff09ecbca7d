---------------------------- MODULE MCBuildPhase ----------------------------
(* TLC instances of BuildPhase: the bounds are in the configurations. *)
EXTENDS BuildPhase
=============================================================================
