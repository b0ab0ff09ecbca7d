------------------------------- MODULE MCRepl -------------------------------
(* Values for the constants of Repl that a cfg cannot write. *)
EXTENDS Repl

MCDirs == {"home", "other"}
=============================================================================
