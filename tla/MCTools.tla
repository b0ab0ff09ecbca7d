------------------------------ MODULE MCTools -------------------------------
(* One command, which may outlive its phase and its process, two pages, three *)
(* processes.  Calls of run_bash share nothing, so that one stands for all.   *)
EXTENDS Tools
=============================================================================
