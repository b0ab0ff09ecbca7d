----------------------------- MODULE MCEventLog -----------------------------
(* Two processes on one run, in turn or at once. *)
EXTENDS EventLog
CONSTANTS p1, p2
ProcSymmetry == Permutations(Procs)
=============================================================================
