--------------------------- MODULE PhaseContract ---------------------------
(***************************************************************************)
(* What a phase promises the pipeline, with no word of caches, attempts or *)
(* money: asked for an artifact, it either puts one on disk that was made  *)
(* for exactly what was asked, or leaves the disk as it was.  Each caller  *)
(* has a run of its own, and so a file of its own.                         *)
(***************************************************************************)
CONSTANTS Callers, Asks, Nothing

VARIABLES
  asked,  \* asked[p]: what caller p is waiting for, or Nothing
  disk    \* disk[p]: what the artifact in p's run was made for, or Nothing

vars == <<asked, disk>>

Init == asked = [p \in Callers |-> Nothing] /\ disk = [p \in Callers |-> Nothing]

Ask(p) ==
  /\ asked[p] = Nothing
  /\ \E a \in Asks : asked' = [asked EXCEPT ![p] = a]
  /\ UNCHANGED disk

Deliver(p) ==
  /\ asked[p] # Nothing
  /\ disk' = [disk EXCEPT ![p] = asked[p]]
  /\ asked' = [asked EXCEPT ![p] = Nothing]

\* An unusable answer, an exception, a signal or a crash.
Fail(p) ==
  /\ asked[p] # Nothing
  /\ asked' = [asked EXCEPT ![p] = Nothing]
  /\ UNCHANGED disk

Next == \E p \in Callers : Ask(p) \/ Deliver(p) \/ Fail(p)

Spec == Init /\ [][Next]_vars
=============================================================================
