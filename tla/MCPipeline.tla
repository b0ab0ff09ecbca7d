----------------------------- MODULE MCPipeline -----------------------------
(* Values for the constants of Pipeline that a cfg cannot write. *)
EXTENDS Pipeline

MCCosts == {2}
MCFailures == {"stalled"}
InOrder == {"run", "resume", "repl_resume"}
AllCommands == InOrder \cup {"continue"}
=============================================================================
