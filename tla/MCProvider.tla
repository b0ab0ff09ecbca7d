----------------------------- MODULE MCProvider -----------------------------
(* Values for the constants of Provider that a cfg cannot write: a phase   *)
(* on a terminal, one without, each with a fallback, and a judge criterion. *)
EXTENDS Provider
CONSTANTS tty, plain, judge, main, spare, cheap
MCChain == [c \in Callers |->
  CASE c = tty -> <<main, spare, cheap>> [] c = plain -> <<main, cheap>> [] c = judge -> <<cheap>>]
=============================================================================
