------------------------------ MODULE MCRubric ------------------------------
(* Values for the constants of Rubric that a cfg cannot write. *)
EXTENDS Rubric
MCWeight == [c \in Criteria |-> 1]
MCWhole == Cardinality(Criteria)
=============================================================================
