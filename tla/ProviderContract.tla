-------------------------- MODULE ProviderContract --------------------------
(***************************************************************************)
(* What a caller of complete (src/loom/agent/providers.py) is promised: one *)
(* answer or a failure; on screen the text of one model, the one that       *)
(* answers; in the ledger one row for an answer, under that model, and      *)
(* none for a failure.                                                      *)
(***************************************************************************)
EXTENDS Naturals, Sequences

CONSTANTS Callers, Chain    \* Chain[c] the models a caller's provider may use

Links(c) == DOMAIN Chain[c]

VARIABLES
  state,    \* of each caller's latest call
  screen,   \* the links of the chain whose text the user has seen in that call
  rows      \* the models charged to each caller, in order

contractVars == <<state, screen, rows>>

ContractInit ==
  /\ state = [c \in Callers |-> "idle"]
  /\ screen = [c \in Callers |-> {}]
  /\ rows = [c \in Callers |-> <<>>]

Asked(c) ==
  /\ state[c] # "asked" /\ state' = [state EXCEPT ![c] = "asked"]
  /\ screen' = [screen EXCEPT ![c] = {}]
  /\ UNCHANGED rows

Shown(c, l) ==
  /\ state[c] = "asked" /\ screen[c] \subseteq {l}
  /\ screen' = [screen EXCEPT ![c] = {l}]
  /\ UNCHANGED <<state, rows>>

AnsweredBy(c, l) ==
  /\ state[c] = "asked" /\ screen[c] \subseteq {l}
  /\ state' = [state EXCEPT ![c] = "answered"]
  /\ rows' = [rows EXCEPT ![c] = Append(@, Chain[c][l])]
  /\ UNCHANGED screen

Failed(c) ==
  /\ state[c] = "asked" /\ state' = [state EXCEPT ![c] = "failed"]
  /\ UNCHANGED <<screen, rows>>

ContractNext ==
  \E c \in Callers :
    \/ Asked(c) \/ Failed(c)
    \/ \E l \in Links(c) : Shown(c, l) \/ AnsweredBy(c, l)

ContractSpec == ContractInit /\ [][ContractNext]_contractVars
=============================================================================
