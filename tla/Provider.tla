------------------------------ MODULE Provider ------------------------------
(***************************************************************************)
(* LiteLLMProvider.complete (src/loom/agent/providers.py): the chain of    *)
(* models, the retries of each, streaming, and the row in the ledger.      *)
(*                                                                         *)
(* A caller is a task that calls complete on a provider: a phase's, which  *)
(* streams on a terminal and reports events, or a judge criterion's, which *)
(* does neither and whose row rubric.grade writes when complete returns.   *)
(* A failure is known by what the code tells apart: "overloaded" is worth  *)
(* a retry, "daily" is a spent allowance, a 429 like the former, and       *)
(* "refused" the rest: a missing or wrong key, a bad request.              *)
(***************************************************************************)
EXTENDS Naturals, Sequences

CONSTANTS
  Callers, Models,
  Streams,      \* those whose provider has on_token
  Silent,       \* those whose provider has no on_event
  Chain,        \* [self.model, *self.fallback_models], of each caller's provider
  Keyless,      \* models whose key is not set
  MaxRetries,   \* max_retries
  MaxAsks       \* bound: calls of complete altogether

ASSUME ProviderAssumption ==
  /\ Streams \subseteq Callers /\ Silent \subseteq Callers
  /\ Chain \in [Callers -> Seq(Models) \ {<<>>}]
  /\ MaxRetries \in Nat \ {0} /\ MaxAsks \in Nat

Failures == {"overloaded", "daily", "refused"}

VARIABLES
  asks,     \* calls of complete so far
  pc,       \* where each caller is
  link,     \* which link of its chain is being tried
  attempt,  \* the attempt on that link, from 1
  faults,   \* the exceptions of that link, the last one in flight when raised
  screen,   \* links that have shown text in this call; emitted is link \in screen
  rows,     \* the ledger: the models charged to each caller
  tried,    \* history: attempts begun in this call, refused ones included
  told,     \* history: retry and fallback_switch events in this call
  trail     \* history: the faults of each link given up

place == <<pc, link, attempt, faults>>
vars  == <<asks, place, screen, rows, tried, told, trail>>

InFlight == {"calling", "sleeping", "raised"}
Links(c) == DOMAIN Chain[c]

TypeOK ==
  /\ asks \in 0..MaxAsks
  /\ pc \in [Callers -> InFlight \cup {"idle", "answered", "failed", "exhausted"}]
  /\ link \in [Callers -> Nat] /\ \A c \in Callers : link[c] \in Links(c)
  /\ attempt \in [Callers -> 1..MaxRetries]
  /\ faults \in [Callers -> Seq(Failures)]
  /\ screen \in [Callers -> SUBSET Nat]
  /\ rows \in [Callers -> Seq(Models)]
  /\ tried \in [Callers -> Nat] /\ told \in [Callers -> Nat]
  /\ trail \in [Callers -> Seq(Seq(Failures))]

Init ==
  /\ asks = 0
  /\ pc = [c \in Callers |-> "idle"]
  /\ link = [c \in Callers |-> 1] /\ attempt = [c \in Callers |-> 1]
  /\ screen = [c \in Callers |-> {}] /\ rows = [c \in Callers |-> <<>>]
  /\ tried = [c \in Callers |-> 0] /\ told = [c \in Callers |-> 0]
  /\ faults = [c \in Callers |-> <<>>] /\ trail = [c \in Callers |-> <<>>]

-----------------------------------------------------------------------------
Model(c) == Chain[c][link[c]]

Tell(c) == told' = IF c \in Silent THEN told ELSE [told EXCEPT ![c] = @ + 1]

\* single(model), of _call_with_retries or _stream: the preflight, then the first attempt.
Enter(c, l) ==
  /\ link' = [link EXCEPT ![c] = l] /\ attempt' = [attempt EXCEPT ![c] = 1]
  /\ IF Chain[c][l] \in Keyless
       THEN /\ pc' = [pc EXCEPT ![c] = "raised"]
            /\ faults' = [faults EXCEPT ![c] = <<"refused">>]
       ELSE /\ pc' = [pc EXCEPT ![c] = "calling"]
            /\ faults' = [faults EXCEPT ![c] = <<>>]

Ask(c) ==
  /\ pc[c] \notin InFlight /\ asks < MaxAsks
  /\ asks' = asks + 1
  /\ Enter(c, 1)
  /\ screen' = [screen EXCEPT ![c] = {}]
  /\ tried' = [tried EXCEPT ![c] = 1] /\ told' = [told EXCEPT ![c] = 0]
  /\ trail' = [trail EXCEPT ![c] = <<>>]
  /\ UNCHANGED rows

\* A chunk with text.
Delta(c) ==
  /\ c \in Streams /\ pc[c] = "calling"
  /\ screen' = [screen EXCEPT ![c] = @ \cup {link[c]}]
  /\ UNCHANGED <<asks, place, rows, tried, told, trail>>

Fault(c, f) == faults' = [faults EXCEPT ![c] = Append(@, f)]

\* Mutant: the exception of a stream that has begun is like any other.
StreamFailsUncommitted(c) ==
  /\ c \in Streams /\ pc[c] = "calling"
  /\ \E f \in Failures : Fault(c, f)
  /\ pc' = [pc EXCEPT ![c] = "raised"]
  /\ UNCHANGED <<asks, link, attempt, screen, rows, tried, told, trail>>

\* A stream fails.  After text was shown, _StreamCommitted ends the call.
StreamFails(c) ==
  /\ c \in Streams /\ pc[c] = "calling"
  /\ \E f \in Failures : Fault(c, f)
  /\ pc' = [pc EXCEPT ![c] = IF link[c] \in screen[c] THEN "failed" ELSE "raised"]
  /\ UNCHANGED <<asks, link, attempt, screen, rows, tried, told, trail>>

\* Mutant: the last attempt but one is the last.
RetriedOneLess(c, f) == f = "overloaded" /\ attempt[c] + 1 < MaxRetries

\* Mutant: the status alone decides.
RetriedByStatus(c, f) == f \in {"overloaded", "daily"} /\ attempt[c] < MaxRetries

\* A 429 for a spent allowance has a retryable status too, and is raised before that is asked.
Retried(c, f) == f = "overloaded" /\ attempt[c] < MaxRetries

CallFails(c) ==
  /\ c \notin Streams /\ pc[c] = "calling"
  /\ \E f \in Failures :
       /\ Fault(c, f)
       /\ IF Retried(c, f)
            THEN pc' = [pc EXCEPT ![c] = "sleeping"] /\ Tell(c)
            ELSE pc' = [pc EXCEPT ![c] = "raised"] /\ UNCHANGED told
  /\ UNCHANGED <<asks, link, attempt, screen, rows, tried, trail>>

\* The back-off is over.
Wake(c) ==
  /\ pc[c] = "sleeping" /\ pc' = [pc EXCEPT ![c] = "calling"]
  /\ attempt' = [attempt EXCEPT ![c] = @ + 1] /\ tried' = [tried EXCEPT ![c] = @ + 1]
  /\ UNCHANGED <<asks, link, faults, screen, rows, told, trail>>

-----------------------------------------------------------------------------
\* _run: whatever was raised, the next link is tried, and the last one's is raised again.
LinkOver(c) ==
  trail' = [trail EXCEPT ![c] = Append(@, faults[c])]

\* Mutant: a switch goes unreported.
SwitchUntold(c) ==
  /\ pc[c] = "raised" /\ link[c] < Len(Chain[c])
  /\ Enter(c, link[c] + 1)
  /\ LinkOver(c)
  /\ tried' = [tried EXCEPT ![c] = @ + 1]
  /\ UNCHANGED <<asks, screen, rows, told>>

Switch(c) ==
  /\ pc[c] = "raised" /\ link[c] < Len(Chain[c])
  /\ Enter(c, link[c] + 1)
  /\ LinkOver(c) /\ Tell(c)
  /\ tried' = [tried EXCEPT ![c] = @ + 1]
  /\ UNCHANGED <<asks, screen, rows>>

\* Mutant: the chain is walked again until a model answers.
ExhaustedStartsOver(c) ==
  /\ pc[c] = "raised" /\ link[c] = Len(Chain[c])
  /\ Enter(c, 1)
  /\ trail' = [trail EXCEPT ![c] = <<>>]
  /\ tried' = [tried EXCEPT ![c] = 1] /\ told' = [told EXCEPT ![c] = 0]
  /\ UNCHANGED <<asks, screen, rows>>

\* The last link's exception leaves complete.
Exhausted(c) ==
  /\ pc[c] = "raised" /\ link[c] = Len(Chain[c])
  /\ pc' = [pc EXCEPT ![c] = "exhausted"]
  /\ LinkOver(c)
  /\ UNCHANGED <<asks, link, attempt, faults, screen, rows, tried, told>>

\* Mutant: the row names the provider's own model.
AnswerChargesFirst(c) ==
  /\ pc[c] = "calling" /\ pc' = [pc EXCEPT ![c] = "answered"]
  /\ rows' = [rows EXCEPT ![c] = Append(@, Chain[c][1])]
  /\ UNCHANGED <<asks, link, attempt, faults, screen, tried, told, trail>>

\* to_response, which never raises over a price, and the ledger's one transaction.
Answer(c) ==
  /\ pc[c] = "calling" /\ pc' = [pc EXCEPT ![c] = "answered"]
  /\ rows' = [rows EXCEPT ![c] = Append(@, Model(c))]
  /\ UNCHANGED <<asks, link, attempt, faults, screen, tried, told, trail>>

\* The ledger's file is locked or full: the answer is lost, without a second one.
LedgerFails(c) ==
  /\ pc[c] = "calling" /\ pc' = [pc EXCEPT ![c] = "failed"]
  /\ UNCHANGED <<asks, link, attempt, faults, screen, rows, tried, told, trail>>

\* The task is cancelled at its await; no handler here takes a CancelledError.
Cancel(c) ==
  /\ pc[c] \in {"calling", "sleeping"} /\ pc' = [pc EXCEPT ![c] = "failed"]
  /\ UNCHANGED <<asks, link, attempt, faults, screen, rows, tried, told, trail>>

Step(c) ==
  \/ StreamFails(c) \/ CallFails(c) \/ Wake(c) \/ Switch(c) \/ Exhausted(c)
  \/ Answer(c) \/ LedgerFails(c)

Next == \E c \in Callers : Ask(c) \/ Delta(c) \/ Cancel(c) \/ Step(c)

Spec == Init /\ [][Next]_vars

\* A request returns or raises, and a sleep is over some time.
FairSpec == Spec /\ \A c \in Callers : WF_vars(Step(c))

-----------------------------------------------------------------------------
(***************************************************************************)
(* Properties.                                                             *)
(***************************************************************************)
state == [c \in Callers |-> IF pc[c] \in InFlight THEN "asked"
                            ELSE IF pc[c] = "exhausted" THEN "failed" ELSE pc[c]]

Contract == INSTANCE ProviderContract

\* One answer or a failure, one model's text on screen, one row for an answer, under the
\* model that gave it, whichever attempts, switches and streams failed on the way.
ContractKept == Contract!ContractSpec

\* Every attempt after the first, a retry or another link's, was reported once before it
\* began (FR-AGENT-08: "one event per retry"; _run's fallback_switch).
EveryAttemptIsTold ==
  \A c \in Callers \ Silent : pc[c] \in {"calling", "raised", "exhausted"} =>
    tried[c] = told[c] + 1

\* A call that fails for want of links has tried all of them; each was given up at its first
\* failure that is not an overload, and, unless it streams, not before its last attempt when
\* all were overloads (FR-AGENT-08; providers.py:552).
GivesUpInTime ==
  \A c \in Callers : pc[c] = "exhausted" =>
    /\ Len(trail[c]) = Len(Chain[c])
    /\ \A l \in Links(c) : LET last == Len(trail[c][l]) IN
         /\ \A n \in 1..(last - 1) : trail[c][l][n] = "overloaded"
         /\ trail[c][l][last] = "overloaded" /\ c \notin Streams => last = MaxRetries

\* However often its links fail, a call ends, after at most MaxRetries attempts on each.
AttemptsBounded ==
  \A c \in Callers : tried[c] <= Len(Chain[c]) * (IF c \in Streams THEN 1 ELSE MaxRetries)

\* Every call ends.
CompleteEnds == \A c \in Callers : pc[c] \in InFlight ~> pc[c] \notin InFlight
=============================================================================
