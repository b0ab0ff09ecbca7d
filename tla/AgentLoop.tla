----------------------------- MODULE AgentLoop -----------------------------
(***************************************************************************)
(* run_agent_loop (src/loom/agent/loop.py) and the transcript compaction   *)
(* it calls (src/loom/agent/context.py): one conversation with a provider, *)
(* tools in between, and in a build a grade after every reply in words.    *)
(*                                                                         *)
(* What a message says is left out: a tool's answer and a tool's failure   *)
(* are both a message the model can read.  Money and totals are integers   *)
(* in units of an arbitrary fraction; Scale is the total 1.0.              *)
(***************************************************************************)
EXTENDS Integers, Sequences, FiniteSets

CONSTANTS
  MaxTurns, MaxUsd,  \* the arguments max_turns and max_usd
  Costs, MaxCost,    \* what one provider call may cost, and an upper bound
  MaxCalls,          \* bound: tool calls in one reply
  HasRubric,         \* whether a grader was passed in
  Scale, Threshold, Epsilon, StallRounds,
  KeepTurns          \* KEEP_TURNS of the compaction

ASSUME LoopAssumption ==
  /\ MaxTurns \in Nat /\ MaxUsd \in Nat /\ MaxCalls \in Nat
  /\ MaxCost \in Nat \ {0} /\ Costs \subseteq 0..MaxCost
  /\ HasRubric \in BOOLEAN
  /\ Scale \in Nat /\ Threshold \in 0..Scale
  /\ Epsilon \in Nat \ {0} /\ StallRounds \in Nat \ {0}
  /\ KeepTurns \in Nat

Ids     == (1..MaxTurns) \X (1..MaxCalls)
Forms   == {"full", "gist"}
Totals  == 0..Scale
Unset   == -1  \* best = None; baseline = float("-inf")

\* An assistant message carries the ids it calls, a tool message the id it answers.
System        == [role |-> "system"]
User          == [role |-> "user"]
Assistant(ids) == [role |-> "assistant", ids |-> ids]
Tool(id, form) == [role |-> "tool", id |-> id, form |-> form]
Message == [role : {"system", "user"}]
           \cup [role : {"assistant"}, ids : Seq(Ids)]
           \cup [role : {"tool"}, id : Ids, form : Forms]

VARIABLES
  pc,        \* "top" of the for loop, "calling", "tools", "grading", "done", "raised"
  turn,      \* replies so far, turns_used
  usd,
  messages,
  pending,   \* the tool calls of the current reply that have no result yet
  best, baseline, flat,
  status,    \* LoopResult.status, "none" while the loop runs
  totals     \* history: every graded total, in order

score == <<best, baseline, flat, totals>>
vars  == <<pc, turn, usd, messages, pending, score, status>>

TypeOK ==
  /\ pc \in {"top", "calling", "tools", "grading", "done", "raised"}
  /\ turn \in 0..MaxTurns
  /\ usd \in Nat
  /\ messages \in Seq(Message)
  /\ pending \in Seq(Ids)
  /\ best \in Totals \cup {Unset}
  /\ baseline \in Totals \cup {Unset}
  /\ flat \in 0..StallRounds
  /\ status \in {"none", "passed", "budget_exhausted", "stalled", "blocked"}
  /\ totals \in Seq(Totals)

-----------------------------------------------------------------------------
(***************************************************************************)
(* compact: tool results older than the last KeepTurns turns shrink to a   *)
(* gist.  A turn begins at an assistant message.  (A result of no more     *)
(* than GIST_CHARS is its own gist.)                                       *)
(***************************************************************************)
TurnsUpTo(ms, k) == Cardinality({j \in 1..k : ms[j].role = "assistant"})

\* Mutants: one turn too many is shrunk; old results are dropped, not shrunk.
CompactEager(ms) ==
  [k \in 1..Len(ms) |->
     IF /\ ms[k].role = "tool" /\ ms[k].form = "full"
        /\ TurnsUpTo(ms, k) <= TurnsUpTo(ms, Len(ms)) - KeepTurns + 1
       THEN [ms[k] EXCEPT !.form = "gist"] ELSE ms[k]]
CompactDropping(ms) ==
  LET recent(m) == m.role # "tool" \/ m.form # "full"
  IN  IF TurnsUpTo(ms, Len(ms)) <= KeepTurns THEN ms ELSE SelectSeq(ms, recent)

Compact(ms) ==
  [k \in 1..Len(ms) |->
     IF /\ ms[k].role = "tool" /\ ms[k].form = "full"
        /\ TurnsUpTo(ms, k) <= TurnsUpTo(ms, Len(ms)) - KeepTurns
       THEN [ms[k] EXCEPT !.form = "gist"] ELSE ms[k]]

-----------------------------------------------------------------------------
Finish(s) == pc' = "done" /\ status' = s

\* The loop variable runs out.
OutOfTurns ==
  /\ pc = "top" /\ turn = MaxTurns
  /\ Finish("budget_exhausted")
  /\ UNCHANGED <<turn, usd, messages, pending, score>>

\* The check before the call, never after it.
OutOfMoney ==
  /\ pc = "top" /\ turn < MaxTurns
  /\ usd >= MaxUsd
  /\ Finish("budget_exhausted")
  /\ UNCHANGED <<turn, usd, messages, pending, score>>

\* Mutant: no check of the money.
CallProviderUnchecked ==
  /\ pc = "top" /\ turn < MaxTurns
  /\ messages' \in {messages, Compact(messages)}
  /\ pc' = "calling"
  /\ UNCHANGED <<turn, usd, pending, score, status>>

\* A transcript over COMPACT_ABOVE_CHARS is compacted first; how long the
\* transcript is in characters is not modelled, so it may be at any turn.
CallProvider ==
  /\ pc = "top" /\ turn < MaxTurns
  /\ usd < MaxUsd
  /\ messages' \in {messages, Compact(messages)}
  /\ pc' = "calling"
  /\ UNCHANGED <<turn, usd, pending, score, status>>

Charge == turn' = turn + 1 /\ \E c \in Costs : usd' = usd + c

\* Tool calls, with or without words: answered one by one before the next turn.
ReplyWithCalls ==
  /\ pc = "calling"
  /\ Charge
  /\ \E n \in 1..MaxCalls :
       LET ids == [i \in 1..n |-> <<turn + 1, i>>]
       IN  messages' = Append(messages, Assistant(ids)) /\ pending' = ids
  /\ pc' = "tools"
  /\ UNCHANGED <<score, status>>

\* Mutant: the result of a call that failed is not written down.
DispatchDropsFailure ==
  /\ pc = "tools"
  /\ messages' \in {messages, Append(messages, Tool(Head(pending), "full"))}
  /\ pending' = Tail(pending)
  /\ pc' = IF Len(pending) = 1 THEN "top" ELSE "tools"
  /\ UNCHANGED <<turn, usd, score, status>>

\* _dispatch: a result, or the text of the error; ask_user goes the same way.
Dispatch ==
  /\ pc = "tools"
  /\ messages' = Append(messages, Tool(Head(pending), "full"))
  /\ pending' = Tail(pending)
  /\ pc' = IF Len(pending) = 1 THEN "top" ELSE "tools"
  /\ UNCHANGED <<turn, usd, score, status>>

Say == messages' = Append(messages, Assistant(<<>>))

ReplyEmpty ==
  /\ pc = "calling"
  /\ Charge /\ Say
  /\ Finish("blocked")
  /\ UNCHANGED <<pending, score>>

ReplyWithText ==
  /\ pc = "calling"
  /\ Charge /\ Say
  /\ IF HasRubric THEN pc' = "grading" /\ UNCHANGED status ELSE Finish("passed")
  /\ UNCHANGED <<pending, score>>

-----------------------------------------------------------------------------
(***************************************************************************)
(* A graded round.  baseline moves only when a total beats it by Epsilon.  *)
(***************************************************************************)
Best(t) == IF t > best THEN t ELSE best

\* Mutants: every round after the first is flat; standing still is progress.
IsProgressNever(t) == baseline = Unset
IsProgressFlat(t)  == t >= baseline

IsProgress(t) == baseline = Unset \/ t >= baseline + Epsilon

Grade ==
  /\ pc = "grading"
  /\ \E t \in Totals :
       /\ totals' = Append(totals, t)
       /\ best' = Best(t)
       /\ IF t >= Threshold
            THEN Finish("passed") /\ UNCHANGED <<baseline, flat, messages>>
          ELSE IF IsProgress(t)
            THEN /\ baseline' = t /\ flat' = 0
                 /\ messages' = Append(messages, User)
                 /\ pc' = "top" /\ UNCHANGED status
          ELSE /\ flat' = flat + 1 /\ UNCHANGED baseline
               /\ IF flat + 1 >= StallRounds
                    THEN Finish("stalled") /\ UNCHANGED messages
                    ELSE /\ messages' = Append(messages, User)
                         /\ pc' = "top" /\ UNCHANGED status
  /\ UNCHANGED <<turn, usd, pending>>

\* The provider, the grader or a signal raises: the loop returns nothing.
Raise ==
  /\ pc \in {"calling", "tools", "grading"}
  /\ pc' = "raised"
  /\ UNCHANGED <<turn, usd, messages, pending, score, status>>

Init ==
  /\ pc = "top" /\ turn = 0 /\ usd = 0
  /\ messages = <<System, User>> /\ pending = <<>>
  /\ best = Unset /\ baseline = Unset /\ flat = 0 /\ totals = <<>>
  /\ status = "none"

Next ==
  \/ OutOfTurns \/ OutOfMoney \/ CallProvider
  \/ ReplyWithCalls \/ Dispatch \/ ReplyEmpty \/ ReplyWithText \/ Grade
  \/ Raise

Spec == Init /\ [][Next]_vars

-----------------------------------------------------------------------------
\* What a provider is sent: every call of an assistant message is answered by the
\* tool messages that follow it, in order, and no tool message answers anything
\* else (else a hard 400); it is the user's or the tools' turn to have spoken.
Answered(ms, k) ==
  \A i \in 1..Len(ms[k].ids) :
    k + i <= Len(ms) /\ ms[k + i].role = "tool" /\ ms[k + i].id = ms[k].ids[i]
Asked(ms, k) ==
  \E j \in 1..(k - 1) : ms[j].role = "assistant" /\ k - j <= Len(ms[j].ids)
TranscriptIsValid ==
  pc = "calling" =>
    /\ \A k \in 1..Len(messages) :
         /\ messages[k].role = "assistant" => Answered(messages, k)
         /\ messages[k].role = "tool" => Asked(messages, k)
    /\ messages[Len(messages)].role # "assistant"

\* Compaction leaves the last KeepTurns turns verbatim, however often it has run.
RecentIsVerbatim ==
  \A k \in 1..Len(messages) :
    messages[k].role = "tool" /\ messages[k].form = "gist" =>
      TurnsUpTo(messages, k) <= TurnsUpTo(messages, Len(messages)) - KeepTurns

\* A conversation never costs as much as its ceiling and one call more.
UsdBound == usd < MaxUsd + MaxCost

\* "stalled" is said of StallRounds rounds in a row none of which came Epsilon
\* above the round before them, and of no less.
StalledIsSound ==
  status = "stalled" =>
    LET n == Len(totals) - StallRounds
    IN  n > 0 /\ \A j \in (n + 1)..Len(totals) : totals[j] < totals[n] + Epsilon

\* A model that cannot get above a total in StallRounds rounds is not paid for
\* another one.
StallIsCaught ==
  pc \in {"top", "calling"} /\ Len(totals) > StallRounds =>
    LET n == Len(totals) - StallRounds
    IN  \E j \in (n + 1)..Len(totals) : totals[j] > totals[n]

\* The number of graded rounds is bounded by the threshold alone: each StallRounds
\* of them must raise the baseline by Epsilon, whatever MaxTurns is.
RoundsAreBounded ==
  Epsilon * (Len(totals) - 1 - StallRounds) <= StallRounds * (Threshold - 1)
=============================================================================
