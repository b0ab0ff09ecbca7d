---------------------------- MODULE Agent_proofs ----------------------------
(***************************************************************************)
(* Theorems about the agent loop, for every number of turns, ceiling,      *)
(* price list, threshold and scale.  First the types; then the rounds of   *)
(* grading, by an invariant that relates baseline and flat to the totals   *)
(* graded so far; then the transcript, by an invariant that says which     *)
(* calls the tool messages so far have answered; then what compaction      *)
(* leaves alone.                                                           *)
(***************************************************************************)
EXTENDS AgentLoop, Tools, SequenceTheorems, FiniteSetTheorems, TLAPS

-----------------------------------------------------------------------------
(* What compaction keeps: everything but the form of a tool message.       *)

LEMMA CompactIsTyped ==
  ASSUME NEW ms \in Seq(Message)
  PROVE  Compact(ms) \in Seq(Message)
<1> DEFINE Old(k) == /\ ms[k].role = "tool" /\ ms[k].form = "full"
                     /\ TurnsUpTo(ms, k) <= TurnsUpTo(ms, Len(ms)) - KeepTurns
           Shrunk(k) == IF Old(k) THEN [ms[k] EXCEPT !.form = "gist"] ELSE ms[k]
<1>1. ASSUME NEW k \in 1..Len(ms)
      PROVE  Shrunk(k) \in Message
  <2>1. ms[k] \in Message
    OBVIOUS
  <2>2. CASE ms[k].role = "tool"
    <3>1. ms[k] \in [role : {"tool"}, id : Ids, form : Forms]
      BY <2>1, <2>2 DEF Message
    <3>2. [ms[k] EXCEPT !.form = "gist"] \in [role : {"tool"}, id : Ids, form : Forms]
      BY <3>1 DEF Forms
    <3> QED BY <2>1, <3>2 DEF Message
  <2>3. CASE ms[k].role # "tool"
    BY <2>1, <2>3
  <2> QED BY <2>2, <2>3
<1>2. Compact(ms) = [k \in 1..Len(ms) |-> Shrunk(k)]
  BY DEF Compact
<1> HIDE DEF Shrunk
<1> QED BY <1>1, <1>2

LEMMA CompactKeeps ==
  ASSUME NEW ms \in Seq(Message)
  PROVE  /\ Len(Compact(ms)) = Len(ms)
         /\ \A k \in 1..Len(ms) :
              /\ Compact(ms)[k].role = ms[k].role
              /\ ms[k].role = "assistant" => Compact(ms)[k] = ms[k]
              /\ ms[k].role = "tool" => Compact(ms)[k].id = ms[k].id
<1>1. Len(Compact(ms)) = Len(ms)
  BY CompactIsTyped DEF Compact
<1>2. ASSUME NEW k \in 1..Len(ms)
      PROVE  /\ Compact(ms)[k].role = ms[k].role
             /\ ms[k].role = "assistant" => Compact(ms)[k] = ms[k]
             /\ ms[k].role = "tool" => Compact(ms)[k].id = ms[k].id
  <2>1. CASE ms[k].role = "tool"
    <3>1. ms[k] \in [role : {"tool"}, id : Ids, form : Forms]
      BY <2>1 DEF Message
    <3>2. Compact(ms)[k] \in {ms[k], [ms[k] EXCEPT !.form = "gist"]}
      BY DEF Compact
    <3> QED BY <2>1, <3>1, <3>2
  <2>2. CASE ms[k].role # "tool"
    BY <2>2 DEF Compact
  <2> QED BY <2>1, <2>2
<1> QED BY <1>1, <1>2

-----------------------------------------------------------------------------
LEMMA MessagesAreTyped ==
  /\ System \in Message /\ User \in Message
  /\ \A ids \in Seq(Ids) : Assistant(ids) \in Message
  /\ \A id \in Ids, form \in Forms : Tool(id, form) \in Message
BY DEF System, User, Assistant, Tool, Message

(***************************************************************************)
(* TypeOK is not inductive: a turn is only counted when the reply is there *)
(* and a flat round only before the loop may go on.                        *)
(***************************************************************************)
Control ==
  /\ pc = "calling" => turn < MaxTurns
  /\ pc = "tools" => pending # <<>>
  /\ pc # "done" => flat < StallRounds /\ status = "none"

LEMMA StepTyped ==
  ASSUME TypeOK, Control, [Next]_vars
  PROVE  TypeOK' /\ Control'
<1>0. /\ messages \in Seq(Message) /\ pending \in Seq(Ids)
      /\ totals \in Seq(Totals)
      /\ turn \in Nat /\ usd \in Nat /\ MaxTurns \in Nat
  BY LoopAssumption DEF TypeOK
<1>1. CASE OutOfTurns \/ OutOfMoney \/ Raise
  BY <1>1 DEF OutOfTurns, OutOfMoney, Raise, Finish, score, TypeOK, Control
<1>2. CASE CallProvider
  <2>1. messages' \in Seq(Message)
    BY <1>0, <1>2, CompactIsTyped DEF CallProvider
  <2> QED BY <1>0, <1>2, <2>1 DEF CallProvider, score, TypeOK, Control
<1>3. ASSUME Charge, pc = "calling"
      PROVE  turn' \in 0..MaxTurns /\ usd' \in Nat
  BY <1>0, <1>3, LoopAssumption DEF Charge, Control
<1>4. CASE ReplyWithCalls
  <2>1. PICK n \in 1..MaxCalls :
          LET ids == [i \in 1..n |-> <<turn + 1, i>>]
          IN  messages' = Append(messages, Assistant(ids)) /\ pending' = ids
    BY <1>4 DEF ReplyWithCalls
  <2> DEFINE ids == [i \in 1..n |-> <<turn + 1, i>>]
  <2>2. n \in Nat /\ n <= MaxCalls /\ n >= 1 /\ turn < MaxTurns
    BY <1>4, LoopAssumption DEF ReplyWithCalls, Control
  <2>3. ids \in Seq(Ids) /\ Len(ids) = n
    <3>1. \A i \in 1..n : <<turn + 1, i>> \in Ids
      BY <1>0, <2>2, LoopAssumption DEF Ids
    <3> QED BY <2>2, <3>1
  <2> HIDE DEF ids
  <2>4. messages' = Append(messages, Assistant(ids)) /\ pending' = ids
    BY <2>1 DEF ids
  <2>5. messages' \in Seq(Message) /\ pending' \in Seq(Ids) /\ pending' # <<>>
    BY <1>0, <2>2, <2>3, <2>4, MessagesAreTyped
  <2>6. turn' \in 0..MaxTurns /\ usd' \in Nat
    BY <1>3, <1>4 DEF ReplyWithCalls
  <2> QED BY <1>4, <2>5, <2>6
          DEF ReplyWithCalls, score, TypeOK, Control
<1>5. CASE Dispatch
  <2>1. /\ Head(pending) \in Ids /\ Tail(pending) \in Seq(Ids)
        /\ Len(pending) # 1 => Tail(pending) # <<>>
    <3>1. pending # <<>>
      BY <1>5 DEF Dispatch, Control
    <3>2. Head(pending) \in Ids /\ Tail(pending) \in Seq(Ids)
      BY <1>0, <3>1, HeadTailProperties
    <3>3. Len(Tail(pending)) = Len(pending) - 1 /\ Len(pending) \in Nat \ {0}
      BY <1>0, <3>1
    <3>4. Tail(pending) = <<>> => Len(Tail(pending)) = 0
      BY EmptySeq
    <3> QED BY <3>2, <3>3, <3>4
  <2>2. messages' \in Seq(Message)
    <3>1. Tool(Head(pending), "full") \in Message
      BY <2>1, MessagesAreTyped DEF Forms
    <3> QED BY <1>0, <1>5, <3>1 DEF Dispatch
  <2> QED BY <1>5, <2>1, <2>2 DEF Dispatch, score, TypeOK, Control
<1>6. CASE ReplyEmpty \/ ReplyWithText
  <2>1. messages' \in Seq(Message)
    <3>1. Assistant(<<>>) \in Message
      <4>1. <<>> \in Seq(Ids)
        OBVIOUS
      <4> QED BY <4>1, MessagesAreTyped
    <3>2. messages' = Append(messages, Assistant(<<>>))
      BY <1>6 DEF ReplyEmpty, ReplyWithText, Say
    <3> QED BY <1>0, <3>1, <3>2
  <2>2. turn' \in 0..MaxTurns /\ usd' \in Nat
    BY <1>3, <1>6 DEF ReplyEmpty, ReplyWithText
  <2> QED BY <1>6, <2>1, <2>2
          DEF ReplyEmpty, ReplyWithText, Finish, score, TypeOK, Control
<1>7. CASE Grade
  <2>1. PICK t \in Totals :
          /\ totals' = Append(totals, t)
          /\ best' = Best(t)
          /\ \/ pc' = "done" /\ status' \in {"passed", "stalled"}
                /\ UNCHANGED messages /\ baseline' = baseline
                /\ flat' \in {flat, flat + 1}
             \/ /\ pc' = "top" /\ UNCHANGED status
                /\ messages' = Append(messages, User)
                /\ baseline' \in {baseline, t}
                /\ flat' = 0 \/ (flat' = flat + 1 /\ ~(flat + 1 >= StallRounds))
    BY <1>7 DEF Grade, Finish
  <2>2. /\ flat' \in 0..StallRounds
        /\ pc' = "top" => flat' < StallRounds
    BY <1>7, <2>1, LoopAssumption DEF Grade, TypeOK, Control
  <2>3. messages' \in Seq(Message) /\ totals' \in Seq(Totals)
    <3>1. messages' = messages \/ messages' = Append(messages, User)
      BY <2>1
    <3>2. User \in Message
      BY MessagesAreTyped
    <3>3. messages' \in Seq(Message)
      BY <1>0, <3>1, <3>2
    <3>4. totals' \in Seq(Totals)
      BY <1>0, <2>1
    <3> QED BY <3>3, <3>4
  <2>4. best' \in Totals \cup {Unset} /\ baseline' \in Totals \cup {Unset}
    BY <2>1 DEF Best, TypeOK
  <2> QED BY <1>7, <2>1, <2>2, <2>3, <2>4 DEF Grade, TypeOK, Control
<1>8. CASE UNCHANGED vars
  BY <1>8 DEF vars, score, TypeOK, Control
<1> QED BY <1>1, <1>2, <1>4, <1>5, <1>6, <1>7, <1>8 DEF Next

LEMMA Typed == Spec => [](TypeOK /\ Control)
<1>1. Init => TypeOK /\ Control
  <2> SUFFICES ASSUME Init PROVE TypeOK /\ Control
    OBVIOUS
  <2>1. messages \in Seq(Message)
    BY MessagesAreTyped DEF Init
  <2> QED BY <2>1, LoopAssumption DEF Init, TypeOK, Control
<1>2. TypeOK /\ Control /\ [Next]_vars => TypeOK' /\ Control'
  BY StepTyped
<1> QED BY <1>1, <1>2, PTL DEF Spec

\* Every reachable state of the loop is typed: no turn past MaxTurns, no flat round
\* past StallRounds, a transcript of well-formed messages.
THEOREM TypeCorrect == Spec => []TypeOK
BY Typed, PTL

\* The check stands before every call, so one call is all the loop can overspend.
THEOREM UsdHolds == Spec => []UsdBound
<1> DEFINE Afford == pc = "calling" => usd < MaxUsd
<1>1. Init => UsdBound /\ Afford
  BY LoopAssumption DEF Init, UsdBound
<1>2. TypeOK /\ UsdBound /\ Afford /\ [Next]_vars => UsdBound' /\ Afford'
  <2> SUFFICES ASSUME TypeOK, UsdBound, Afford, [Next]_vars
               PROVE  UsdBound' /\ Afford'
    OBVIOUS
  <2>1. CASE ReplyWithCalls \/ ReplyEmpty \/ ReplyWithText
    <3>1. pc = "calling" /\ pc' # "calling" /\ Charge
      BY <2>1 DEF ReplyWithCalls, ReplyEmpty, ReplyWithText, Finish
    <3>2. PICK c \in Costs : usd' = usd + c
      BY <3>1 DEF Charge
    <3>3. c \in Nat /\ c <= MaxCost /\ usd \in Nat /\ MaxUsd \in Nat /\ MaxCost \in Nat
      BY LoopAssumption DEF TypeOK
    <3> QED BY <3>1, <3>2, <3>3 DEF UsdBound
  <2>2. CASE CallProvider
    BY <2>2 DEF CallProvider, UsdBound
  <2>3. CASE OutOfTurns \/ OutOfMoney \/ Dispatch \/ Grade \/ Raise
    <3>1. usd' = usd /\ pc' # "calling"
      BY <2>3 DEF OutOfTurns, OutOfMoney, Dispatch, Grade, Raise, Finish
    <3> QED BY <3>1 DEF UsdBound
  <2>4. CASE UNCHANGED vars
    BY <2>4 DEF vars, UsdBound
  <2> QED BY <2>1, <2>2, <2>3, <2>4 DEF Next
<1> QED BY <1>1, <1>2, TypeCorrect, PTL DEF Spec

-----------------------------------------------------------------------------
(***************************************************************************)
(* The graded rounds.  While the loop runs, baseline is the total of round *)
(* p, flat rounds ago: the rounds before p stayed below it, those after it *)
(* did not come Epsilon above it, and reaching it has taken no more rounds *)
(* than StallRounds for each Epsilon.                                      *)
(***************************************************************************)
P == Len(totals) - flat
Rounds ==
  \/ baseline = Unset /\ totals = <<>> /\ flat = 0
  \/ /\ baseline \in 0..(Threshold - 1)
     /\ P > 0 /\ totals[P] = baseline
     /\ \A j \in 1..Len(totals) : /\ j < P => totals[j] < baseline
                                  /\ j > P => totals[j] < baseline + Epsilon
     /\ Epsilon * (P - 1) <= StallRounds * baseline
RoundsInv == (pc # "done" => Rounds) /\ StalledIsSound /\ RoundsAreBounded

LEMMA Monotone ==
  ASSUME NEW a \in Nat, NEW b \in Int, NEW c \in Int, b <= c
  PROVE  a * b <= a * c
<1>1. a * (c - b) >= 0
  BY SMT
<1>2. a * (c - b) = a * c - a * b
  BY SMT
<1> QED BY <1>1, <1>2

\* One more round can always be had within the bound while the loop runs.
LEMMA OneMoreRound ==
  ASSUME TypeOK, Control, Rounds, pc # "done"
  PROVE  /\ Epsilon * (Len(totals) - StallRounds) <= StallRounds * (Threshold - 1)
         /\ RoundsAreBounded
<1>0. /\ Epsilon \in Nat /\ Epsilon >= 1 /\ StallRounds \in Nat /\ StallRounds >= 1
      /\ Threshold \in Nat /\ Len(totals) \in Nat /\ flat \in Nat /\ flat < StallRounds
  BY LoopAssumption DEF TypeOK, Control
<1> DEFINE L == Len(totals)
<1>1. Epsilon * (L - StallRounds) <= StallRounds * (Threshold - 1)
  <2>1. CASE baseline = Unset /\ totals = <<>> /\ flat = 0
    <3>1. L = 0
      BY <2>1
    <3>2. StallRounds * (-1) <= StallRounds * (Threshold - 1)
      BY <1>0, Monotone
    <3>3. StallRounds * 1 <= StallRounds * Epsilon
      BY <1>0, Monotone
    <3>4. Epsilon * (L - StallRounds) = -(StallRounds * Epsilon)
      BY <1>0, <3>1
    <3> QED BY <1>0, <3>2, <3>3, <3>4
  <2>2. CASE baseline # Unset
    <3>1. /\ baseline \in Nat /\ baseline <= Threshold - 1
          /\ Epsilon * (P - 1) <= StallRounds * baseline
      BY <1>0, <2>2 DEF Rounds
    <3>2. StallRounds * baseline <= StallRounds * (Threshold - 1)
      BY <1>0, <3>1, Monotone
    <3>3. L - StallRounds <= P - 1 /\ P \in Int
      BY <1>0 DEF P
    <3>4. Epsilon * (L - StallRounds) <= Epsilon * (P - 1)
      BY <1>0, <3>3, Monotone
    <3>5. /\ Epsilon * (L - StallRounds) \in Int /\ Epsilon * (P - 1) \in Int
          /\ StallRounds * baseline \in Int /\ StallRounds * (Threshold - 1) \in Int
      BY <1>0, <3>1, <3>3
    <3> QED BY <3>1, <3>2, <3>4, <3>5
  <2> QED BY <1>0, <2>1, <2>2 DEF Rounds, Unset
<1>2. Epsilon * (L - 1 - StallRounds) <= Epsilon * (L - StallRounds)
  BY <1>0, Monotone
<1>3. /\ Epsilon * (L - StallRounds) \in Int /\ Epsilon * (L - 1 - StallRounds) \in Int
      /\ StallRounds * (Threshold - 1) \in Int
  BY <1>0
<1> QED BY <1>1, <1>2, <1>3 DEF RoundsAreBounded

LEMMA GradeKeepsRounds ==
  ASSUME TypeOK, Control, RoundsInv, Grade
  PROVE  RoundsInv'
<1>0. /\ Epsilon \in Nat /\ Epsilon >= 1 /\ StallRounds \in Nat /\ StallRounds >= 1
      /\ Threshold \in Nat /\ flat \in Nat /\ flat < StallRounds
      /\ totals \in Seq(Totals) /\ Scale \in Nat
      /\ pc = "grading" /\ Rounds /\ status = "none"
  BY LoopAssumption DEF TypeOK, Control, RoundsInv, Grade
<1>1. PICK t \in Totals :
        /\ totals' = Append(totals, t)
        /\ \/ pc' = "done" /\ status' = "passed"
           \/ /\ t < Threshold /\ IsProgress(t)
              /\ baseline' = t /\ flat' = 0 /\ pc' = "top" /\ status' = status
           \/ /\ t < Threshold /\ ~IsProgress(t)
              /\ flat' = flat + 1 /\ baseline' = baseline
              /\ \/ flat + 1 >= StallRounds /\ pc' = "done" /\ status' = "stalled"
                 \/ flat + 1 < StallRounds /\ pc' = "top" /\ status' = status
  <2>1. PICK t \in Totals :
          /\ totals' = Append(totals, t)
          /\ IF t >= Threshold
               THEN Finish("passed") /\ UNCHANGED <<baseline, flat, messages>>
             ELSE IF IsProgress(t)
               THEN /\ baseline' = t /\ flat' = 0
                    /\ messages' = Append(messages, User)
                    /\ pc' = "top" /\ UNCHANGED status
             ELSE /\ flat' = flat + 1 /\ UNCHANGED baseline
                  /\ IF flat + 1 >= StallRounds
                       THEN Finish("stalled") /\ UNCHANGED messages
                       ELSE /\ messages' = Append(messages, User)
                            /\ pc' = "top" /\ UNCHANGED status
    BY DEF Grade
  <2>2. t \in Int
    BY <1>0 DEF Totals
  <2> QED BY <1>0, <2>1, <2>2 DEF Finish
<1> DEFINE L == Len(totals)
<1>2. /\ L \in Nat /\ Len(totals') = L + 1 /\ totals'[L + 1] = t
      /\ \A j \in 1..L : totals'[j] = totals[j] /\ totals[j] \in Nat
      /\ t \in Nat
  BY <1>0, <1>1 DEF Totals
<1>3. RoundsAreBounded'
  <2>1. Epsilon * (L - StallRounds) <= StallRounds * (Threshold - 1)
    BY <1>0, OneMoreRound
  <2>2. Len(totals') - 1 - StallRounds = L - StallRounds
    BY <1>0, <1>2
  <2> QED BY <2>1, <2>2 DEF RoundsAreBounded
<1>4. CASE pc' = "done" /\ status' = "passed"
  BY <1>3, <1>4 DEF RoundsInv, StalledIsSound
<1>5. CASE t < Threshold /\ IsProgress(t) /\ baseline' = t /\ flat' = 0
           /\ pc' = "top" /\ status' = status
  <2>1. P' = L + 1
    BY <1>2, <1>5 DEF P
  <2>2. \A j \in 1..L : totals[j] < t
    <3>1. CASE baseline = Unset /\ totals = <<>>
      BY <3>1
    <3>2. CASE baseline # Unset
      <4>1. t >= baseline + Epsilon /\ baseline \in Nat /\ P \in Int /\ totals[P] = baseline
        BY <1>0, <1>2, <1>5, <3>2 DEF IsProgress, Rounds, P
      <4>2. \A j \in 1..L : /\ j < P => totals[j] < baseline
                            /\ j > P => totals[j] < baseline + Epsilon
        BY <1>0, <3>2 DEF Rounds
      <4> QED BY <1>0, <1>2, <4>1, <4>2
    <3> QED BY <1>0, <3>1, <3>2 DEF Rounds, Unset
  <2>3. Epsilon * (P' - 1) <= StallRounds * t
    <3>1. CASE baseline = Unset /\ totals = <<>>
      <4>1. P' - 1 = 0
        BY <2>1, <3>1
      <4>2. StallRounds * 0 <= StallRounds * t
        BY <1>0, <1>2, Monotone
      <4> QED BY <1>0, <4>1, <4>2
    <3>2. CASE baseline # Unset
      <4>1. /\ t >= baseline + Epsilon /\ baseline \in Nat /\ P \in Int
            /\ Epsilon * (P - 1) <= StallRounds * baseline
        BY <1>0, <1>2, <1>5, <3>2 DEF IsProgress, Rounds, P
      <4>2. Epsilon * L <= Epsilon * ((P - 1) + StallRounds)
        <5>1. L <= (P - 1) + StallRounds
          BY <1>0, <1>2 DEF P
        <5> QED BY <1>0, <1>2, <4>1, <5>1, Monotone
      <4>3. Epsilon * ((P - 1) + StallRounds) = Epsilon * (P - 1) + StallRounds * Epsilon
        BY <1>0, <4>1
      <4>4. StallRounds * (baseline + Epsilon) <= StallRounds * t
        BY <1>0, <1>2, <4>1, Monotone
      <4>5. StallRounds * (baseline + Epsilon) = StallRounds * baseline + StallRounds * Epsilon
        BY <1>0, <4>1
      <4>6. /\ Epsilon * L \in Int /\ Epsilon * (P - 1) \in Int /\ StallRounds * t \in Int
            /\ StallRounds * baseline \in Int /\ StallRounds * Epsilon \in Int
        BY <1>0, <1>2, <4>1
      <4>7. Epsilon * L <= StallRounds * t
        BY <4>1, <4>2, <4>3, <4>4, <4>5, <4>6
      <4> QED BY <2>1, <4>7, <1>2
    <3> QED BY <1>0, <3>1, <3>2 DEF Rounds, Unset
  <2>4. Rounds'
    <3>1. baseline' \in 0..(Threshold - 1)
      BY <1>0, <1>2, <1>5
    <3>2. P' > 0 /\ totals'[P'] = baseline'
      BY <1>2, <1>5, <2>1
    <3>3. \A j \in 1..Len(totals') : /\ j < P' => totals'[j] < baseline'
                                     /\ j > P' => totals'[j] < baseline' + Epsilon
      BY <1>2, <1>5, <2>1, <2>2
    <3>4. Epsilon * (P' - 1) <= StallRounds * baseline'
      BY <1>5, <2>3
    <3> QED BY <3>1, <3>2, <3>3, <3>4 DEF Rounds
  <2> QED BY <1>0, <1>3, <1>5, <2>4 DEF RoundsInv, StalledIsSound
<1>6. CASE /\ t < Threshold /\ ~IsProgress(t) /\ flat' = flat + 1 /\ baseline' = baseline
           /\ \/ flat + 1 >= StallRounds /\ pc' = "done" /\ status' = "stalled"
              \/ flat + 1 < StallRounds /\ pc' = "top" /\ status' = status
  <2>1. P' = P /\ P \in Int /\ P <= L
    BY <1>0, <1>2, <1>6 DEF P
  <2>2. /\ baseline \in 0..(Threshold - 1) /\ P > 0 /\ totals[P] = baseline
        /\ \A j \in 1..L : /\ j < P => totals[j] < baseline
                           /\ j > P => totals[j] < baseline + Epsilon
        /\ Epsilon * (P - 1) <= StallRounds * baseline
        /\ t < baseline + Epsilon
    BY <1>0, <1>2, <1>6 DEF IsProgress, Rounds
  <2>5. /\ P' > 0 /\ totals'[P'] = baseline'
        /\ \A j \in 1..Len(totals') : /\ j < P' => totals'[j] < baseline'
                                      /\ j > P' => totals'[j] < baseline' + Epsilon
    <3>1. totals'[P] = baseline
      BY <1>2, <2>1, <2>2
    <3>2. \A j \in 1..L : /\ j < P => totals'[j] < baseline
                          /\ j > P => totals'[j] < baseline + Epsilon
      BY <1>2, <2>2
    <3>3. totals'[L + 1] < baseline + Epsilon /\ ~(L + 1 < P)
      BY <1>2, <2>1, <2>2
    <3>4. \A j \in 1..(L + 1) : j \in 1..L \/ j = L + 1
      BY <1>2
    <3>5. \A j \in 1..(L + 1) : /\ j < P => totals'[j] < baseline
                                /\ j > P => totals'[j] < baseline + Epsilon
      BY <3>2, <3>3, <3>4
    <3> QED BY <1>2, <1>6, <2>1, <2>2, <3>1, <3>5
  <2>3. Rounds'
    BY <1>6, <2>1, <2>2, <2>5 DEF Rounds
  <2>4. StalledIsSound'
    <3>1. SUFFICES ASSUME status' = "stalled"
                   PROVE  StalledIsSound'
      BY DEF StalledIsSound
    <3>2. flat' = StallRounds
      BY <1>0, <1>6, <3>1
    <3>3. Len(totals') - StallRounds = P'
      BY <3>2 DEF P
    <3>4. \A j \in (P' + 1)..Len(totals') : totals'[j] < baseline' + Epsilon
      <4>1. \A j \in (P' + 1)..Len(totals') : j \in 1..Len(totals') /\ j > P'
        BY <1>2, <2>1, <2>2
      <4> QED BY <2>5, <4>1
    <3> QED BY <2>5, <3>3, <3>4 DEF StalledIsSound
  <2> QED BY <1>3, <2>3, <2>4 DEF RoundsInv
<1> QED BY <1>1, <1>4, <1>5, <1>6

LEMMA RoundsInvariant == Spec => []RoundsInv
<1>1. Init => RoundsInv
  <2> SUFFICES ASSUME Init PROVE RoundsInv
    OBVIOUS
  <2>1. Rounds /\ pc # "done" /\ StalledIsSound
    BY DEF Init, Rounds, StalledIsSound
  <2>2. TypeOK /\ Control
    BY MessagesAreTyped, LoopAssumption DEF Init, TypeOK, Control
  <2> QED BY <2>1, <2>2, OneMoreRound DEF RoundsInv
<1>2. TypeOK /\ Control /\ RoundsInv /\ [Next]_vars => RoundsInv'
  <2> SUFFICES ASSUME TypeOK, Control, RoundsInv, [Next]_vars
               PROVE  RoundsInv'
    OBVIOUS
  <2>1. CASE Grade
    BY <2>1, GradeKeepsRounds
  <2>2. CASE UNCHANGED score /\ status' = status /\ (pc' = "done" <=> pc = "done")
    BY <2>2 DEF RoundsInv, Rounds, P, StalledIsSound, RoundsAreBounded, score
  <2>3. CASE UNCHANGED score /\ pc' = "done" /\ status' # "stalled"
    BY <2>3 DEF RoundsInv, StalledIsSound, RoundsAreBounded, score
  <2>4. CASE OutOfTurns \/ OutOfMoney \/ ReplyEmpty
    BY <2>3, <2>4 DEF OutOfTurns, OutOfMoney, ReplyEmpty, Finish
  <2>5. CASE CallProvider \/ ReplyWithCalls \/ Dispatch \/ Raise
    BY <2>2, <2>5 DEF CallProvider, ReplyWithCalls, Dispatch, Raise
  <2>6. CASE ReplyWithText
    BY <2>2, <2>3, <2>6 DEF ReplyWithText, Finish
  <2>7. CASE UNCHANGED vars
    BY <2>2, <2>7 DEF vars
  <2> QED BY <2>1, <2>4, <2>5, <2>6, <2>7 DEF Next
<1> QED BY <1>1, <1>2, Typed, PTL DEF Spec

\* "stalled" is never said too early: StallRounds rounds failed to come Epsilon
\* above the round before them.
THEOREM StalledHolds == Spec => []StalledIsSound
BY RoundsInvariant, PTL DEF RoundsInv

\* The rounds a build can be graded are bounded by the threshold, the least progress
\* that counts and the patience, and by nothing the model or its replies can do.
THEOREM RoundsBounded == Spec => []RoundsAreBounded
BY RoundsInvariant, PTL DEF RoundsInv

\* ... and it is never said too late: while the loop still asks the model, one of
\* the last StallRounds rounds did better than the round before them.
THEOREM StallCaught == Spec => []StallIsCaught
<1>1. TypeOK /\ Control /\ RoundsInv => StallIsCaught
  <2> SUFFICES ASSUME TypeOK, Control, RoundsInv,
                      pc \in {"top", "calling"}, Len(totals) > StallRounds
               PROVE  \E j \in (Len(totals) - StallRounds + 1)..Len(totals) :
                        totals[j] > totals[Len(totals) - StallRounds]
    BY DEF StallIsCaught
  <2>1. /\ Rounds /\ flat < StallRounds /\ flat \in Nat
        /\ StallRounds \in Nat /\ Len(totals) \in Nat
    BY LoopAssumption DEF RoundsInv, Control, TypeOK
  <2>2. totals # <<>>
    BY <2>1
  <2>3. /\ P > 0 /\ totals[P] = baseline /\ baseline \in Int
        /\ \A j \in 1..Len(totals) : j < P => totals[j] < baseline
    BY <2>1, <2>2, LoopAssumption DEF Rounds
  <2>4. /\ P \in (Len(totals) - StallRounds + 1)..Len(totals)
        /\ Len(totals) - StallRounds \in 1..Len(totals)
        /\ Len(totals) - StallRounds < P
    BY <2>1 DEF P
  <2> QED BY <2>1, <2>3, <2>4
<1> QED BY <1>1, Typed, RoundsInvariant, PTL

-----------------------------------------------------------------------------
(***************************************************************************)
(* The transcript.  While calls are being dispatched, the last assistant   *)
(* message q has its first calls answered and the rest of them pending.    *)
(***************************************************************************)
AllAsked(ms) == \A k \in 1..Len(ms) : ms[k].role = "tool" => Asked(ms, k)
AnsweredBut(ms, q) ==
  \A k \in 1..Len(ms) : k # q /\ ms[k].role = "assistant" => Answered(ms, k)
Owing(ms, todo, q) ==
  /\ ms[q].role = "assistant"
  /\ Len(ms) - q + Len(todo) = Len(ms[q].ids)
  /\ \A i \in 1..Len(todo) : todo[i] = ms[q].ids[Len(ms) - q + i]
  /\ \A i \in 1..(Len(ms) - q) : ms[q + i].role = "tool" /\ ms[q + i].id = ms[q].ids[i]
  /\ AnsweredBut(ms, q)

TranscriptInv ==
  /\ AllAsked(messages)
  /\ pc \in {"top", "calling"} =>
       /\ AnsweredBut(messages, 0)
       /\ messages # <<>> /\ messages[Len(messages)].role # "assistant"
  /\ pc = "grading" => AnsweredBut(messages, 0)
  /\ pc = "tools" => \E q \in 1..Len(messages) : Owing(messages, pending, q)

LEMMA AssistantIds ==
  ASSUME NEW m \in Message
  PROVE  /\ m.role = "assistant" => m.ids \in Seq(Ids) /\ Len(m.ids) \in Nat
         /\ m.role \in {"system", "user", "assistant", "tool"}
<1>1. m.role = "assistant" => m.ids \in Seq(Ids)
  BY DEF Message
<1>2. m.role \in {"system", "user", "assistant", "tool"}
  BY DEF Message
<1> QED BY <1>1, <1>2

LEMMA AppendKeeps ==
  ASSUME NEW ms \in Seq(Message), NEW m \in Message, NEW k \in 1..Len(ms)
  PROVE  /\ Append(ms, m)[k] = ms[k]
         /\ ms[k].role = "assistant" /\ Answered(ms, k) => Answered(Append(ms, m), k)
         /\ Asked(ms, k) => Asked(Append(ms, m), k)
<1>1. /\ Len(Append(ms, m)) = Len(ms) + 1 /\ Len(ms) \in Nat
      /\ \A j \in 1..Len(ms) : Append(ms, m)[j] = ms[j]
  OBVIOUS
<1>2. ms[k].role = "assistant" /\ Answered(ms, k) => Answered(Append(ms, m), k)
  <2> SUFFICES ASSUME ms[k].role = "assistant", Answered(ms, k),
                      NEW i \in 1..Len(ms[k].ids)
               PROVE  /\ k + i <= Len(ms) + 1
                      /\ Append(ms, m)[k + i].role = "tool"
                      /\ Append(ms, m)[k + i].id = ms[k].ids[i]
    BY <1>1 DEF Answered
  <2>1. Len(ms[k].ids) \in Nat
    BY AssistantIds, ms[k] \in Message
  <2>2. /\ k + i <= Len(ms) /\ ms[k + i].role = "tool" /\ ms[k + i].id = ms[k].ids[i]
    BY DEF Answered
  <2>3. k + i \in 1..Len(ms)
    BY <2>1, <2>2
  <2> QED BY <1>1, <2>2, <2>3
<1>3. Asked(ms, k) => Asked(Append(ms, m), k)
  BY <1>1 DEF Asked
<1> QED BY <1>1, <1>2, <1>3

\* A message that is no tool result and owes none leaves everything answered.
LEMMA AppendAnswered ==
  ASSUME NEW ms \in Seq(Message), NEW m \in Message, NEW q \in 0..Len(ms),
         AllAsked(ms), AnsweredBut(ms, q), m.role # "tool"
  PROVE  /\ AllAsked(Append(ms, m))
         /\ m.role # "assistant" => AnsweredBut(Append(ms, m), q)
         /\ m.role = "assistant" /\ m.ids = <<>> => AnsweredBut(Append(ms, m), q)
         /\ q = 0 => AnsweredBut(Append(ms, m), Len(ms) + 1)
<1>1. /\ Len(Append(ms, m)) = Len(ms) + 1 /\ Len(ms) \in Nat
      /\ Append(ms, m)[Len(ms) + 1] = m
  OBVIOUS
<1>2. AllAsked(Append(ms, m))
  BY <1>1, AppendKeeps DEF AllAsked
<1>3. m.role # "assistant" => AnsweredBut(Append(ms, m), q)
  BY <1>1, AppendKeeps DEF AnsweredBut
<1>4. m.role = "assistant" /\ m.ids = <<>> => AnsweredBut(Append(ms, m), q)
  <2>1. m.role = "assistant" /\ m.ids = <<>> => Answered(Append(ms, m), Len(ms) + 1)
    BY <1>1 DEF Answered
  <2> QED BY <1>1, <2>1, AppendKeeps DEF AnsweredBut
<1>5. q = 0 => AnsweredBut(Append(ms, m), Len(ms) + 1)
  BY <1>1, AppendKeeps DEF AnsweredBut
<1> QED BY <1>2, <1>3, <1>4, <1>5

LEMMA CompactAnswered ==
  ASSUME NEW ms \in Seq(Message), AllAsked(ms), AnsweredBut(ms, 0), ms # <<>>,
         ms[Len(ms)].role # "assistant"
  PROVE  /\ AllAsked(Compact(ms)) /\ AnsweredBut(Compact(ms), 0) /\ Compact(ms) # <<>>
         /\ Compact(ms)[Len(Compact(ms))].role # "assistant"
<1> DEFINE cs == Compact(ms)
<1>1. /\ Len(cs) = Len(ms) /\ Len(ms) \in Nat \ {0}
      /\ \A k \in 1..Len(ms) :
           /\ cs[k].role = ms[k].role
           /\ ms[k].role = "assistant" => cs[k] = ms[k]
           /\ ms[k].role = "tool" => cs[k].id = ms[k].id
  BY CompactKeeps
<1> HIDE DEF cs
<1>2. AllAsked(cs)
  <2> SUFFICES ASSUME NEW k \in 1..Len(ms), cs[k].role = "tool"
               PROVE  Asked(cs, k)
    BY <1>1 DEF AllAsked
  <2>1. PICK j \in 1..(k - 1) : ms[j].role = "assistant" /\ k - j <= Len(ms[j].ids)
    BY <1>1 DEF AllAsked, Asked
  <2>2. j \in 1..Len(ms)
    BY <1>1
  <2> QED BY <1>1, <2>1, <2>2 DEF Asked
<1>3. AnsweredBut(cs, 0)
  <2>1. ASSUME NEW k \in 1..Len(ms), ms[k].role = "assistant",
               NEW i \in 1..Len(ms[k].ids)
        PROVE  k + i <= Len(ms) /\ cs[k + i].role = "tool" /\ cs[k + i].id = ms[k].ids[i]
    <3>1. /\ k + i <= Len(ms) /\ ms[k + i].role = "tool" /\ ms[k + i].id = ms[k].ids[i]
      BY <2>1, SMTT(20) DEF AnsweredBut, Answered
    <3>2. Len(ms[k].ids) \in Nat
      BY <2>1, AssistantIds, ms[k] \in Message
    <3>3. k + i \in 1..Len(ms)
      BY <1>1, <3>1, <3>2
    <3> QED BY <1>1, <3>1, <3>3
  <2>2. ASSUME NEW k \in 1..Len(ms), ms[k].role = "assistant"
        PROVE  Answered(cs, k)
    <3>1. cs[k] = ms[k] /\ Len(cs) = Len(ms)
      BY <1>1, <2>2
    <3>2. \A i \in 1..Len(ms[k].ids) :
            k + i <= Len(ms) /\ cs[k + i].role = "tool" /\ cs[k + i].id = ms[k].ids[i]
      BY <2>1, <2>2
    <3> QED BY <3>1, <3>2 DEF Answered
  <2> QED BY <1>1, <2>2 DEF AnsweredBut
<1>4. cs # <<>> /\ cs[Len(cs)].role # "assistant"
  BY <1>1, EmptySeq
<1> QED BY <1>2, <1>3, <1>4 DEF cs

\* The next pending call is answered: nothing is owed any more, or one call less.
LEMMA DispatchAnswers ==
  ASSUME NEW ms \in Seq(Message), NEW todo \in Seq(Ids), todo # <<>>,
         NEW q \in 1..Len(ms), AllAsked(ms), Owing(ms, todo, q)
  PROVE  LET ts == Append(ms, Tool(Head(todo), "full"))
         IN  /\ AllAsked(ts)
             /\ Len(todo) = 1 => AnsweredBut(ts, 0)
             /\ ts # <<>> /\ ts[Len(ts)].role # "assistant"
             /\ Owing(ts, Tail(todo), q)
<1> DEFINE m  == Tool(Head(todo), "full")
           ts == Append(ms, m)
           n  == Len(ms)
<1>1. /\ Len(todo) \in Nat \ {0} /\ Len(Tail(todo)) = Len(todo) - 1
      /\ \A i \in 1..(Len(todo) - 1) : Tail(todo)[i] = todo[i + 1]
      /\ Head(todo) \in Ids /\ Head(todo) = todo[1]
  BY HeadTailProperties, EmptySeq
<1>2. m \in Message /\ m.role = "tool" /\ m.id = todo[1]
  BY <1>1, MessagesAreTyped DEF Tool, Forms
<1>3. /\ Len(ts) = n + 1 /\ n \in Nat /\ q \in Nat /\ q <= n /\ q >= 1
      /\ ts[n + 1] = m /\ ts[q] = ms[q]
      /\ \A k \in 1..n : ts[k] = ms[k]
  BY <1>2
<1>4. \A k \in 1..n : /\ ms[k].role = "assistant" /\ Answered(ms, k) => Answered(ts, k)
                      /\ Asked(ms, k) => Asked(ts, k)
  BY <1>2, AppendKeeps
<1> HIDE DEF m, ts, n
<1>5. ms[q].role = "assistant" /\ n - q + Len(todo) = Len(ms[q].ids) /\ AnsweredBut(ms, q)
  BY DEF Owing, n
<1>6. \A i \in 1..Len(todo) : todo[i] = ms[q].ids[n - q + i]
  BY DEF Owing, n
<1>7. \A i \in 1..(n - q) : ms[q + i].role = "tool" /\ ms[q + i].id = ms[q].ids[i]
  BY DEF Owing, n
<1>8. AllAsked(ts)
  <2>1. Asked(ts, n + 1)
    <3> q \in 1..((n + 1) - 1)
      BY <1>3
    <3>1. (n + 1) - q <= Len(ts[q].ids)
      BY <1>1, <1>3, <1>5
    <3>2. ts[q].role = "assistant"
      BY <1>3, <1>5
    <3>3. \E j \in 1..((n + 1) - 1) :
            ts[j].role = "assistant" /\ (n + 1) - j <= Len(ts[j].ids)
      <4> WITNESS q \in 1..((n + 1) - 1)
      <4> QED BY <3>1, <3>2
    <3> QED BY <3>3 DEF Asked
  <2>2. \A k \in 1..n : ts[k].role = "tool" => Asked(ts, k)
    BY <1>3, <1>4 DEF AllAsked, n
  <2>3. \A k \in 1..Len(ts) : k \in 1..n \/ k = n + 1
    BY <1>3
  <2> QED BY <2>1, <2>2, <2>3 DEF AllAsked
<1>9. AnsweredBut(ts, q)
  <2>1. \A k \in 1..n : k # q /\ ms[k].role = "assistant" => Answered(ts, k)
    BY <1>4, <1>5 DEF AnsweredBut, n
  <2>2. ts[n + 1].role # "assistant"
    BY <1>2, <1>3
  <2>3. \A k \in 1..Len(ts) : k \in 1..n \/ k = n + 1
    BY <1>3
  <2>4. \A k \in 1..n : ts[k] = ms[k]
    BY <1>3
  <2> QED BY <2>1, <2>2, <2>3, <2>4 DEF AnsweredBut
<1>10. \A i \in 1..(n + 1 - q) : ts[q + i].role = "tool" /\ ts[q + i].id = ts[q].ids[i]
  <2> SUFFICES ASSUME NEW i \in 1..(n + 1 - q)
               PROVE  ts[q + i].role = "tool" /\ ts[q + i].id = ts[q].ids[i]
    OBVIOUS
  <2>1. CASE i = n + 1 - q
    <3>1. q + i = n + 1
      BY <1>3, <2>1
    <3>2. todo[1] = ms[q].ids[n - q + 1]
      BY <1>1, <1>6
    <3>3. n - q + 1 = i
      BY <1>3, <2>1
    <3> QED BY <1>2, <1>3, <3>1, <3>2, <3>3
  <2>2. CASE i # n + 1 - q
    <3>1. i \in 1..(n - q) /\ q + i \in 1..n
      BY <1>3, <2>2
    <3> QED BY <1>3, <1>7, <3>1
  <2> QED BY <2>1, <2>2
<1>11. Owing(ts, Tail(todo), q)
  <2>1. Len(ts) - q + Len(Tail(todo)) = Len(ts[q].ids)
    BY <1>1, <1>3, <1>5
  <2>2. \A i \in 1..Len(Tail(todo)) : Tail(todo)[i] = ts[q].ids[Len(ts) - q + i]
    <3> SUFFICES ASSUME NEW i \in 1..(Len(todo) - 1)
                 PROVE  Tail(todo)[i] = ts[q].ids[Len(ts) - q + i]
      BY <1>1
    <3>1. i + 1 \in 1..Len(todo) /\ n - q + (i + 1) = Len(ts) - q + i
      BY <1>1, <1>3
    <3>2. todo[i + 1] = ms[q].ids[n - q + (i + 1)]
      BY <1>6, <3>1
    <3> QED BY <1>1, <1>3, <3>1, <3>2
  <2>3. ts[q].role = "assistant"
    BY <1>3, <1>5
  <2>4. \A i \in 1..(Len(ts) - q) : ts[q + i].role = "tool" /\ ts[q + i].id = ts[q].ids[i]
    BY <1>3, <1>10
  <2> QED BY <1>9, <2>1, <2>2, <2>3, <2>4 DEF Owing
<1>12. Len(todo) = 1 => AnsweredBut(ts, 0)
  <2> SUFFICES ASSUME Len(todo) = 1 PROVE AnsweredBut(ts, 0)
    OBVIOUS
  <2>1. Answered(ts, q)
    <3>1. Len(ts[q].ids) = n + 1 - q
      BY <1>3, <1>5
    <3>2. \A i \in 1..(n + 1 - q) : q + i <= n + 1
      BY <1>3
    <3> QED BY <1>3, <1>10, <3>1, <3>2 DEF Answered
  <2> QED BY <1>9, <2>1 DEF AnsweredBut
<1>13. ts # <<>> /\ ts[Len(ts)].role # "assistant"
  <2>1. Len(ts) # 0
    BY <1>3
  <2> QED BY <1>2, <1>3, <2>1, EmptySeq
<1> QED BY <1>8, <1>11, <1>12, <1>13 DEF ts, m

LEMMA StepTranscript ==
  ASSUME TypeOK, Control, TranscriptInv, [Next]_vars
  PROVE  TranscriptInv'
<1>0. /\ messages \in Seq(Message) /\ pending \in Seq(Ids) /\ AllAsked(messages)
      /\ Len(messages) \in Nat /\ 0 \in 0..Len(messages)
  BY DEF TypeOK, TranscriptInv
<1>1. CASE OutOfTurns \/ OutOfMoney \/ Raise
  <2>1. messages' = messages /\ pc' \in {"done", "raised"}
    BY <1>1 DEF OutOfTurns, OutOfMoney, Raise, Finish
  <2> QED BY <1>0, <2>1 DEF TranscriptInv, AllAsked, Asked
<1>2. CASE CallProvider
  <2>1. /\ AnsweredBut(messages, 0) /\ messages # <<>>
        /\ messages[Len(messages)].role # "assistant"
    BY <1>2 DEF CallProvider, TranscriptInv
  <2>2. pc' = "calling" /\ (messages' = messages \/ messages' = Compact(messages))
    BY <1>2 DEF CallProvider
  <2>3. \A ms \in {messages, Compact(messages)} :
          /\ AllAsked(ms) /\ AnsweredBut(ms, 0) /\ ms # <<>>
          /\ ms[Len(ms)].role # "assistant"
    BY <1>0, <2>1, CompactAnswered
  <2>4. /\ AllAsked(messages') /\ AnsweredBut(messages', 0) /\ messages' # <<>>
        /\ messages'[Len(messages')].role # "assistant"
    BY <2>2, <2>3
  <2> QED BY <2>2, <2>4 DEF TranscriptInv, AllAsked, AnsweredBut, Asked, Answered
<1>3. CASE ReplyWithCalls
  <2>1. PICK n \in 1..MaxCalls :
          LET ids == [i \in 1..n |-> <<turn + 1, i>>]
          IN  messages' = Append(messages, Assistant(ids)) /\ pending' = ids
    BY <1>3 DEF ReplyWithCalls
  <2> DEFINE m == Assistant(pending')
             q == Len(messages) + 1
  <2>2. /\ AllAsked(messages) /\ AnsweredBut(messages, 0) /\ pc' = "tools"
    BY <1>3 DEF ReplyWithCalls, TranscriptInv
  <2>3. messages' = Append(messages, m)
    BY <2>1
  <2>4. pending' \in Seq(Ids) /\ m \in Message
    BY StepTyped, MessagesAreTyped DEF TypeOK
  <2>5. m.role = "assistant" /\ m.ids = pending'
    BY DEF Assistant
  <2>6. /\ Len(messages') = q /\ messages'[q] = m /\ Len(pending') \in Nat
        /\ q \in 1..Len(messages')
    BY <1>0, <2>3, <2>4
  <2>7. AllAsked(messages') /\ AnsweredBut(messages', q)
    <3> HIDE DEF m
    <3>1. AllAsked(Append(messages, m)) /\ AnsweredBut(Append(messages, m), Len(messages) + 1)
      BY <1>0, <2>2, <2>4, <2>5, AppendAnswered
    <3> QED BY <2>3, <3>1
  <2>8. Owing(messages', pending', q)
    BY <2>4, <2>5, <2>6, <2>7 DEF Owing
  <2>9. \E p \in 1..Len(messages') : Owing(messages', pending', p)
    BY <2>6, <2>8
  <2> QED BY <2>2, <2>7, <2>9
          DEF TranscriptInv, AllAsked, AnsweredBut, Asked, Answered, Owing
<1>4. CASE Dispatch
  <2>1. PICK q \in 1..Len(messages) : Owing(messages, pending, q)
    BY <1>4 DEF Dispatch, TranscriptInv
  <2>2. pending # <<>> /\ Len(pending) \in Nat
    BY <1>0, <1>4 DEF Dispatch, Control
  <2>3. /\ messages' = Append(messages, Tool(Head(pending), "full"))
        /\ pending' = Tail(pending)
        /\ pc' \in {"top", "tools"} /\ (pc' = "top" => Len(pending) = 1)
    BY <1>4 DEF Dispatch
  <2>4. /\ AllAsked(messages') /\ Owing(messages', pending', q)
        /\ Len(pending) = 1 => AnsweredBut(messages', 0)
        /\ messages' # <<>> /\ messages'[Len(messages')].role # "assistant"
    BY <1>0, <2>1, <2>2, <2>3, DispatchAnswers
  <2>5. q \in 1..Len(messages')
    <3>1. Tool(Head(pending), "full") \in Message
      BY <1>0, <2>2, HeadTailProperties, MessagesAreTyped DEF Forms
    <3> QED BY <1>0, <2>3, <3>1
  <2>6. \E p \in 1..Len(messages') : Owing(messages', pending', p)
    BY <2>4, <2>5
  <2> QED BY <2>3, <2>4, <2>6
          DEF TranscriptInv, AllAsked, AnsweredBut, Asked, Answered, Owing
<1>5. CASE ReplyEmpty \/ ReplyWithText
  <2> DEFINE m == Assistant(<<>>)
  <2>1. /\ AnsweredBut(messages, 0) /\ messages' = Append(messages, m)
        /\ pc' \in {"done", "grading"}
    BY <1>5 DEF ReplyEmpty, ReplyWithText, Say, Finish, TranscriptInv
  <2>2. m \in Message /\ m.role = "assistant" /\ m.ids = <<>>
    <3>1. <<>> \in Seq(Ids)
      OBVIOUS
    <3> QED BY <3>1, MessagesAreTyped DEF Assistant
  <2>3. AllAsked(messages') /\ AnsweredBut(messages', 0)
    <3> HIDE DEF m
    <3>1. AllAsked(Append(messages, m)) /\ AnsweredBut(Append(messages, m), 0)
      BY <1>0, <2>1, <2>2, AppendAnswered
    <3> QED BY <2>1, <3>1
  <2> QED BY <2>1, <2>3 DEF TranscriptInv, AllAsked, AnsweredBut, Asked, Answered
<1>6. CASE Grade
  <2>1. /\ AnsweredBut(messages, 0)
        /\ \/ messages' = Append(messages, User) /\ pc' = "top"
           \/ messages' = messages /\ pc' = "done"
    BY <1>6 DEF Grade, Finish, TranscriptInv
  <2>2. CASE messages' = messages /\ pc' = "done"
    BY <1>0, <2>2 DEF TranscriptInv, AllAsked, Asked
  <2>3. CASE messages' = Append(messages, User) /\ pc' = "top"
    <3>1. User \in Message /\ User.role = "user"
      BY MessagesAreTyped DEF User
    <3>2. /\ AllAsked(messages') /\ AnsweredBut(messages', 0)
      <4>1. AllAsked(Append(messages, User)) /\ AnsweredBut(Append(messages, User), 0)
        BY <1>0, <2>1, <3>1, AppendAnswered
      <4> QED BY <2>3, <4>1
    <3>3. Len(messages') = Len(messages) + 1 /\ messages'[Len(messages')] = User
      BY <1>0, <2>3, <3>1
    <3>4. messages' # <<>>
      BY <1>0, <3>3, EmptySeq
    <3> QED BY <2>3, <3>1, <3>2, <3>3, <3>4
            DEF TranscriptInv, AllAsked, AnsweredBut, Asked, Answered
  <2> QED BY <2>1, <2>2, <2>3
<1>7. CASE UNCHANGED vars
  BY <1>7 DEF vars, TranscriptInv, AllAsked, AnsweredBut, Asked, Answered, Owing
<1> QED BY <1>1, <1>2, <1>3, <1>4, <1>5, <1>6, <1>7 DEF Next

\* No provider is ever sent a transcript with an unanswered call, an answer to a call
\* nobody made, or the assistant's own words last: not after failures of tools, not
\* after any number of compactions, not after a grade.
THEOREM TranscriptHolds == Spec => []TranscriptIsValid
<1>1. Init => TranscriptInv
  <2> SUFFICES ASSUME Init PROVE TranscriptInv
    OBVIOUS
  <2>1. /\ Len(messages) = 2 /\ messages[1] = System /\ messages[2] = User
        /\ messages # <<>> /\ pc = "top"
    BY DEF Init
  <2>2. \A k \in 1..2 : messages[k].role \in {"system", "user"}
    BY <2>1 DEF System, User
  <2> QED BY <2>1, <2>2 DEF TranscriptInv, AllAsked, AnsweredBut
<1>2. TypeOK /\ Control /\ TranscriptInv /\ [Next]_vars => TranscriptInv'
  BY StepTranscript
<1>3. TypeOK /\ TranscriptInv => TranscriptIsValid
  <2> SUFFICES ASSUME TypeOK, TranscriptInv, pc = "calling"
               PROVE  TranscriptIsValid
    BY DEF TranscriptIsValid
  <2> QED BY DEF TranscriptInv, AllAsked, AnsweredBut, TranscriptIsValid
<1> QED BY <1>1, <1>2, <1>3, Typed, PTL DEF Spec

-----------------------------------------------------------------------------
(***************************************************************************)
(* What compaction leaves alone.  The invariant is inductive by itself:    *)
(* an old message counts the same turns after an append or a compaction,   *)
(* and the whole transcript never counts fewer.                            *)
(***************************************************************************)
Verbatim(ms) ==
  \A k \in 1..Len(ms) :
    ms[k].role = "tool" /\ ms[k].form = "gist" =>
      TurnsUpTo(ms, k) <= TurnsUpTo(ms, Len(ms)) - KeepTurns

LEMMA TurnsTyped ==
  ASSUME NEW ms \in Seq(Message), NEW k \in Nat, NEW l \in 0..k
  PROVE  TurnsUpTo(ms, k) \in Nat /\ TurnsUpTo(ms, l) <= TurnsUpTo(ms, k)
<1> DEFINE S(n) == {j \in 1..n : ms[j].role = "assistant"}
<1>1. IsFiniteSet(1..k)
  BY FS_Interval
<1>2. S(k) \in SUBSET (1..k) /\ S(l) \in SUBSET S(k)
  OBVIOUS
<1>3. IsFiniteSet(S(k))
  <2> HIDE DEF S
  <2> QED BY <1>1, <1>2, FS_Subset
<1>4. IsFiniteSet(S(l)) /\ Cardinality(S(l)) <= Cardinality(S(k))
  <2> HIDE DEF S
  <2> QED BY <1>2, <1>3, FS_Subset
<1>5. Cardinality(S(k)) \in Nat
  <2> HIDE DEF S
  <2> QED BY <1>3, FS_CardinalityType
<1> QED BY <1>4, <1>5 DEF TurnsUpTo

LEMMA SameTurns ==
  ASSUME NEW ms \in Seq(Message), NEW ns \in Seq(Message), NEW n \in Nat,
         \A k \in 1..n : ms[k].role = ns[k].role
  PROVE  \A k \in 0..n : TurnsUpTo(ms, k) = TurnsUpTo(ns, k)
<1> SUFFICES ASSUME NEW k \in 0..n
             PROVE  TurnsUpTo(ms, k) = TurnsUpTo(ns, k)
  OBVIOUS
<1>1. {j \in 1..k : ms[j].role = "assistant"} = {j \in 1..k : ns[j].role = "assistant"}
  OBVIOUS
<1> QED BY <1>1 DEF TurnsUpTo

\* A message that is no gist may be appended.
LEMMA AppendVerbatim ==
  ASSUME NEW ms \in Seq(Message), NEW m \in Message, Verbatim(ms),
         m.role = "tool" => m.form = "full"
  PROVE  Verbatim(Append(ms, m))
<1> DEFINE ns == Append(ms, m)
           n == Len(ms)
<1>1. /\ ns \in Seq(Message) /\ n \in Nat /\ Len(ns) = n + 1
      /\ ns[n + 1] = m /\ \A k \in 1..n : ns[k] = ms[k]
  OBVIOUS
<1> HIDE DEF ns, n
<1>2. \A k \in 0..n : TurnsUpTo(ms, k) = TurnsUpTo(ns, k)
  <2>1. \A k \in 1..n : ms[k].role = ns[k].role
    BY <1>1
  <2> QED BY <1>1, <2>1, SameTurns
<1>3. TurnsUpTo(ns, n) <= TurnsUpTo(ns, n + 1) /\ TurnsUpTo(ns, n + 1) \in Nat
  BY <1>1, TurnsTyped
<1>4. ASSUME NEW k \in 1..(n + 1), ns[k].role = "tool", ns[k].form = "gist"
      PROVE  TurnsUpTo(ns, k) <= TurnsUpTo(ns, n + 1) - KeepTurns
  <2>1. k \in 1..n
    BY <1>1, <1>4
  <2>2. TurnsUpTo(ms, k) <= TurnsUpTo(ms, n) - KeepTurns
    BY <1>1, <1>4, <2>1 DEF Verbatim, n
  <2>3. TurnsUpTo(ms, k) \in Nat /\ TurnsUpTo(ms, n) \in Nat
    <3>1. k \in Nat /\ k \in 0..k /\ n \in 0..n
      BY <1>1, <2>1
    <3> QED BY <1>1, <3>1, TurnsTyped
  <2>4. TurnsUpTo(ns, k) = TurnsUpTo(ms, k) /\ TurnsUpTo(ns, n) = TurnsUpTo(ms, n)
    BY <1>1, <1>2, <2>1
  <2> QED BY <1>3, <2>2, <2>3, <2>4, LoopAssumption
<1>5. Verbatim(ns)
  BY <1>1, <1>4 DEF Verbatim
<1> QED BY <1>5 DEF ns

LEMMA CompactVerbatim ==
  ASSUME NEW ms \in Seq(Message), Verbatim(ms)
  PROVE  Verbatim(Compact(ms))
<1> DEFINE ns == Compact(ms)
           n == Len(ms)
<1>1. /\ ns \in Seq(Message) /\ n \in Nat /\ Len(ns) = n
      /\ \A k \in 1..n : ns[k].role = ms[k].role
  BY CompactIsTyped, CompactKeeps
<1>2. \A k \in 1..n :
        ns[k] = IF /\ ms[k].role = "tool" /\ ms[k].form = "full"
                   /\ TurnsUpTo(ms, k) <= TurnsUpTo(ms, n) - KeepTurns
                  THEN [ms[k] EXCEPT !.form = "gist"] ELSE ms[k]
  BY DEF Compact
<1> HIDE DEF ns
<1>3. \A k \in 0..n : TurnsUpTo(ms, k) = TurnsUpTo(ns, k)
  BY <1>1, SameTurns
<1>4. ASSUME NEW k \in 1..n, ns[k].role = "tool", ns[k].form = "gist"
      PROVE  TurnsUpTo(ms, k) <= TurnsUpTo(ms, n) - KeepTurns
  <2>1. ms[k].role = "tool"
    BY <1>1, <1>4
  <2>2. CASE ms[k].form = "gist"
    BY <2>1, <2>2 DEF Verbatim
  <2>3. CASE ms[k].form # "gist"
    BY <1>2, <1>4, <2>3
  <2> QED BY <2>2, <2>3
<1>5. Verbatim(ns)
  <2> SUFFICES ASSUME NEW k \in 1..n, ns[k].role = "tool", ns[k].form = "gist"
               PROVE  TurnsUpTo(ns, k) <= TurnsUpTo(ns, n) - KeepTurns
    BY <1>1 DEF Verbatim
  <2>1. TurnsUpTo(ms, k) = TurnsUpTo(ns, k) /\ TurnsUpTo(ms, n) = TurnsUpTo(ns, n)
    BY <1>1, <1>3
  <2>2. TurnsUpTo(ms, k) <= TurnsUpTo(ms, n) - KeepTurns
    BY <1>4
  <2> QED BY <2>1, <2>2
<1> QED BY <1>5 DEF ns

LEMMA StepVerbatim ==
  ASSUME TypeOK, Control, [Next]_vars, Verbatim(messages)
  PROVE  Verbatim(messages)'
<1>0. messages \in Seq(Message)
  BY DEF TypeOK
<1>1. CASE OutOfTurns \/ OutOfMoney \/ Raise \/ UNCHANGED vars
  <2>1. messages' = messages
    BY <1>1 DEF OutOfTurns, OutOfMoney, Raise, vars
  <2> QED BY <2>1
<1>2. CASE CallProvider
  <2>1. messages' = messages \/ messages' = Compact(messages)
    BY <1>2 DEF CallProvider
  <2> QED BY <1>0, <2>1, CompactVerbatim
<1>3. CASE ReplyWithCalls
  <2>1. PICK n \in 1..MaxCalls :
          LET ids == [i \in 1..n |-> <<turn + 1, i>>]
          IN  messages' = Append(messages, Assistant(ids)) /\ pending' = ids
    BY <1>3 DEF ReplyWithCalls
  <2> DEFINE ids == [i \in 1..n |-> <<turn + 1, i>>]
  <2>2. ids = pending' /\ messages' = Append(messages, Assistant(ids))
    BY <2>1
  <2>3. pending' \in Seq(Ids)
    BY StepTyped DEF TypeOK
  <2> HIDE DEF ids
  <2>4. Assistant(ids) \in Message /\ Assistant(ids).role # "tool"
    BY <2>2, <2>3, MessagesAreTyped DEF Assistant
  <2> QED BY <1>0, <2>2, <2>4, AppendVerbatim
<1>4. CASE Dispatch
  <2>1. pending \in Seq(Ids) /\ pending # <<>>
    BY <1>4 DEF Dispatch, Control, TypeOK
  <2>2. Head(pending) \in Ids
    BY <2>1, HeadTailProperties
  <2>3. /\ Tool(Head(pending), "full") \in Message
        /\ Tool(Head(pending), "full").form = "full"
    BY <2>2, MessagesAreTyped DEF Forms, Tool
  <2>4. messages' = Append(messages, Tool(Head(pending), "full"))
    BY <1>4 DEF Dispatch
  <2> QED BY <1>0, <2>3, <2>4, AppendVerbatim
<1>5. CASE ReplyEmpty \/ ReplyWithText
  <2>1. messages' = Append(messages, Assistant(<<>>))
    BY <1>5 DEF ReplyEmpty, ReplyWithText, Say
  <2>2. <<>> \in Seq(Ids)
    OBVIOUS
  <2>3. Assistant(<<>>) \in Message /\ Assistant(<<>>).role # "tool"
    BY <2>2, MessagesAreTyped DEF Assistant
  <2> QED BY <1>0, <2>1, <2>3, AppendVerbatim
<1>6. CASE Grade
  <2>1. messages' = messages \/ messages' = Append(messages, User)
    BY <1>6 DEF Grade, Finish
  <2>2. User \in Message /\ User.role # "tool"
    BY MessagesAreTyped DEF User
  <2> QED BY <1>0, <2>1, <2>2, AppendVerbatim
<1> QED BY <1>1, <1>2, <1>3, <1>4, <1>5, <1>6 DEF Next

\* However often the transcript is compacted, and whatever is appended in between,
\* no result of the last KeepTurns turns is ever shrunk.
THEOREM RecentKept == Spec => []RecentIsVerbatim
<1>1. Init => Verbatim(messages)
  <2> SUFFICES ASSUME Init PROVE Verbatim(messages)
    OBVIOUS
  <2>1. Len(messages) = 2 /\ messages[1] = System /\ messages[2] = User
    BY DEF Init
  <2>2. \A k \in 1..2 : messages[k].role # "tool"
    BY <2>1 DEF System, User
  <2> QED BY <2>1, <2>2 DEF Verbatim
<1>2. TypeOK /\ Control /\ Verbatim(messages) /\ [Next]_vars => Verbatim(messages)'
  BY StepVerbatim
<1>3. Verbatim(messages) => RecentIsVerbatim
  BY DEF Verbatim, RecentIsVerbatim
<1> QED BY <1>1, <1>2, <1>3, Typed, PTL DEF Spec

-----------------------------------------------------------------------------
(***************************************************************************)
(* The tools, for every set of pages and of calls and every cap.  What     *)
(* they say of the past rests on memories that die together: told with the *)
(* latch, the seen-set with the pages it is about.                         *)
(***************************************************************************)
\* Who was told that the search is dead finds it dead.
ToldIsDead == told => dead /\ reply.kind # "results"

\* The seen-set holds what was downloaded, and nothing else is refused.
SeenWasOpened ==
  /\ fetched \subseteq opened
  /\ reply.kind = "refused" => reply.url \in opened

ExitIsOver == \A c \in Calls : call[c] = "exit" => Communicated(proc[c])

\* The counter of the process covers the questions of the phase.
PhaseIsCounted == here <= asked

NeverUnsynced == file \in {"absent", "whole"}

ToolsInv ==
  /\ ToolsTypeOK
  /\ ToldIsDead /\ SeenWasOpened /\ ExitIsOver /\ PhaseIsCounted /\ NeverUnsynced

\* A run_bash call's processes stay of their type, whatever the command does.
LEMMA CommandTyped ==
  ASSUME proc \in [Calls -> Procs], NEW c \in Calls, Command(c)
  PROVE  proc' \in [Calls -> Procs]
<1>1. proc[c] \in Procs
  OBVIOUS
<1>2. CASE ShellSpawns(c)
  <2>1. PICK own \in BOOLEAN, pipe \in BOOLEAN :
          proc' = [proc EXCEPT ![c].child = "up", ![c].own = own, ![c].pipe = pipe]
    BY <1>2 DEF ShellSpawns
  <2>2. [proc[c] EXCEPT !.child = "up", !.own = own, !.pipe = pipe] \in Procs
    BY <1>1 DEF Procs
  <2> QED BY <2>1, <2>2
<1>3. CASE ShellExits(c)
  <2>1. [proc[c] EXCEPT !.shell = "zombie"] \in Procs
    BY <1>1 DEF Procs
  <2> QED BY <1>3, <2>1 DEF ShellExits
<1>4. CASE ChildExits(c)
  <2>1. [proc[c] EXCEPT !.child = "gone"] \in Procs
    BY <1>1 DEF Procs
  <2> QED BY <1>4, <2>1 DEF ChildExits
<1>5. CASE Reap(c)
  <2>1. [proc[c] EXCEPT !.shell = "reaped"] \in Procs
    BY <1>1 DEF Procs
  <2> QED BY <1>5, <2>1 DEF Reap
<1> QED BY <1>2, <1>3, <1>4, <1>5 DEF Command

LEMMA KillTyped ==
  ASSUME NEW p \in Procs
  PROVE  KillGroup(p) \in Procs
BY DEF KillGroup, Procs

\* A command that is over stays over: its shell is gone and cannot start another
\* process, and what it did start lets go of the output at most.
LEMMA OverStaysOver ==
  ASSUME proc \in [Calls -> Procs], NEW c \in Calls, Command(c),
         NEW d \in Calls, Communicated(proc[d])
  PROVE  Communicated(proc'[d])
<1>1. CASE d # c
  BY <1>1 DEF Command, ShellSpawns, ShellExits, ChildExits, Reap
<1>2. CASE d = c
  <2>1. proc[c] \in Procs /\ proc[c].shell = "reaped"
    BY <1>2 DEF Communicated
  <2>2. ChildExits(c)
    BY <2>1 DEF Command, ShellSpawns, ShellExits, Reap
  <2>3. proc'[c] = [proc[c] EXCEPT !.child = "gone"]
    BY <2>1, <2>2 DEF ChildExits
  <2> QED BY <1>2, <2>1, <2>3 DEF Communicated, HoldsPipe, Procs
<1> QED BY <1>1, <1>2

LEMMA ToolsStart == ToolsInit => ToolsInv
<1> SUFFICES ASSUME ToolsInit PROVE ToolsInv
  OBVIOUS
<1>1. [shell |-> "none", child |-> "none", own |-> FALSE, pipe |-> FALSE] \in Procs
  BY DEF Procs
<1>2. reply \in [kind : Replies] /\ reply.kind = "none"
  BY DEF ToolsInit, Silent, Replies
<1>3. proc \in [Calls -> Procs]
  BY <1>1 DEF ToolsInit
<1>4. ToolsTypeOK
  <2>1. starts \in 0..MaxStarts /\ asked \in 0..Cap /\ here \in Nat
    BY CapAssumption DEF ToolsInit
  <2>2. dead \in BOOLEAN /\ keyed \in BOOLEAN /\ told \in BOOLEAN
    BY DEF ToolsInit
  <2>3. call \in [Calls -> {"free", "wait", "drain", "exit", "timeout", "cut"}]
    BY DEF ToolsInit
  <2> QED BY <1>2, <1>3, <2>1, <2>2, <2>3 DEF ToolsInit, ToolsTypeOK
<1> QED BY <1>2, <1>4
  DEF ToolsInit, ToolsInv, ToldIsDead, SeenWasOpened, ExitIsOver, PhaseIsCounted,
      NeverUnsynced

\* Between two conversations nothing is remembered.
LEMMA AfreshHolds ==
  ASSUME NewConversation
  PROVE  /\ ToldIsDead' /\ SeenWasOpened'
         /\ fetched' \subseteq Urls /\ opened' \subseteq Urls
         /\ dead' \in BOOLEAN /\ told' \in BOOLEAN
         /\ reply' \in [kind : Replies] \cup [kind : {"page", "refused"}, url : Urls]
<1>1. reply' \in [kind : Replies] /\ reply'.kind = "none"
  BY DEF NewConversation, Silent, Replies
<1> QED BY <1>1 DEF NewConversation, ToldIsDead, SeenWasOpened

\* The steps of the run around the tools: a phase, a re-run, a process.
LEMMA AroundKeeps ==
  ASSUME ToolsInv,
         Start \/ NextPhase \/ Rejected \/ ProcessEnds \/ PowerFails
  PROVE  ToolsInv'
<1> USE DEF ToolsInv
<1>1. CASE Start
  <2>1. ToolsTypeOK'
    BY <1>1, CapAssumption DEF Start, ToolsTypeOK, web
  <2> QED BY <1>1, <2>1
    DEF Start, web, ToldIsDead, SeenWasOpened, ExitIsOver, PhaseIsCounted, NeverUnsynced
<1>2. CASE NextPhase \/ Rejected
  <2>1. /\ NewConversation
        /\ here' \in {here, 0} /\ phase' \in Phases
        /\ UNCHANGED <<starts, asked, keyed, call, proc, tmp, file>>
    BY <1>2 DEF NextPhase, Rejected, After, Phases, ToolsTypeOK
  <2>2. ToolsTypeOK'
    BY <2>1, AfreshHolds DEF ToolsTypeOK
  <2>3. PhaseIsCounted'
    BY <2>1 DEF PhaseIsCounted, ToolsTypeOK
  <2> QED BY <2>1, <2>2, <2>3, AfreshHolds DEF ExitIsOver, NeverUnsynced
<1>3. CASE ProcessEnds
  <2>1. /\ phase' = "none" /\ tmp' = "none"
        /\ NewConversation /\ asked' = 0 /\ here' = 0
        /\ UNCHANGED <<starts, keyed, file>>
        /\ call' = [c \in Calls |-> IF c \in Waiting THEN "cut" ELSE call[c]]
    BY <1>3 DEF ProcessEnds, Forgotten
  <2>2. PICK S \in SUBSET Waiting :
          proc' = [c \in Calls |-> IF c \in S /\ proc[c].shell = "up"
                                     THEN [proc[c] EXCEPT !.shell = "zombie"]
                                     ELSE proc[c]]
    BY <1>3 DEF ProcessEnds
  <2>3. \A c \in Calls : [proc[c] EXCEPT !.shell = "zombie"] \in Procs
    BY DEF ToolsTypeOK, Procs
  <2>4. proc' \in [Calls -> Procs]
    BY <2>2, <2>3 DEF ToolsTypeOK
  <2>5. ToolsTypeOK'
    BY <2>1, <2>4, AfreshHolds, CapAssumption DEF ToolsTypeOK
  <2>6. ASSUME NEW c \in Calls, call'[c] = "exit"
        PROVE  Communicated(proc'[c])
    <3>1. c \notin Waiting /\ call[c] = "exit"
      BY <2>1, <2>6
    <3>2. proc'[c] = proc[c]
      BY <2>2, <3>1
    <3> QED BY <3>1, <3>2 DEF ExitIsOver
  <2>7. ExitIsOver'
    BY <2>6 DEF ExitIsOver, Communicated, HoldsPipe
  <2> QED BY <2>1, <2>5, <2>7, AfreshHolds DEF PhaseIsCounted, NeverUnsynced
<1>4. CASE PowerFails
  <2>1. /\ phase' = "none" /\ tmp' = "none"
        /\ NewConversation /\ asked' = 0 /\ here' = 0
        /\ UNCHANGED <<starts, keyed>>
        /\ file' = IF file = "cached" THEN "torn" ELSE file
        /\ call' = [c \in Calls |-> IF c \in Waiting THEN "cut" ELSE call[c]]
    BY <1>4 DEF PowerFails, Forgotten
  <2> DEFINE Killed(p) == [p EXCEPT !.shell = IF @ = "none" THEN @ ELSE "reaped",
                                    !.child = IF @ = "none" THEN @ ELSE "gone"]
  <2>2. proc' = [c \in Calls |-> Killed(proc[c])]
    BY <1>4 DEF PowerFails
  <2>3. ASSUME NEW c \in Calls
        PROVE  /\ Killed(proc[c]) \in Procs
               /\ Communicated(proc[c]) => Communicated(Killed(proc[c]))
    BY DEF ToolsTypeOK, Procs, Communicated, HoldsPipe
  <2> HIDE DEF Killed
  <2>4. proc' \in [Calls -> Procs]
    BY <2>2, <2>3
  <2>5. file' = file
    BY <2>1 DEF NeverUnsynced
  <2>6. ToolsTypeOK'
    BY <2>1, <2>4, <2>5, AfreshHolds, CapAssumption DEF ToolsTypeOK
  <2>7. ASSUME NEW c \in Calls, call'[c] = "exit"
        PROVE  Communicated(proc'[c])
    <3>1. call[c] = "exit"
      BY <2>1, <2>7
    <3> QED BY <2>2, <2>3, <3>1 DEF ExitIsOver
  <2>8. ExitIsOver'
    BY <2>7 DEF ExitIsOver, Communicated, HoldsPipe
  <2> QED BY <2>1, <2>5, <2>6, <2>8, AfreshHolds DEF PhaseIsCounted, NeverUnsynced
<1> QED BY <1>1, <1>2, <1>3, <1>4

\* A question is counted before it is answered.
LEMMA AskKeeps ==
  ASSUME ToolsInv, Ask
  PROVE  ToolsInv'
<1>1. /\ reply' = [kind |-> "capped"] \/ reply' = [kind |-> "answer"]
      /\ UNCHANGED <<phase, starts, fetched, dead, opened, told, keyed, call, proc, tmp,
                     file>>
  BY DEF Ask, web
<1>2. asked' \in 0..Cap /\ here' \in Nat /\ here' <= asked'
  BY CapAssumption DEF Ask, ToolsInv, ToolsTypeOK, PhaseIsCounted
<1>3. reply' \in [kind : Replies] /\ reply'.kind \in {"capped", "answer"}
  BY <1>1 DEF Replies
<1>4. ToolsTypeOK'
  BY <1>1, <1>2, <1>3 DEF ToolsInv, ToolsTypeOK
<1> QED BY <1>1, <1>2, <1>3, <1>4
  DEF ToolsInv, ToldIsDead, SeenWasOpened, ExitIsOver, PhaseIsCounted, NeverUnsynced

\* Searches only ever close the latch, and pages are noted as they are opened.
LEMMA ResearchKeeps ==
  ASSUME ToolsInv, Research
  PROVE  ToolsInv'
<1>1. UNCHANGED <<phase, starts, asked, here, keyed, call, proc, tmp, file>>
  BY DEF Research, SearchRejected, SearchLatched, SearchAnswered, FetchRefused,
         FetchFails, FetchOpens, Searching, Fetching
<1>2. CASE SearchRejected \/ SearchLatched \/ SearchAnswered
  <2>1. fetched' = fetched /\ opened' = opened
    BY <1>2 DEF SearchRejected, SearchLatched, SearchAnswered, Searching
  <2>2. PICK k \in {"results", "failed", "unavailable"} : reply' = [kind |-> k]
    BY <1>2 DEF SearchRejected, SearchLatched, SearchAnswered
  <2>3. /\ dead' \in BOOLEAN /\ told' \in BOOLEAN
        /\ told' => dead' /\ k # "results"
    <3>1. CASE SearchAnswered
      <4>1. ~dead /\ dead' = dead /\ told' = told
        BY <3>1 DEF SearchAnswered
      <4> QED BY <4>1 DEF ToolsInv, ToolsTypeOK, ToldIsDead
    <3>2. CASE SearchRejected \/ SearchLatched
      <4>1. (dead' = TRUE \/ (dead /\ dead' = dead)) /\ told' = TRUE
        BY <3>2 DEF SearchRejected, SearchLatched
      <4>2. reply' = [kind |-> "unavailable"]
        BY <3>2 DEF SearchRejected, SearchLatched
      <4>3. k = "unavailable"
        <5>1. reply'.kind = k /\ reply'.kind = "unavailable"
          BY <2>2, <4>2
        <5> QED BY <5>1
      <4> QED BY <4>1, <4>3 DEF ToolsInv, ToolsTypeOK
    <3> QED BY <1>2, <3>1, <3>2
  <2>4. reply' \in [kind : Replies] /\ reply'.kind = k
    BY <2>2 DEF Replies
  <2> QED BY <1>1, <2>1, <2>3, <2>4
    DEF ToolsInv, ToolsTypeOK, ToldIsDead, SeenWasOpened, ExitIsOver, PhaseIsCounted,
        NeverUnsynced
<1>3. CASE FetchRefused \/ FetchFails \/ FetchOpens
  <2>1. dead' = dead /\ told' = told
    BY <1>3 DEF FetchRefused, FetchFails, FetchOpens, Fetching
  <2>2. /\ fetched' \subseteq opened' /\ opened' \subseteq Urls
        /\ \/ reply' = [kind |-> "failed"]
           \/ \E u \in Urls : reply' = [kind |-> "page", url |-> u]
           \/ \E u \in opened' : reply' = [kind |-> "refused", url |-> u]
    BY <1>3 DEF FetchRefused, FetchFails, FetchOpens, ToolsInv, ToolsTypeOK, SeenWasOpened
  <2>3. /\ reply' \in [kind : Replies] \cup [kind : {"page", "refused"}, url : Urls]
        /\ reply'.kind # "results"
        /\ reply'.kind = "refused" => reply'.url \in opened'
    BY <2>2 DEF Replies
  <2> QED BY <1>1, <2>1, <2>2, <2>3
    DEF ToolsInv, ToolsTypeOK, ToldIsDead, SeenWasOpened, ExitIsOver, PhaseIsCounted,
        NeverUnsynced
<1> QED BY <1>2, <1>3 DEF Research

\* "exit N" is said of a command that is over, and over it stays.
LEMMA BashKeeps ==
  ASSUME ToolsInv, NEW c \in Calls, RunBash(c) \/ Bash(c) \/ Command(c)
  PROVE  ToolsInv'
<1>1. Rest' = Rest
  BY DEF RunBash, Bash, BashReturns, BashTimesOut, Drain, Command, ShellSpawns,
         ShellExits, ChildExits, Reap
<1>2. proc \in [Calls -> Procs] /\ proc[c] \in Procs
  BY DEF ToolsInv, ToolsTypeOK
<1>3. /\ proc' \in [Calls -> Procs]
      /\ call' \in [Calls -> {"free", "wait", "drain", "exit", "timeout", "cut"}]
  <2>1. CASE RunBash(c)
    <3>1. [proc[c] EXCEPT !.shell = "up"] \in Procs
      BY <1>2 DEF Procs
    <3> QED BY <1>2, <2>1, <3>1 DEF RunBash, ToolsInv, ToolsTypeOK
  <2>2. CASE BashReturns(c) \/ Drain(c)
    BY <1>2, <2>2 DEF BashReturns, Drain, ToolsInv, ToolsTypeOK
  <2>3. CASE BashTimesOut(c)
    <3>1. KillGroup(proc[c]) \in Procs
      BY <1>2, KillTyped
    <3> QED BY <1>2, <2>3, <3>1 DEF BashTimesOut, ToolsInv, ToolsTypeOK
  <2>4. CASE Command(c)
    <3>1. call' = call
      BY <2>4 DEF Command, ShellSpawns, ShellExits, ChildExits, Reap
    <3> QED BY <1>2, <2>4, <3>1, CommandTyped DEF ToolsInv, ToolsTypeOK
  <2> QED BY <2>1, <2>2, <2>3, <2>4 DEF Bash
<1>4. ASSUME NEW d \in Calls, call'[d] = "exit"
      PROVE  Communicated(proc'[d])
  <2>1. CASE Command(c)
    <3>1. call' = call
      BY <2>1 DEF Command, ShellSpawns, ShellExits, ChildExits, Reap
    <3>2. Communicated(proc[d])
      BY <1>4, <3>1 DEF ToolsInv, ExitIsOver
    <3> QED BY <1>2, <2>1, <3>2, OverStaysOver
  <2>2. CASE BashReturns(c)
    BY <1>4, <2>2 DEF BashReturns, ToolsInv, ToolsTypeOK, ExitIsOver
  <2>3. CASE RunBash(c) \/ BashTimesOut(c) \/ Drain(c)
    <3>1. d # c /\ call'[d] = call[d] /\ proc'[d] = proc[d]
      BY <1>2, <1>4, <2>3 DEF RunBash, BashTimesOut, Drain, ToolsInv, ToolsTypeOK
    <3> QED BY <1>4, <3>1 DEF ToolsInv, ExitIsOver
  <2> QED BY <2>1, <2>2, <2>3 DEF Bash
<1>5. ExitIsOver'
  BY <1>4 DEF ExitIsOver, Communicated, HoldsPipe
<1> QED BY <1>1, <1>3, <1>5
  DEF Rest, web, ToolsInv, ToolsTypeOK, ToldIsDead, SeenWasOpened, PhaseIsCounted,
      NeverUnsynced

\* The name changes hands only over a synced file.
LEMMA WriteKeeps ==
  ASSUME ToolsInv, Write
  PROVE  ToolsInv'
<1>1. Bystanders' = Bystanders
  BY DEF Write, MakeTemp, WriteTemp, FsyncTemp, Replace, WriteFails
<1>2. /\ tmp' \in {"none", "part", "written", "synced"}
      /\ file' \in {"absent", "whole"}
  BY DEF Write, MakeTemp, WriteTemp, FsyncTemp, Replace, WriteFails, ToolsInv,
         NeverUnsynced
<1> QED BY <1>1, <1>2
  DEF Bystanders, web, ToolsInv, ToolsTypeOK, ToldIsDead, SeenWasOpened, ExitIsOver,
      PhaseIsCounted, NeverUnsynced

LEMMA ToolsInvariant == ToolsSpec => []ToolsInv
<1>1. ToolsInit => ToolsInv
  BY ToolsStart
<1>2. ToolsInv /\ [ToolsNext]_toolsVars => ToolsInv'
  <2> SUFFICES ASSUME ToolsInv, [ToolsNext]_toolsVars
               PROVE  ToolsInv'
    OBVIOUS
  <2>1. CASE UNCHANGED toolsVars
    BY <2>1
    DEF toolsVars, web, ToolsInv, ToolsTypeOK, ToldIsDead, SeenWasOpened, ExitIsOver,
        PhaseIsCounted, NeverUnsynced
  <2> QED BY <2>1, AroundKeeps, AskKeeps, ResearchKeeps, BashKeeps, WriteKeeps
    DEF ToolsNext
<1> QED BY <1>1, <1>2, PTL DEF ToolsSpec

\* The memories, counters, processes and files of the tools have their types.
THEOREM ToolsTypeCorrect == ToolsSpec => []ToolsTypeOK
<1>1. ToolsInv => ToolsTypeOK
  BY DEF ToolsInv
<1> QED BY <1>1, ToolsInvariant, PTL

\* No search succeeds after the model was told it will keep failing, a page refused
\* as already fetched was downloaded in this conversation, and a command that is
\* said to have exited can add nothing to its output.
THEOREM WordsAreKept == ToolsSpec => []WordsHold
<1>1. ToolsInv => WordsHold
  BY DEF ToolsInv, ToldIsDead, SeenWasOpened, ExitIsOver, Communicated, WordsHold
<1> QED BY <1>1, ToolsInvariant, PTL

\* One phase, however often it is sent back in one process, asks the user at most
\* Cap questions; a new process counts from nothing.
THEOREM QuestionsAreBounded == ToolsSpec => []QuestionsBounded
<1>1. ToolsInv => QuestionsBounded
  BY CapAssumption DEF ToolsInv, ToolsTypeOK, PhaseIsCounted, QuestionsBounded
<1> QED BY <1>1, ToolsInvariant, PTL

\* No failure, kill or loss of power leaves a file that was written in part.
THEOREM FilesStayWhole == ToolsSpec => []FilesAreWhole
<1>1. ToolsInv => FilesAreWhole
  BY DEF ToolsInv, NeverUnsynced, FilesAreWhole
<1> QED BY <1>1, ToolsInvariant, PTL
=============================================================================
