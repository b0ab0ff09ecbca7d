--------------------------- MODULE Rubric_proofs ---------------------------
(***************************************************************************)
(* Theorems about grading, for any criteria, weights, code and litter.     *)
(* The invariant says what the memo holds while a round runs and between   *)
(* rounds, which code a running criterion reads, and how a round ends.     *)
(***************************************************************************)
EXTENDS Rubric, TLAPS

\* What was graded or asked in this round is about the code the round began with.
Honest ==
  ~touched =>
    /\ pc # "idle" => tree.code = stamp.code
    /\ \A c \in Criteria : memo[c] # Nothing => memo[c].of = memo[c].stamp.code
    /\ pc # "idle" => \A c \in Criteria :
                        job[c] \in {"running", "retrying"} => of[c] = stamp.code

\* What was graded can be served again: by the stamp of the round, and then by the tree.
Settled ==
  /\ pc # "idle" => \A c \in Criteria : c \in settled \/ job[c] = "graded" => Served(c, stamp)
  /\ pc = "idle" => \A c \in settled : Served(c, tree)

\* Which group is graded, and what a round leaves behind.
Groups ==
  /\ pc = "shell" => \A c \in Shell : job[c] \in {"running", "graded"}
  /\ pc = "judge" => Done(Shell) /\ ~\E h \in HardFail \cap Shell : score[h] < Scale
  /\ pc = "shell" => \A c \in Judge : job[c] = "waiting"
  /\ pc = "idle" => \/ \A c \in Criteria : job[c] = "waiting"
                    \/ Done(Criteria)
                    \/ HardFailed

IInv == TypeOK /\ Honest /\ Settled /\ Groups

-----------------------------------------------------------------------------
LEMMA Positive == ASSUME NEW a \in Nat \ {0}, NEW b \in Nat \ {0} PROVE a * b > 0
OBVIOUS

LEMMA Zero == 0 \in 0..Scale /\ Scale \in 0..Scale
BY RubricAssumption

LEMMA InitHolds == Init => IInv
<1> SUFFICES ASSUME Init PROVE IInv
  OBVIOUS
<1>1. tree.code \in Codes
  BY DEF Init, Trees
<1>2. TypeOK
  BY <1>1, Zero DEF Init, TypeOK, Criteria
<1>3. Honest
  BY DEF Init, Honest
<1>4. Settled
  BY DEF Init, Settled
<1>5. Groups
  BY DEF Init, Groups
<1> QED BY <1>2, <1>3, <1>4, <1>5 DEF IInv

LEMMA NewBuildKeeps == IInv /\ NewBuild => IInv'
<1> SUFFICES ASSUME IInv, NewBuild PROVE IInv'
  OBVIOUS
<1>1. tree \in Trees /\ tree.code \in Codes
  BY DEF IInv, TypeOK, Trees
<1>2. TypeOK'
  BY <1>1, Zero DEF NewBuild, TypeOK, Criteria
<1>3. Honest' /\ Settled' /\ Groups'
  BY DEF NewBuild, Honest, Settled, Groups
<1> QED BY <1>2, <1>3 DEF IInv

-----------------------------------------------------------------------------
(* A group begins: hits are served, the others run on the code as it is. *)

LEMMA BeginFacts ==
  ASSUME IInv, NEW group \in SUBSET Criteria, NEW hash \in Trees, Begin(group, hash)
  PROVE  /\ job' \in [Criteria -> {"waiting", "running", "retrying", "graded", "skipped"}]
         /\ of' \in [Criteria -> Codes] /\ score' \in [Criteria -> 0..Scale]
         /\ \A c \in group : job'[c] = IF Served(c, hash) THEN "graded" ELSE "running"
         /\ \A c \in Criteria \ group :
              /\ job'[c] = IF c \in Judge THEN "waiting" ELSE job[c]
              /\ of'[c] = of[c] /\ score'[c] = score[c]
         /\ \A c \in group : job'[c] = "running" => of'[c] = tree.code
<1>1. /\ tree.code \in Codes /\ 0 \in 0..Scale
      /\ job \in [Criteria -> {"waiting", "running", "retrying", "graded", "skipped"}]
      /\ of \in [Criteria -> Codes] /\ score \in [Criteria -> 0..Scale]
      /\ memo \in [Criteria -> Entries \cup {Nothing}]
  BY RubricAssumption DEF IInv, TypeOK, Trees
<1>2. ASSUME NEW c \in Criteria, Served(c, hash)
      PROVE  memo[c].of \in Codes /\ memo[c].score \in 0..Scale
  <2>1. memo[c] \in Entries
    BY <1>1, <1>2 DEF Served
  <2> QED BY <2>1 DEF Entries
<1>3. of' \in [Criteria -> Codes]
  BY <1>1, <1>2 DEF Begin
<1>4. score' \in [Criteria -> 0..Scale]
  BY <1>1, <1>2 DEF Begin
<1>5. job' \in [Criteria -> {"waiting", "running", "retrying", "graded", "skipped"}]
  BY <1>1 DEF Begin
<1>6. \A c \in group : /\ job'[c] = IF Served(c, hash) THEN "graded" ELSE "running"
                       /\ job'[c] = "running" => of'[c] = tree.code
  BY DEF Begin
<1>7. \A c \in Criteria \ group :
        /\ job'[c] = IF c \in Judge THEN "waiting" ELSE job[c]
        /\ of'[c] = of[c] /\ score'[c] = score[c]
  BY DEF Begin
<1> QED BY <1>3, <1>4, <1>5, <1>6, <1>7

LEMMA StartRoundKeeps == IInv /\ StartRound => IInv'
<1> SUFFICES ASSUME IInv, StartRound PROVE IInv'
  OBVIOUS
<1>1. /\ pc = "idle" /\ pc' = "shell" /\ stamp' = tree /\ Begin(Shell, tree)
      /\ UNCHANGED <<tree, memo, settled, touched>>
  BY DEF StartRound
<1>2. TypeOK /\ Honest /\ Settled /\ tree \in Trees
  BY DEF IInv, TypeOK
<1>3. /\ job' \in [Criteria -> {"waiting", "running", "retrying", "graded", "skipped"}]
      /\ of' \in [Criteria -> Codes] /\ score' \in [Criteria -> 0..Scale]
      /\ \A c \in Shell : job'[c] = IF Served(c, tree) THEN "graded" ELSE "running"
      /\ \A c \in Criteria \ Shell : job'[c] = IF c \in Judge THEN "waiting" ELSE job[c]
      /\ \A c \in Shell : job'[c] = "running" => of'[c] = tree.code
  BY <1>1, <1>2, BeginFacts DEF Criteria
<1>4. \A c \in Judge : job'[c] = "waiting"
  BY <1>3, RubricAssumption DEF Criteria
<1>5. TypeOK'
  BY <1>1, <1>2, <1>3, <1>4 DEF TypeOK
<1>6. Honest'
  BY <1>1, <1>2, <1>3, <1>4 DEF Honest, Criteria
<1>7. Settled'
  BY <1>1, <1>2, <1>3, <1>4 DEF Settled, Served, Criteria
<1>8. Groups'
  BY <1>1, <1>3, <1>4 DEF Groups
<1> QED BY <1>5, <1>6, <1>7, <1>8 DEF IInv

LEMMA StartJudgesKeeps == IInv /\ StartJudges => IInv'
<1> SUFFICES ASSUME IInv, StartJudges PROVE IInv'
  OBVIOUS
<1>1. /\ pc = "shell" /\ Done(Shell) /\ ~HardFailed /\ pc' = "judge" /\ Begin(Judge, stamp)
      /\ UNCHANGED <<tree, stamp, memo, settled, touched>>
  BY DEF StartJudges
<1>2. TypeOK /\ Honest /\ Settled /\ stamp \in Trees
  BY DEF IInv, TypeOK
<1>3. /\ job' \in [Criteria -> {"waiting", "running", "retrying", "graded", "skipped"}]
      /\ of' \in [Criteria -> Codes] /\ score' \in [Criteria -> 0..Scale]
      /\ \A c \in Judge : job'[c] = IF Served(c, stamp) THEN "graded" ELSE "running"
      /\ \A c \in Criteria \ Judge :
           /\ job'[c] = IF c \in Judge THEN "waiting" ELSE job[c]
           /\ score'[c] = score[c]
      /\ \A c \in Judge : job'[c] = "running" => of'[c] = tree.code
  BY <1>1, <1>2, BeginFacts DEF Criteria
<1>4. \A c \in Shell : job'[c] = "graded" /\ job[c] = "graded" /\ score'[c] = score[c]
  BY <1>1, <1>3, RubricAssumption DEF Criteria, Done
<1>5. TypeOK'
  BY <1>1, <1>2, <1>3, <1>4 DEF TypeOK
<1>6. Honest'
  BY <1>1, <1>2, <1>3, <1>4 DEF Honest, Criteria
<1>7. Settled'
  BY <1>1, <1>2, <1>3, <1>4 DEF Settled, Served, Criteria
<1>8. Groups'
  BY <1>1, <1>4 DEF Groups, Done, HardFailed
<1> QED BY <1>5, <1>6, <1>7, <1>8 DEF IInv

-----------------------------------------------------------------------------
(* One criterion gets its result. *)

LEMMA ResultFacts ==
  ASSUME TypeOK, NEW c \in Criteria, NEW code \in Codes, NEW points \in 0..Scale,
         Result(c, code, points)
  PROVE  /\ job' \in [Criteria -> {"waiting", "running", "retrying", "graded", "skipped"}]
         /\ of' \in [Criteria -> Codes] /\ score' \in [Criteria -> 0..Scale]
         /\ memo' \in [Criteria -> Entries \cup {Nothing}]
         /\ job'[c] = "graded" /\ memo'[c] # Nothing
         /\ memo'[c].stamp = stamp /\ memo'[c].of = code
         /\ \A d \in Criteria \ {c} :
              job'[d] = job[d] /\ of'[d] = of[d] /\ score'[d] = score[d] /\ memo'[d] = memo[d]
<1>1. /\ job \in [Criteria -> {"waiting", "running", "retrying", "graded", "skipped"}]
      /\ of \in [Criteria -> Codes] /\ score \in [Criteria -> 0..Scale]
      /\ memo \in [Criteria -> Entries \cup {Nothing}] /\ stamp \in Trees
  BY DEF TypeOK
<1>2. [stamp |-> stamp, of |-> code, score |-> points] \in Entries
  BY <1>1 DEF Entries
<1>3. [stamp |-> stamp, of |-> code, score |-> points] # Nothing
  BY <1>2, RubricAssumption
<1> QED BY <1>1, <1>2, <1>3 DEF Result

LEMMA ResultKeeps ==
  ASSUME IInv, pc # "idle", pc' = pc, tree' \in Trees, tree'.code = tree.code,
         UNCHANGED <<stamp, settled, touched>>,
         NEW c \in Criteria, job[c] \in {"running", "retrying"},
         pc = "shell" => c \in Shell, pc = "judge" => c \in Judge,
         NEW code \in Codes, ~touched => code = stamp.code,
         NEW points \in 0..Scale, Result(c, code, points)
  PROVE  IInv'
<1>1. TypeOK /\ Honest /\ Settled /\ Groups
  BY DEF IInv
<1>2. /\ job' \in [Criteria -> {"waiting", "running", "retrying", "graded", "skipped"}]
      /\ of' \in [Criteria -> Codes] /\ score' \in [Criteria -> 0..Scale]
      /\ memo' \in [Criteria -> Entries \cup {Nothing}]
      /\ job'[c] = "graded" /\ memo'[c] # Nothing
      /\ memo'[c].stamp = stamp /\ memo'[c].of = code
      /\ \A d \in Criteria \ {c} :
           job'[d] = job[d] /\ of'[d] = of[d] /\ score'[d] = score[d] /\ memo'[d] = memo[d]
  BY <1>1, ResultFacts
<1>3. \A d \in Criteria : job'[d] = job[d] \/ job'[d] = "graded"
  BY <1>2
<1>4. TypeOK'
  <2>1. \A d \in Shell : job'[d] \notin {"retrying", "skipped"}
    BY <1>1, <1>3 DEF TypeOK, Criteria
  <2>2. pc' = "judge" => \A d \in Judge : job'[d] \in {"running", "retrying", "graded"}
    BY <1>1, <1>3 DEF TypeOK, Criteria
  <2> QED BY <1>1, <1>2, <2>1, <2>2 DEF TypeOK
<1>5. Honest'
  BY <1>1, <1>2 DEF Honest
<1>6. Settled'
  BY <1>1, <1>2 DEF Settled, Served
<1>7. Groups'
  <2>1. CASE pc = "shell"
    <3>1. c \notin Judge
      BY <2>1, RubricAssumption
    <3> QED BY <1>1, <1>2, <2>1, <3>1 DEF Groups, Criteria
  <2>2. CASE pc = "judge"
    <3>1. c \notin Shell
      BY <2>2, RubricAssumption
    <3> QED BY <1>1, <1>2, <2>2, <3>1 DEF Groups, Done, Criteria
  <2> QED BY <1>1, <2>1, <2>2 DEF TypeOK
<1> QED BY <1>4, <1>5, <1>6, <1>7 DEF IInv

LEMMA ShellEndsKeeps == ASSUME IInv, NEW c \in Shell, ShellEnds(c) PROVE IInv'
<1>1. PICK code \in {of[c], tree.code}, points \in {0, Scale} : Result(c, code, points)
  BY DEF ShellEnds
<1>2. PICK l \in Litter : tree' = [tree EXCEPT !.litter = l]
  BY DEF ShellEnds
<1>3. /\ pc = "shell" /\ pc' = pc /\ job[c] = "running"
      /\ UNCHANGED <<stamp, settled, touched>>
  BY DEF ShellEnds
<1>4. tree' \in Trees /\ tree'.code = tree.code
  BY <1>2 DEF IInv, TypeOK, Trees
<1>5. code \in Codes /\ points \in 0..Scale /\ c \in Criteria
  BY Zero DEF IInv, TypeOK, Trees, Criteria
<1>6. ~touched => code = stamp.code
  BY <1>3, <1>5 DEF IInv, Honest
<1> QED BY <1>1, <1>3, <1>4, <1>5, <1>6, ResultKeeps

LEMMA JudgeKeeps ==
  ASSUME IInv, NEW c \in Judge, JudgeAnswers(c) \/ JudgeBabbles(c) \/ JudgeFails(c)
  PROVE  IInv'
<1>1. /\ pc = "judge" /\ pc' = pc /\ job[c] \in {"running", "retrying"}
      /\ tree' = tree /\ UNCHANGED <<stamp, settled, touched>>
  BY DEF JudgeAnswers, JudgeBabbles, JudgeFails, Asked
<1>2. /\ tree' \in Trees /\ tree'.code = tree.code /\ c \in Criteria /\ of[c] \in Codes
      /\ ~touched => of[c] = stamp.code
  BY <1>1 DEF IInv, TypeOK, Honest, Criteria
<1>3. CASE \E points \in 0..Scale : Result(c, of[c], points)
  BY <1>1, <1>2, <1>3, ResultKeeps
<1>4. CASE job[c] = "running" /\ job' = [job EXCEPT ![c] = "retrying"]
           /\ UNCHANGED <<of, score, memo>>
  <2>1. /\ job' \in [Criteria -> {"waiting", "running", "retrying", "graded", "skipped"}]
        /\ job'[c] = "retrying" /\ \A d \in Criteria \ {c} : job'[d] = job[d]
    BY <1>2, <1>4 DEF IInv, TypeOK
  <2>2. c \notin Shell
    BY RubricAssumption
  <2>3. TypeOK'
    BY <1>1, <1>4, <2>1, <2>2 DEF IInv, TypeOK, Criteria
  <2>4. Honest'
    BY <1>1, <1>2, <1>4, <2>1 DEF IInv, Honest
  <2>5. Settled'
    BY <1>1, <1>4, <2>1 DEF IInv, Settled, Served
  <2>6. Groups'
    BY <1>1, <1>4, <2>1, <2>2 DEF IInv, Groups, Done, Criteria
  <2> QED BY <2>3, <2>4, <2>5, <2>6 DEF IInv
<1> QED BY <1>3, <1>4, Zero DEF JudgeAnswers, JudgeBabbles, JudgeFails

-----------------------------------------------------------------------------
(* A round closes: what it graded is stamped with the tree as it is now. *)

LEMMA CloseFacts ==
  ASSUME IInv, pc # "idle", Close,
         \A c \in Criteria : job'[c] = "graded" => job[c] = "graded"
  PROVE  /\ memo' \in [Criteria -> Entries \cup {Nothing}] /\ settled' \subseteq Criteria
         /\ pc' = "idle" /\ UNCHANGED <<tree, stamp, touched>>
         /\ Honest' /\ Settled'
<1>1. /\ TypeOK /\ Honest /\ Settled /\ tree \in Trees /\ stamp \in Trees
      /\ memo \in [Criteria -> Entries \cup {Nothing}]
  BY DEF IInv, TypeOK
<1>2. /\ pc' = "idle" /\ UNCHANGED <<tree, stamp, touched>>
      /\ settled' = {c \in Criteria : job'[c] = "graded"}
      /\ memo' = [c \in Criteria |-> IF Served(c, stamp)
                                     THEN [memo[c] EXCEPT !.stamp = tree] ELSE memo[c]]
  BY DEF Close
<1>3. ASSUME NEW c \in Criteria, Served(c, stamp)
      PROVE  /\ memo[c] \in Entries /\ memo'[c] \in Entries
             /\ memo'[c].stamp = tree /\ memo'[c].of = memo[c].of /\ memo'[c] # Nothing
  <2>1. memo[c] \in Entries /\ memo'[c] = [memo[c] EXCEPT !.stamp = tree]
    BY <1>1, <1>2, <1>3 DEF Served
  <2>2. memo'[c] \in Entries /\ memo'[c].stamp = tree /\ memo'[c].of = memo[c].of
    BY <1>1, <2>1 DEF Entries
  <2> QED BY <2>1, <2>2, RubricAssumption
<1>4. \A c \in Criteria : ~Served(c, stamp) => memo'[c] = memo[c]
  BY <1>2
<1>5. memo' \in [Criteria -> Entries \cup {Nothing}]
  BY <1>1, <1>2, <1>3, <1>4
<1>6. Honest'
  <2> SUFFICES ASSUME ~touched, NEW c \in Criteria, memo'[c] # Nothing
               PROVE  memo'[c].of = memo'[c].stamp.code
    BY <1>2 DEF Honest
  <2>1. CASE Served(c, stamp)
    BY <1>1, <1>3, <2>1 DEF Honest, Served
  <2>2. CASE ~Served(c, stamp)
    BY <1>1, <1>4, <2>2 DEF Honest
  <2> QED BY <2>1, <2>2
<1>7. Settled'
  BY <1>1, <1>2, <1>3 DEF Settled, Served
<1> QED BY <1>2, <1>5, <1>6, <1>7

LEMMA StopKeeps == IInv /\ StopAtHardFail => IInv'
<1> SUFFICES ASSUME IInv, StopAtHardFail PROVE IInv'
  OBVIOUS
<1>1. /\ pc = "shell" /\ Done(Shell) /\ HardFailed /\ Close /\ of' = of
      /\ job' = [c \in Criteria |-> IF c \in Judge THEN "skipped" ELSE job[c]]
      /\ score' = [c \in Criteria |-> IF c \in Judge THEN 0 ELSE score[c]]
  BY DEF StopAtHardFail
<1>2. TypeOK /\ Groups
  BY DEF IInv
<1>3. \A c \in Criteria : job'[c] = "graded" => job[c] = "graded"
  BY <1>1
<1>4. /\ memo' \in [Criteria -> Entries \cup {Nothing}] /\ settled' \subseteq Criteria
      /\ pc' = "idle" /\ UNCHANGED <<tree, stamp, touched>> /\ Honest' /\ Settled'
  BY <1>1, <1>3, CloseFacts
<1>5. /\ job' \in [Criteria -> {"waiting", "running", "retrying", "graded", "skipped"}]
      /\ score' \in [Criteria -> 0..Scale]
      /\ \A c \in Shell : job'[c] = job[c] /\ score'[c] = score[c]
  BY <1>1, <1>2, Zero, RubricAssumption DEF TypeOK, Criteria
<1>6. TypeOK'
  BY <1>1, <1>2, <1>4, <1>5 DEF TypeOK
<1>7. HardFailed'
  <2>1. PICK c \in HardFail : job[c] \in {"graded", "skipped"} /\ score[c] < Scale
    BY <1>1 DEF HardFailed
  <2>2. c \in Shell
    BY <1>1, <1>2, <2>1, RubricAssumption DEF Groups, Criteria
  <2> QED BY <1>5, <2>1, <2>2 DEF HardFailed
<1>8. Groups'
  BY <1>4, <1>7 DEF Groups
<1> QED BY <1>4, <1>6, <1>8 DEF IInv

LEMMA FinishKeeps == IInv /\ FinishRound => IInv'
<1> SUFFICES ASSUME IInv, FinishRound PROVE IInv'
  OBVIOUS
<1>1. /\ pc = "judge" /\ Done(Judge) /\ Close /\ UNCHANGED <<job, of, score>>
  BY DEF FinishRound
<1>2. TypeOK /\ Groups
  BY DEF IInv
<1>3. /\ memo' \in [Criteria -> Entries \cup {Nothing}] /\ settled' \subseteq Criteria
      /\ pc' = "idle" /\ UNCHANGED <<tree, stamp, touched>> /\ Honest' /\ Settled'
  BY <1>1, CloseFacts
<1>4. TypeOK'
  BY <1>1, <1>2, <1>3 DEF TypeOK
<1>5. Done(Criteria)'
  BY <1>1, <1>2 DEF Groups, Done, Criteria
<1>6. Groups'
  BY <1>3, <1>5 DEF Groups
<1> QED BY <1>3, <1>4, <1>6 DEF IInv

-----------------------------------------------------------------------------
LEMMA EditsKeep == IInv /\ (AgentWorks \/ UserEdits) => IInv'
<1> SUFFICES ASSUME IInv, AgentWorks \/ UserEdits PROVE IInv'
  OBVIOUS
<1>1. CASE AgentWorks
  <2>1. /\ pc = "idle" /\ tree' \in Trees /\ UNCHANGED <<pc, stamp, job, of, score, memo, touched>>
        /\ settled' = IF tree' = tree THEN settled ELSE {}
    BY <1>1 DEF AgentWorks, round
  <2>2. TypeOK'
    BY <2>1 DEF IInv, TypeOK
  <2>3. Honest' /\ Settled'
    BY <2>1 DEF IInv, Honest, Settled, Served
  <2>4. Groups'
    BY <2>1 DEF IInv, Groups, Done, HardFailed
  <2> QED BY <2>2, <2>3, <2>4 DEF IInv
<1>2. CASE UserEdits
  <2>1. PICK code \in Codes : tree' = [tree EXCEPT !.code = code]
    BY <1>2 DEF UserEdits
  <2>2. pc # "idle" /\ touched' = TRUE /\ UNCHANGED <<pc, stamp, job, of, score, memo, settled>>
    BY <1>2 DEF UserEdits, round
  <2>3. tree' \in Trees
    BY <2>1 DEF IInv, TypeOK, Trees
  <2>4. TypeOK'
    BY <2>2, <2>3 DEF IInv, TypeOK
  <2>5. Honest' /\ Settled'
    BY <2>2 DEF IInv, Honest, Settled, Served
  <2>6. Groups'
    BY <2>2 DEF IInv, Groups, Done, HardFailed
  <2> QED BY <2>4, <2>5, <2>6 DEF IInv
<1> QED BY <1>1, <1>2

LEMMA StepKeeps == IInv /\ [Next]_vars => IInv'
<1> SUFFICES ASSUME IInv, [Next]_vars PROVE IInv'
  OBVIOUS
<1>1. CASE StartRound
  BY <1>1, StartRoundKeeps
<1>2. CASE RoundStep
  BY <1>2, ShellEndsKeeps, JudgeKeeps, StopKeeps, StartJudgesKeeps, FinishKeeps DEF RoundStep
<1>3. CASE AgentWorks \/ UserEdits
  BY <1>3, EditsKeep
<1>4. CASE NewBuild
  BY <1>4, NewBuildKeeps
<1>5. CASE UNCHANGED vars
  <2>1. UNCHANGED <<pc, tree, stamp, job, of, score, memo, settled, touched>>
    BY <1>5 DEF vars, round
  <2>2. TypeOK'
    BY <2>1 DEF IInv, TypeOK
  <2>3. Honest' /\ Settled'
    BY <2>1 DEF IInv, Honest, Settled, Served
  <2>4. Groups'
    BY <2>1 DEF IInv, Groups, Done, HardFailed
  <2> QED BY <2>2, <2>3, <2>4 DEF IInv
<1> QED BY <1>1, <1>2, <1>3, <1>4, <1>5 DEF Next

LEMMA Inductive == Spec => []IInv
BY InitHolds, StepKeeps, PTL DEF Spec

-----------------------------------------------------------------------------
\* Grading is type-correct: every score stays within its scale, and no criterion is asked
\* out of turn.
THEOREM TypeCorrect == Spec => []TypeOK
<1>1. IInv => TypeOK
  BY DEF IInv
<1> QED BY <1>1, Inductive, PTL

\* Left alone while it is graded, the code is never given the score of other code.
THEOREM MemoHolds == Spec => []MemoIsHonest
<1>1. IInv => MemoIsHonest
  BY DEF IInv, Honest, MemoIsHonest, Served
<1> QED BY <1>1, Inductive, PTL

\* Commands before judges, and no judge in a sunk round.
THEOREM JudgesWait == Spec => []ShellBeforeJudge
<1>1. IInv => ShellBeforeJudge
  <2> SUFFICES ASSUME IInv, NEW c \in Judge, Asked(c)
               PROVE  Done(Shell) /\ \A h \in HardFail \cap Shell : score[h] = Scale
    BY DEF ShellBeforeJudge
  <2>1. Done(Shell) /\ \A h \in HardFail \cap Shell : ~(score[h] < Scale)
    BY DEF IInv, Groups, Asked
  <2>2. ASSUME NEW h \in HardFail \cap Shell PROVE score[h] = Scale
    <3>1. score[h] \in 0..Scale
      BY DEF IInv, TypeOK, Criteria
    <3> QED BY <2>1, <3>1, RubricAssumption
  <2> QED BY <2>1, <2>2
<1> QED BY <1>1, Inductive, PTL

\* What reaches the threshold has no hard fail, for any weights.
THEOREM PassHolds == Spec => []PassIsWhole
<1>1. IInv => PassIsWhole
  <2> SUFFICES ASSUME IInv, RoundIsOver, Threshold > 0, Total >= Threshold * Whole,
                      NEW c \in HardFail
               PROVE  job[c] = "graded" /\ score[c] = Scale
    BY DEF PassIsWhole
  <2>1. Threshold * Whole > 0 /\ ~(0 >= Threshold * Whole)
    <3>1. Threshold \in Nat \ {0} /\ Whole \in Nat \ {0}
      BY RubricAssumption
    <3>2. Threshold * Whole > 0 /\ Threshold * Whole \in Int
      BY <3>1, Positive
    <3> QED BY <3>2
  <2>2. ~HardFailed
    BY <2>1 DEF Total
  <2>3. c \in Criteria /\ score[c] \in 0..Scale /\ pc = "idle" /\ job[c] # "waiting"
    BY RubricAssumption DEF IInv, TypeOK, RoundIsOver
  <2>4. job[c] = "graded"
    BY <2>2, <2>3 DEF IInv, Groups, Done
  <2>5. ~(score[c] < Scale)
    BY <2>2, <2>4 DEF HardFailed
  <2> QED BY <2>3, <2>4, <2>5, RubricAssumption
<1> QED BY <1>1, Inductive, PTL

\* A tree left alone is graded once, whatever litter its grading left.
THEOREM UnchangedFree == Spec => UnchangedIsFree
<1>1. IInv /\ [Next]_vars =>
        [\A c \in Criteria :
           job[c] # "running" /\ job'[c] = "running" => c \notin settled]_vars
  <2> SUFFICES ASSUME IInv, Next, NEW c \in Criteria,
                      job[c] # "running", job'[c] = "running"
               PROVE  c \notin settled
    OBVIOUS
  <2>1. CASE StartRound
    <3>1. Begin(Shell, tree) /\ pc = "idle" /\ tree \in Trees /\ Shell \in SUBSET Criteria
      BY <2>1 DEF StartRound, IInv, TypeOK, Criteria
    <3>2. /\ \A d \in Shell : job'[d] = IF Served(d, tree) THEN "graded" ELSE "running"
          /\ \A d \in Criteria \ Shell : job'[d] = IF d \in Judge THEN "waiting" ELSE job[d]
      BY <3>1, BeginFacts
    <3>3. ~Served(c, tree)
      BY <3>2
    <3> QED BY <3>1, <3>3 DEF IInv, Settled
  <2>2. CASE StartJudges
    <3>1. Begin(Judge, stamp) /\ pc = "shell" /\ stamp \in Trees /\ Judge \in SUBSET Criteria
      BY <2>2 DEF StartJudges, IInv, TypeOK, Criteria
    <3>2. /\ \A d \in Judge : job'[d] = IF Served(d, stamp) THEN "graded" ELSE "running"
          /\ \A d \in Criteria \ Judge : job'[d] = IF d \in Judge THEN "waiting" ELSE job[d]
      BY <3>1, BeginFacts
    <3>3. ~Served(c, stamp)
      BY <3>2
    <3> QED BY <3>1, <3>3 DEF IInv, Settled
  <2>3. ASSUME NEW d \in Criteria, NEW to, job' = [job EXCEPT ![d] = to], to # "running"
        PROVE  FALSE
    <3>1. job \in [Criteria -> {"waiting", "running", "retrying", "graded", "skipped"}]
      BY DEF IInv, TypeOK
    <3> QED BY <2>3, <3>1
  <2>4. CASE RoundStep /\ ~StartJudges
    <3>1. ~\E d \in Shell : ShellEnds(d)
      BY <2>3 DEF ShellEnds, Result, Criteria
    <3>2. ~\E d \in Judge : JudgeAnswers(d) \/ JudgeBabbles(d) \/ JudgeFails(d)
      BY <2>3 DEF JudgeAnswers, JudgeBabbles, JudgeFails, Result, Criteria
    <3>3. ~StopAtHardFail /\ ~FinishRound
      BY DEF StopAtHardFail, FinishRound
    <3> QED BY <2>4, <3>1, <3>2, <3>3 DEF RoundStep
  <2>5. ~(AgentWorks \/ UserEdits \/ NewBuild)
    BY DEF AgentWorks, UserEdits, NewBuild, round
  <2> QED BY <2>1, <2>2, <2>4, <2>5 DEF Next
<1> QED BY <1>1, Inductive, PTL DEF Spec, UnchangedIsFree
=============================================================================
