------------------------------- MODULE Rubric -------------------------------
(***************************************************************************)
(* grade (src/loom/rubric.py) called round after round by the RubricGrader *)
(* of one build (src/loom/phases/build.py), which owns the memo.           *)
(*                                                                         *)
(* A tree is the code somebody wrote and the litter that commands leave    *)
(* (caches, logs): both are in its hash, only the code decides a score.    *)
(* Each entry remembers, as history, the code it was graded on.            *)
(* Scores are integers, Scale is 1.0; weights sum to Whole.                *)
(***************************************************************************)
EXTENDS Integers, FiniteSetsExt

CONSTANTS
  Shell, Judge,      \* the criteria of each kind
  HardFail, Weight,
  Whole,             \* the sum of the weights, 1.0 (DesignPhase.refine)
  Scale, Threshold,
  Codes, Litter,
  Nothing

Criteria == Shell \cup Judge
Trees    == [code : Codes, litter : Litter]
Entries  == [stamp : Trees, of : Codes, score : 0..Scale]

ASSUME RubricAssumption ==
  /\ Shell \cap Judge = {} /\ HardFail \subseteq Criteria
  /\ Whole \in Nat \ {0} /\ Scale \in Nat \ {0} /\ Threshold \in 0..Scale
  /\ Codes # {} /\ Litter # {} /\ Nothing \notin Entries
ASSUME WeightAssumption ==
  Weight \in [Criteria -> Nat] /\ MapThenSumSet(LAMBDA c : Weight[c], Criteria) = Whole

VARIABLES
  pc,       \* "idle" between rounds, "shell" and "judge" while a group is graded
  tree,     \* the working tree
  stamp,    \* its hash as the round began, the local `tree` of grade
  job,      \* of each criterion in this round
  of, score,  \* what each was graded on, and its score
  memo,
  settled,  \* history: what the last round graded, the tree left alone since
  touched   \* history: somebody edited the code while a round was running

round == <<stamp, job, of, score>>
vars  == <<pc, tree, round, memo, settled, touched>>

TypeOK ==
  /\ pc \in {"idle", "shell", "judge"}
  /\ tree \in Trees /\ stamp \in Trees
  /\ job \in [Criteria -> {"waiting", "running", "retrying", "graded", "skipped"}]
  /\ of \in [Criteria -> Codes] /\ score \in [Criteria -> 0..Scale]
  /\ memo \in [Criteria -> Entries \cup {Nothing}]
  /\ settled \subseteq Criteria /\ touched \in BOOLEAN
  /\ \A c \in Shell : job[c] \notin {"retrying", "skipped"}
  /\ pc = "judge" => \A c \in Judge : job[c] \in {"running", "retrying", "graded"}

Init ==
  /\ pc = "idle" /\ tree \in Trees /\ stamp = tree
  /\ job = [c \in Criteria |-> "waiting"]
  /\ of = [c \in Criteria |-> tree.code] /\ score = [c \in Criteria |-> 0]
  /\ memo = [c \in Criteria |-> Nothing]
  /\ settled = {} /\ touched = FALSE

-----------------------------------------------------------------------------
Done(group) == \A c \in group : job[c] = "graded"

\* A judge criterion may be in hard_fail as well, and only counts once it is graded.
HardFailed == \E c \in HardFail : job[c] \in {"graded", "skipped"} /\ score[c] < Scale

\* Mutant: only a shell criterion can sink the total.
TotalShellOnly ==
  IF \E c \in HardFail \cap Shell : score[c] < Scale THEN 0
  ELSE MapThenSumSet(LAMBDA c : Weight[c] * score[c], Criteria)

Total ==
  IF HardFailed THEN 0 ELSE MapThenSumSet(LAMBDA c : Weight[c] * score[c], Criteria)

Served(c, hash) == memo[c] # Nothing /\ memo[c].stamp = hash

\* asyncio.gather over _memoized: a hit is served at once, the others begin to run.
Begin(group, hash) ==
  /\ job' = [c \in Criteria |-> IF c \notin group THEN IF c \in Judge THEN "waiting" ELSE job[c]
                                ELSE IF Served(c, hash) THEN "graded" ELSE "running"]
  /\ of' = [c \in Criteria |-> IF c \notin group THEN of[c]
                               ELSE IF Served(c, hash) THEN memo[c].of ELSE tree.code]
  /\ score' = [c \in Criteria |-> IF c \notin group THEN score[c]
                                  ELSE IF Served(c, hash) THEN memo[c].score ELSE 0]

StartRound ==
  /\ pc = "idle" /\ pc' = "shell"
  /\ stamp' = tree
  /\ Begin(Shell, tree)
  /\ UNCHANGED <<tree, memo, settled, touched>>

\* A result, memoized under the hash the round began with.
Result(c, code, points) ==
  /\ job' = [job EXCEPT ![c] = "graded"]
  /\ of' = [of EXCEPT ![c] = code]
  /\ score' = [score EXCEPT ![c] = points]
  /\ memo' = [memo EXCEPT ![c] = [stamp |-> stamp, of |-> code, score |-> points]]

\* The command ends, is refused, or is killed at its time limit.  It leaves any litter, and
\* has read the code as it was when it began or as it is now.
ShellEnds(c) ==
  /\ pc = "shell" /\ job[c] = "running"
  /\ \E code \in {of[c], tree.code}, points \in {0, Scale} : Result(c, code, points)
  /\ \E l \in Litter : tree' = [tree EXCEPT !.litter = l]
  /\ UNCHANGED <<pc, stamp, settled, touched>>

-----------------------------------------------------------------------------
\* Mutant: the memo is not stamped again.
CloseUnstamped ==
  /\ pc' = "idle"
  /\ settled' = {c \in Criteria : job'[c] = "graded"}
  /\ UNCHANGED <<memo, tree, stamp, touched>>

\* Mutant: every entry is stamped, the stale ones too.
CloseStampsAll ==
  /\ pc' = "idle"
  /\ memo' = [c \in Criteria |-> IF memo[c] # Nothing
                                 THEN [memo[c] EXCEPT !.stamp = tree] ELSE Nothing]
  /\ settled' = {c \in Criteria : job'[c] = "graded"}
  /\ UNCHANGED <<tree, stamp, touched>>

\* _finish: what this round graded is stamped with the tree as grading left it.
Close ==
  /\ pc' = "idle"
  /\ memo' = [c \in Criteria |-> IF Served(c, stamp)
                                 THEN [memo[c] EXCEPT !.stamp = tree] ELSE memo[c]]
  /\ settled' = {c \in Criteria : job'[c] = "graded"}
  /\ UNCHANGED <<tree, stamp, touched>>

\* Cost control 1: a sunk build is not judged.
StopAtHardFail ==
  /\ pc = "shell" /\ Done(Shell) /\ HardFailed
  /\ job' = [c \in Criteria |-> IF c \in Judge THEN "skipped" ELSE job[c]]
  /\ score' = [c \in Criteria |-> IF c \in Judge THEN 0 ELSE score[c]]
  /\ Close
  /\ UNCHANGED of

\* Mutant: the judges are asked whatever the commands said.
StartJudgesAlways ==
  /\ pc = "shell" /\ Done(Shell)
  /\ pc' = "judge" /\ Begin(Judge, stamp)
  /\ UNCHANGED <<tree, stamp, memo, settled, touched>>

StartJudges ==
  /\ pc = "shell" /\ Done(Shell) /\ ~HardFailed
  /\ pc' = "judge" /\ Begin(Judge, stamp)
  /\ UNCHANGED <<tree, stamp, memo, settled, touched>>

Asked(c) == pc = "judge" /\ job[c] \in {"running", "retrying"}

JudgeAnswers(c) ==
  /\ Asked(c)
  /\ \E points \in 0..Scale : Result(c, of[c], points)
  /\ UNCHANGED <<pc, tree, stamp, settled, touched>>

\* Mutant: a reply that is no verdict is sent back, and the judge asked anew, for ever.
JudgeBabblesOn(c) ==
  /\ Asked(c)
  /\ job' = [job EXCEPT ![c] = IF @ = "running" THEN "retrying" ELSE "running"]
  /\ UNCHANGED <<pc, tree, stamp, of, score, memo, settled, touched>>

\* No verdict in the reply: asked once more, then 0.
JudgeBabbles(c) ==
  /\ Asked(c)
  /\ IF job[c] = "running"
       THEN job' = [job EXCEPT ![c] = "retrying"] /\ UNCHANGED <<of, score, memo>>
       ELSE Result(c, of[c], 0)
  /\ UNCHANGED <<pc, tree, stamp, settled, touched>>

\* The call raises, or there is no judge provider: 0, without a retry, and memoized.
JudgeFails(c) ==
  /\ Asked(c)
  /\ Result(c, of[c], 0)
  /\ UNCHANGED <<pc, tree, stamp, settled, touched>>

FinishRound ==
  /\ pc = "judge" /\ Done(Judge)
  /\ UNCHANGED <<job, of, score>>
  /\ Close

-----------------------------------------------------------------------------
\* A turn of the agent, tools and all, or the user while the model thinks.
AgentWorks ==
  /\ pc = "idle"
  /\ tree' \in Trees
  /\ settled' = IF tree' = tree THEN settled ELSE {}
  /\ UNCHANGED <<pc, round, memo, touched>>

\* The user edits while the build is being graded.
UserEdits ==
  /\ pc # "idle"
  /\ \E code \in Codes \ {tree.code} : tree' = [tree EXCEPT !.code = code]
  /\ touched' = TRUE
  /\ UNCHANGED <<pc, round, memo, settled>>

\* The build ends or dies, and another one begins, with a grader and a memo of its own.
NewBuild ==
  /\ pc' = "idle" /\ stamp' = tree
  /\ job' = [c \in Criteria |-> "waiting"]
  /\ of' = [c \in Criteria |-> tree.code] /\ score' = [c \in Criteria |-> 0]
  /\ memo' = [c \in Criteria |-> Nothing]
  /\ settled' = {} /\ touched' = FALSE
  /\ UNCHANGED tree

RoundStep ==
  \/ \E c \in Shell : ShellEnds(c)
  \/ \E c \in Judge : JudgeAnswers(c) \/ JudgeBabbles(c) \/ JudgeFails(c)
  \/ StopAtHardFail \/ StartJudges \/ FinishRound

Next == StartRound \/ RoundStep \/ AgentWorks \/ UserEdits \/ NewBuild

Spec == Init /\ [][Next]_vars

\* Commands have a time limit, and a provider call returns or raises.
FairSpec == Spec /\ WF_vars(RoundStep)

-----------------------------------------------------------------------------
(***************************************************************************)
(* Properties.                                                             *)
(***************************************************************************)
\* Nobody edited while a round was running: what the memo would serve for the tree as it
\* is was graded on the code as it is, over reverted edits, litter, hard fails and stamps
\* of several rounds ("the memo has to survive that without going blind", test_rubric.py:531).
MemoIsHonest == ~touched => \A c \in Criteria : Served(c, tree) => memo[c].of = tree.code

\* What the last round graded is not run or asked again while the tree is left alone,
\* whatever litter its own commands left (FR-RUB-04).
UnchangedIsFree ==
  [][\A c \in Criteria : job[c] # "running" /\ job'[c] = "running" => c \notin settled]_vars

\* No judge is asked before every command has ended, nor in a sunk round (FR-RUB-03, 08).
ShellBeforeJudge ==
  \A c \in Judge : Asked(c) =>
    /\ Done(Shell)
    /\ \A h \in HardFail \cap Shell : score[h] = Scale

RoundIsOver == pc = "idle" /\ \A c \in Criteria : job[c] # "waiting"

\* A total that reaches the threshold has every hard-fail criterion graded and whole, the
\* judged ones too (FR-RUB-02).  A threshold of 0 is reached by a hard fail.
PassIsWhole ==
  RoundIsOver /\ Threshold > 0 /\ Total >= Threshold * Whole =>
    \A c \in HardFail : job[c] = "graded" /\ score[c] = Scale

\* Every round ends.
RoundsEnd == pc # "idle" ~> pc = "idle"
=============================================================================
