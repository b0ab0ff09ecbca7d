------------------------------ MODULE Pipeline ------------------------------
(***************************************************************************)
(* run_pipeline (src/loom/pipeline.py) and the commands of the CLI that    *)
(* start it: Validate, Plan, Design, Build, a gate after each, one run     *)
(* budget over all of them, artifacts that outlive the process.            *)
(*                                                                         *)
(* A launch is one call of run_pipeline.  It works on one run id, whose    *)
(* artifacts are the variable disk; everything else a launch knows dies    *)
(* with it.  A phase is an opaque sequence of provider calls that ends in  *)
(* an artifact or in a PhaseError; module PhaseExec opens it up.           *)
(* Money is counted in units of an arbitrary fraction of a dollar.         *)
(***************************************************************************)
EXTENDS Integers, FiniteSets

CONSTANTS
  Ceiling,      \* the run budget, budget_usd
  Costs,        \* what one provider call may cost
  MaxCost,      \* an upper bound of Costs
  MaxTurns,     \* provider calls the agent loop of one phase may make
  MaxRepairs,   \* repair calls after the loop of a research phase
  MaxRejects,   \* MAX_REJECTS
  MaxLaunches,  \* bound: processes started over the life of the model
  Commands,     \* which commands the user types
  BuildFailures \* the ways a build fails that the model tells apart

ASSUME MoneyAssumption ==
  /\ Ceiling \in Nat /\ MaxCost \in Nat \ {0}
  /\ Costs \subseteq 0..MaxCost
ASSUME BoundAssumption ==
  /\ MaxTurns \in Nat /\ MaxRepairs \in Nat
  /\ MaxRejects \in Nat /\ MaxLaunches \in Nat
ASSUME CommandAssumption ==
  /\ Commands \subseteq {"run", "resume", "continue", "repl_resume"}
  /\ BuildFailures \subseteq {"budget_exhausted", "stalled", "blocked"}

-----------------------------------------------------------------------------
Validate == 1
Plan     == 2
Design   == 3
Build    == 4
Phases   == 1..4

(***************************************************************************)
(* What the pipeline can tell about an artifact: which version of its file *)
(* it is, which version of the phase before it was made from, and what     *)
(* _after_gate reads in it ("pivot" is treated as "go" by the code).       *)
(***************************************************************************)
BuildStatuses == {"passed"} \cup BuildFailures
Verdicts(p) == IF p = Validate THEN {"go", "no-go"}
               ELSE IF p = Build THEN BuildStatuses
               ELSE {"n/a"}
NoArtifact == [ver |-> 0, from |-> 0, verdict |-> "none"]
Artifact   == [ver : Nat, from : Nat,
               verdict : BuildStatuses \cup {"go", "no-go", "n/a", "none"}]
Fits(a, p) == a.verdict \in Verdicts(p) \cup {"none"}
Present(a) == a.ver # 0
Nothing    == [p \in Phases |-> NoArtifact]

Statuses  == BuildStatuses \cup {"budget_exhausted", "abandoned", "invalid", "no-go"}
LetThrough == {"auto", "approve", "edit"}
Reviews   == LetThrough \cup {"none", "pending", "reject", "abandon"}
Causes    == {"none", "missing_input", "no_idea", "edit_build", "crash"}
Jobs      == [kind : {"none", "run", "resume", "continue", "repl_resume"},
              start : Phases, stop : Phases, idea : BOOLEAN, attended : BOOLEAN]

VARIABLES
  disk,       \* .loom/artifacts/<run-id>: one file per phase
  pc,         \* where the current process is
  job,        \* the command that started it
  phase,      \* the phase run_pipeline's loop is at
  attempt,    \* rejected executions of that phase so far
  calls,      \* provider calls of the current execution
  produced,   \* artifacts this process made
  phasesRun,  \* result.phases_run
  status,     \* result.status
  spent,      \* RunBudget.spent
  warned,     \* RunBudget.warned
  launches,   \* processes started so far
  review,     \* history: this process's last gate decision on each artifact,
              \* for Validate's also that of the process which made it
  cause,      \* history: the exception that ended the process
  warnings    \* history: budget_warning events of this process

control == <<pc, job, phase, attempt, calls, launches, cause>>
outcome == <<produced, phasesRun, status>>
money   == <<spent, warned, warnings>>
files   == <<disk, review>>
vars    == <<control, outcome, money, files>>

Running == pc \in {"begin", "exec", "gate"}

TypeOK ==
  /\ disk \in [Phases -> Artifact]
  /\ pc \in {"idle", "begin", "exec", "gate", "finished", "died"}
  /\ job \in Jobs
  /\ phase \in job.start..job.stop
  /\ attempt \in 0..MaxRejects
  /\ calls \in 0..(MaxTurns + MaxRepairs)
  /\ produced \in [Phases -> Artifact]
  /\ \A p \in Phases : Fits(disk[p], p) /\ Fits(produced[p], p)
  /\ phasesRun \subseteq Phases
  /\ status \in Statuses
  /\ spent \in Nat
  /\ warned \in BOOLEAN
  /\ launches \in 0..MaxLaunches
  /\ review \in [Phases -> Reviews]
  /\ cause \in Causes
  /\ warnings \in Nat

-----------------------------------------------------------------------------
(***************************************************************************)
(* The commands.  Missing is the todo list of resume.                      *)
(***************************************************************************)
Missing == {p \in Phases : ~Present(disk[p])}
FirstMissing == CHOOSE p \in Missing : \A q \in Missing : p <= q

Launch(kind, start, stop, idea) ==
  /\ ~Running
  /\ kind \in Commands
  /\ launches < MaxLaunches
  /\ launches' = launches + 1
  /\ \E attended \in BOOLEAN :
        job' = [kind |-> kind, start |-> start, stop |-> stop,
                idea |-> idea, attended |-> attended]
  /\ pc' = "begin" /\ phase' = start /\ attempt' = 0 /\ calls' = 0
  /\ produced' = Nothing /\ phasesRun' = {} /\ status' = "passed"
  /\ spent' = 0 /\ warned' = FALSE
  /\ cause' = "none" /\ warnings' = 0

\* A process on an existing run.
OnDisk ==
  /\ UNCHANGED disk
  /\ review' = [p \in Phases |-> IF p = Validate THEN review[p] ELSE "none"]

\* loom run "<idea>" [--from] [--to]: always a new run id, so an empty directory.
RunCommand ==
  \E start \in Phases : \E stop \in start..Build :
    /\ Launch("run", start, stop, TRUE)
    /\ disk' = Nothing
    /\ review' = [p \in Phases |-> "none"]

\* loom resume: from the first artifact that is missing; the idea is not kept.
ResumeCommand ==
  /\ launches > 0
  /\ Missing # {}
  /\ Launch("resume", FirstMissing, Build, FALSE)
  /\ OnDisk

\* loom plan, loom design, loom build: one phase of the latest run, again; in the
\* REPL also /validate and /phase, which goes on to the build.  None has an idea.
ContinueCommand ==
  \E p \in Phases : \E stop \in {p, Build} :
    /\ launches > 0
    /\ Launch("continue", p, stop, FALSE)
    /\ OnDisk

\* /resume in the REPL: _resume_start answers "build" when nothing is missing.
ReplResumeCommand ==
  /\ launches > 0
  /\ Launch("repl_resume", IF Missing = {} THEN Build ELSE FirstMissing,
            Build, FALSE)
  /\ OnDisk

-----------------------------------------------------------------------------
(***************************************************************************)
(* The two ways out.  Stop is a return of run_pipeline, with run_finished  *)
(* logged; Die is an exception it does not catch.                          *)
(***************************************************************************)
Stop(s) == pc' = "finished" /\ status' = s /\ UNCHANGED cause
Die(why) == pc' = "died" /\ cause' = why /\ UNCHANGED status

\* _upstream: the artifact of the phase before, from memory or else from disk.
Upstream(p) == IF Present(produced[p - 1]) THEN produced[p - 1] ELSE disk[p - 1]

\* _run_one's budget.check(), once, before the first attempt.
PhaseRefused ==
  /\ pc = "begin"
  /\ spent >= Ceiling
  /\ Stop("budget_exhausted")
  /\ UNCHANGED <<job, phase, attempt, calls, launches, produced, phasesRun,
                 money, files>>

\* ValidatePhase.prepare_input without an idea; load_artifact without a file.
InputMissing ==
  /\ pc = "begin"
  /\ spent < Ceiling
  /\ IF phase = Validate
       THEN ~job.idea /\ Die("no_idea")
       ELSE ~Present(Upstream(phase)) /\ Die("missing_input")
  /\ UNCHANGED <<job, phase, attempt, calls, launches, produced, phasesRun,
                 money, files>>

EnterPhase ==
  /\ pc = "begin"
  /\ spent < Ceiling
  /\ IF phase = Validate THEN job.idea ELSE Present(Upstream(phase))
  /\ pc' = "exec" /\ attempt' = 0 /\ calls' = 0
  /\ UNCHANGED <<job, phase, launches, cause, outcome, money, files>>

-----------------------------------------------------------------------------
(***************************************************************************)
(* One execution of the current phase.                                     *)
(***************************************************************************)
CallLimit == IF phase = Build THEN MaxTurns ELSE MaxTurns + MaxRepairs

\* WARN_AT = 0.80 of the ceiling, in whole units.
ReachesWarning(usd) == 5 * usd >= 4 * Ceiling

\* Mutant: the guard adds what a call cost and never looks at the ceiling.
ProviderCallUnchecked ==
  /\ pc = "exec" /\ calls < CallLimit
  /\ calls' = calls + 1
  /\ \E usd \in Costs :
       /\ spent' = spent + usd
       /\ warned' = (warned \/ ReachesWarning(spent + usd))
       /\ warnings' = IF warned' /\ ~warned THEN 1 ELSE warnings
  /\ UNCHANGED <<pc, job, phase, attempt, launches, cause, outcome, files>>

\* Mutant: the warning is not remembered once it has been given.
ProviderCallForgetsWarning ==
  /\ pc = "exec" /\ calls < CallLimit /\ spent < Ceiling
  /\ calls' = calls + 1
  /\ \E usd \in Costs :
       /\ spent' = spent + usd
       /\ warnings' = warnings + (IF ReachesWarning(spent + usd) THEN 1 ELSE 0)
  /\ UNCHANGED <<pc, job, phase, attempt, launches, cause, outcome, files, warned>>

\* BudgetGuard.complete: check, call, add.
ProviderCall ==
  /\ pc = "exec"
  /\ calls < CallLimit
  /\ spent < Ceiling
  /\ calls' = calls + 1
  /\ \E usd \in Costs :
       /\ spent' = spent + usd
       /\ IF ~warned /\ ReachesWarning(spent + usd)
            THEN warned' = TRUE /\ warnings' = warnings + 1
            ELSE UNCHANGED <<warned, warnings>>
  /\ UNCHANGED <<pc, job, phase, attempt, launches, cause, outcome, files>>

(***************************************************************************)
(* BudgetExceeded out of a call.  A research phase is handed               *)
(* max_usd = min(config.max_usd, remaining), so its loop stops by itself   *)
(* when the wallet is empty and only a repair can hit the guard.           *)
(***************************************************************************)
CallRefused ==
  /\ pc = "exec"
  /\ calls < CallLimit
  /\ spent >= Ceiling
  /\ phase = Build \/ calls > 0
  /\ Stop("budget_exhausted")
  /\ UNCHANGED <<job, phase, attempt, calls, launches, produced, phasesRun,
                 money, files>>

\* PhaseError: MAX_ATTEMPTS unusable replies, or no money for a repair.
PhaseFails ==
  /\ pc = "exec"
  /\ phase # Build
  /\ Stop("invalid")
  /\ UNCHANGED <<job, phase, attempt, calls, launches, produced, phasesRun,
                 money, files>>

\* Phase.execute returns, from the cache when calls = 0: on disk, then stored.
ProduceArtifact ==
  /\ pc = "exec"
  /\ phase # Build
  /\ \E v \in Verdicts(phase) :
       LET made == [ver  |-> disk[phase].ver + 1,
                    from |-> IF phase = Validate THEN 0
                             ELSE Upstream(phase).ver,
                    verdict |-> v]
       IN  /\ disk' = [disk EXCEPT ![phase] = made]
           /\ produced' = [produced EXCEPT ![phase] = made]
  /\ review' = [review EXCEPT ![phase] = "pending"]
  /\ pc' = "gate"
  /\ UNCHANGED <<job, phase, attempt, calls, launches, cause, phasesRun,
                 status, money>>

\* run_build returns.  score.json is written only if a round was graded.
ProduceBuild ==
  /\ pc = "exec"
  /\ phase = Build
  /\ \E s \in BuildStatuses, graded \in BOOLEAN :
       LET made == [ver |-> disk[Build].ver + 1,
                    from |-> Upstream(Build).ver, verdict |-> s]
       IN  /\ s = "passed" => graded
           /\ graded => calls > 0
           /\ produced' = [produced EXCEPT ![Build] = made]
           /\ disk' = IF graded THEN [disk EXCEPT ![Build] = made] ELSE disk
  /\ review' = [review EXCEPT ![Build] = "pending"]
  /\ pc' = "gate"
  /\ UNCHANGED <<job, phase, attempt, calls, launches, cause, phasesRun,
                 status, money>>

-----------------------------------------------------------------------------
(***************************************************************************)
(* The gate and what follows it.                                           *)
(***************************************************************************)
\* Mutant: what the build came to is not looked at.
AfterGateTrustsBuild(a) ==
  IF phase = Validate /\ a.verdict = "no-go" THEN "no-go" ELSE "none"

\* _after_gate: the status that ends the run, "none" to carry on.
AfterGate(a) ==
  IF phase = Validate /\ a.verdict = "no-go" THEN "no-go"
  ELSE IF phase = Build /\ a.verdict # "passed" THEN a.verdict
  ELSE "none"

\* The loop of run_pipeline once _run_one has returned.
Leave(s) ==
  /\ phasesRun' = phasesRun \cup {phase}
  /\ IF s # "none" THEN Stop(s) /\ UNCHANGED phase
     ELSE IF phase = job.stop THEN Stop("passed") /\ UNCHANGED phase
     ELSE pc' = "begin" /\ phase' = phase + 1 /\ UNCHANGED <<status, cause>>

Decide(d) == review' = [review EXCEPT ![phase] = d]

GateApprove ==
  /\ pc = "gate"
  /\ Decide(IF job.attended THEN "approve" ELSE "auto")
  /\ Leave(AfterGate(produced[phase]))
  /\ UNCHANGED <<job, attempt, calls, launches, produced, disk, money>>

GateAbandon ==
  /\ pc = "gate"
  /\ job.attended
  /\ Decide("abandon")
  /\ Leave("abandoned")
  /\ UNCHANGED <<job, attempt, calls, launches, produced, disk, money>>

\* Mutant: a rejection on the last attempt lets the artifact through.
GateRejectFallsThrough ==
  /\ pc = "gate" /\ job.attended
  /\ Decide("reject")
  /\ IF attempt = MaxRejects
       THEN Leave("none") /\ UNCHANGED <<attempt, calls>>
       ELSE /\ pc' = "exec" /\ attempt' = attempt + 1 /\ calls' = 0
            /\ UNCHANGED <<phase, phasesRun, status, cause>>
  /\ UNCHANGED <<job, launches, produced, disk, money>>

\* Mutant: rejections are not counted.
GateRejectUncounted ==
  /\ pc = "gate" /\ job.attended
  /\ Decide("reject")
  /\ pc' = "exec" /\ calls' = 0
  /\ UNCHANGED <<job, phase, attempt, launches, cause, outcome, disk, money>>

GateReject ==
  /\ pc = "gate"
  /\ job.attended
  /\ Decide("reject")
  /\ IF attempt = MaxRejects
       THEN Leave("abandoned") /\ UNCHANGED <<attempt, calls>>
       ELSE /\ pc' = "exec" /\ attempt' = attempt + 1 /\ calls' = 0
            /\ UNCHANGED <<phase, phasesRun, status, cause>>
  /\ UNCHANGED <<job, launches, produced, disk, money>>

\* Mutant: the edit reaches the result and not the file.
GateEditInMemory ==
  /\ pc = "gate" /\ job.attended /\ phase # Build
  /\ Decide("edit")
  /\ \E v \in Verdicts(phase) :
       LET edited == [ver |-> produced[phase].ver + 1,
                      from |-> produced[phase].from, verdict |-> v]
       IN  produced' = [produced EXCEPT ![phase] = edited] /\ Leave(AfterGate(edited))
  /\ UNCHANGED <<job, attempt, calls, launches, disk, money>>

\* The reviewer's version is stored and written, and the phase does not re-run.
GateEdit ==
  /\ pc = "gate"
  /\ job.attended
  /\ phase # Build
  /\ Decide("edit")
  /\ \E v \in Verdicts(phase) :
       LET edited == [ver |-> produced[phase].ver + 1,
                      from |-> produced[phase].from, verdict |-> v]
       IN  /\ disk' = [disk EXCEPT ![phase] = edited]
           /\ produced' = [produced EXCEPT ![phase] = edited]
           /\ Leave(AfterGate(edited))
  /\ UNCHANGED <<job, attempt, calls, launches, money>>

\* _store has no result field for "build": the file is written, then KeyError.
GateEditBuild ==
  /\ pc = "gate"
  /\ job.attended
  /\ phase = Build
  /\ Decide("edit")
  /\ LET edited == [produced[Build] EXCEPT !.ver = @ + 1]
     IN  /\ disk' = [disk EXCEPT ![Build] = edited]
         /\ produced' = [produced EXCEPT ![Build] = edited]
  /\ Die("edit_build")
  /\ UNCHANGED <<job, phase, attempt, calls, launches, phasesRun, money>>

\* Ctrl-C, a kill, a ProviderError, a DirtyWorkspace: nothing volatile survives.
Crash ==
  /\ Running
  /\ Die("crash")
  /\ UNCHANGED <<job, phase, attempt, calls, launches, produced, phasesRun,
                 money, files>>

-----------------------------------------------------------------------------
Init ==
  /\ disk = Nothing /\ review = [p \in Phases |-> "none"]
  /\ pc = "idle" /\ phase = Validate /\ attempt = 0 /\ calls = 0
  /\ job = [kind |-> "none", start |-> Validate, stop |-> Build,
            idea |-> FALSE, attended |-> FALSE]
  /\ produced = Nothing /\ phasesRun = {} /\ status = "passed"
  /\ spent = 0 /\ warned = FALSE /\ warnings = 0
  /\ launches = 0 /\ cause = "none"

UserStep == RunCommand \/ ResumeCommand \/ ContinueCommand \/ ReplResumeCommand
ProcessStep ==
  \/ PhaseRefused \/ InputMissing \/ EnterPhase
  \/ ProviderCall \/ CallRefused \/ PhaseFails
  \/ ProduceArtifact \/ ProduceBuild
  \/ GateApprove \/ GateAbandon \/ GateReject \/ GateEdit \/ GateEditBuild
Next == UserStep \/ ProcessStep \/ Crash

Spec == Init /\ [][Next]_vars

\* asyncio keeps running the process and the reviewer answers the gate.
FairSpec == Spec /\ WF_vars(ProcessStep)
-----------------------------------------------------------------------------
(***************************************************************************)
(* Safety.                                                                 *)
(***************************************************************************)
\* No phase works from an artifact this process's reviewer has not let through,
\* and what it works from is exactly what lies on disk (_run_one, _store: an edit
\* replaces both, a rejection re-runs before anything downstream starts).
GatedChain ==
  pc \in {"exec", "gate"} =>
    \A p \in job.start..(phase - 1) :
      review[p] \in LetThrough /\ Present(disk[p]) /\ produced[p] = disk[p]

\* The files of a run are one chain when each artifact was made from the version of
\* its upstream that lies next to it.
ChainOnDisk ==
  \A p \in Phases \ {Validate} :
    Present(disk[p]) => disk[p].from = disk[p - 1].ver

\* `loom plan`, `loom design`, and in the REPL /plan, /design and a /phase (or the offer
\* it makes) that starts at one of the two: they re-make a file with those made from the
\* old one behind it.
Replaces == job.kind = "continue" /\ job.start \in {Plan, Design}

\* No process breaks the chain, over edits, rejections, crashes and resumes (_upstream,
\* _store), except the commands of Replaces, which leave it broken until each file behind
\* has been made again, or for good when they stop or die before.
ChainKept ==
  [][ChainOnDisk /\ ~Replaces' => ChainOnDisk']_vars

\* A run that reports "passed" had every phase it was asked for let through, did
\* not go past a no-go, and built something that passed its rubric (_after_gate).
PassedMeansWhole ==
  pc = "finished" /\ status = "passed" =>
    /\ phasesRun = job.start..job.stop
    /\ \A p \in phasesRun : review[p] \in LetThrough /\ Present(disk[p])
    /\ Validate \in phasesRun => produced[Validate].verdict = "go"
    /\ Build \in phasesRun => produced[Build].verdict = "passed"

\* The ceiling holds over all phases and all attempts of a process, up to the one
\* call that crosses it (BudgetGuard.complete checks before, adds after).
BudgetBound == spent < Ceiling + MaxCost

\* The 80 % warning is given once, as soon as it is due, and not otherwise; in
\* particular before any stop for an empty wallet (RunBudget.add).
WarnedOnce ==
  warnings = IF Ceiling > 0 /\ ReachesWarning(spent) THEN 1 ELSE 0

(***************************************************************************)
(* Liveness: neither a rejecting reviewer nor a failing model keeps a      *)
(* process going for ever.                                                 *)
(***************************************************************************)
EveryLaunchEnds == (pc = "begin") ~> (pc \in {"finished", "died"})

(***************************************************************************)
(* What docs and comments say, and the code does not do (see README).      *)
(***************************************************************************)
\* SRS FR-VAL-04: a no-go "MUST NOT silently proceed to Plan".
NoGoNeverSilentlyPlanned ==
  pc = "exec" /\ phase = Plan /\ disk[Validate].verdict = "no-go" =>
    review[Validate] \in {"approve", "edit"}

\* cli.py:612 "interrupted - the run is on disk and resumable with `loom resume`".
InterruptedIsResumable == ~(cause = "no_idea" /\ job.kind = "resume")

=============================================================================
