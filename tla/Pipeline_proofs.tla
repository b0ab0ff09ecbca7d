-------------------------- MODULE Pipeline_proofs --------------------------
(***************************************************************************)
(* Proofs about Pipeline, for every budget, every price of a call, every   *)
(* number of turns, rejections and launches.                               *)
(***************************************************************************)
EXTENDS Pipeline, TLAPS

LEMMA PhaseFacts ==
  /\ Phases = {1, 2, 3, 4}
  /\ \A p \in Phases : p # Validate => p - 1 \in Phases
  /\ \A p \in Phases : p # Build => p + 1 \in Phases
BY DEF Phases, Validate, Build

LEMMA NothingIsTyped ==
  /\ Nothing \in [Phases -> Artifact]
  /\ \A p \in Phases : Nothing[p] = NoArtifact /\ Fits(Nothing[p], p)
BY DEF Nothing, NoArtifact, Artifact, Fits

LEMMA VerdictsAreTyped ==
  ASSUME NEW p \in Phases
  PROVE  Verdicts(p) \subseteq BuildStatuses \cup {"go", "no-go", "n/a", "none"}
BY DEF Verdicts, Phases, Validate, Build

\* Whatever AfterGate answers is "none", or a status other than "passed".
LEMMA AfterGateStops ==
  ASSUME phase \in Phases, NEW a \in Artifact, Fits(a, phase),
         AfterGate(a) # "none"
  PROVE  AfterGate(a) \in Statuses \ {"passed"}
<1>1. CASE phase = Validate
  BY <1>1 DEF AfterGate, Statuses, Validate, Build
<1>2. CASE phase = Build
  <2>1. a.verdict # "passed" /\ AfterGate(a) = a.verdict
    BY <1>2 DEF AfterGate, Validate, Build
  <2>2. a.verdict \in BuildStatuses
    BY <1>2, <2>1 DEF Fits, Verdicts, Validate, Build
  <2> QED BY <2>1, <2>2 DEF Statuses
<1>3. CASE phase # Validate /\ phase # Build
  BY <1>3 DEF AfterGate
<1> QED BY <1>1, <1>2, <1>3

LEMMA InitTyped == Init => TypeOK
<1> SUFFICES ASSUME Init PROVE TypeOK
  OBVIOUS
<1>1. disk \in [Phases -> Artifact] /\ produced \in [Phases -> Artifact]
  BY NothingIsTyped DEF Init
<1>2. \A p \in Phases : Fits(disk[p], p) /\ Fits(produced[p], p)
  BY NothingIsTyped DEF Init
<1>3. job \in Jobs /\ phase \in job.start..job.stop
  BY DEF Init, Jobs, Phases, Validate, Build
<1>4. attempt \in 0..MaxRejects /\ calls \in 0..(MaxTurns + MaxRepairs)
      /\ launches \in 0..MaxLaunches
  BY BoundAssumption DEF Init
<1>5. review \in [Phases -> Reviews]
  BY DEF Init, Reviews
<1>6. phasesRun \subseteq Phases /\ status \in Statuses /\ cause \in Causes
  BY DEF Init, Statuses, BuildStatuses, Causes
<1> QED BY <1>1, <1>2, <1>3, <1>4, <1>5, <1>6 DEF Init, TypeOK

\* What every command sets up.
LEMMA LaunchTyped ==
  ASSUME TypeOK, NEW k, NEW start \in Phases, NEW stop \in Phases,
         start <= stop, NEW idea \in BOOLEAN, Launch(k, start, stop, idea)
  PROVE  /\ pc' = "begin" /\ phase' = start /\ job' \in Jobs
         /\ job'.start = start /\ job'.stop = stop
         /\ phase' \in job'.start..job'.stop
         /\ attempt' \in 0..MaxRejects /\ calls' \in 0..(MaxTurns + MaxRepairs)
         /\ produced' = Nothing /\ phasesRun' = {} /\ status' = "passed"
         /\ spent' = 0 /\ warned' = FALSE /\ warnings' = 0
         /\ launches' \in 0..MaxLaunches /\ cause' = "none"
<1>1. k \in {"run", "resume", "continue", "repl_resume"}
  BY CommandAssumption DEF Launch
<1>2. job' \in Jobs /\ job'.start = start /\ job'.stop = stop
  BY <1>1 DEF Launch, Jobs
<1>3. launches' \in 0..MaxLaunches
  BY BoundAssumption DEF Launch, TypeOK
<1>4. 0 \in 0..MaxRejects /\ 0 \in 0..(MaxTurns + MaxRepairs)
  BY BoundAssumption
<1>5. start \in start..stop
  BY PhaseFacts
<1> QED BY <1>2, <1>3, <1>4, <1>5 DEF Launch

LEMMA MissingPhase ==
  ASSUME Missing # {}
  PROVE  FirstMissing \in Missing /\ FirstMissing \in Phases
<1>1. \E p \in Missing : \A q \in Missing : p <= q
  <2>1. PICK p \in Missing : TRUE
    OBVIOUS
  <2>2. Missing \subseteq {1, 2, 3, 4}
    BY PhaseFacts DEF Missing
  <2> QED BY <2>1, <2>2
<1> QED BY <1>1 DEF FirstMissing, Missing

\* A command leaves a typed state: it starts a process and touches at most the
\* artifacts, which it keeps or empties.
LEMMA UserStepTyped ==
  ASSUME TypeOK, UserStep
  PROVE  TypeOK'
<1> DEFINE Rest == /\ disk' \in [Phases -> Artifact]
                   /\ \A p \in Phases : Fits(disk'[p], p)
                   /\ review' \in [Phases -> Reviews]
<1>1. ASSUME NEW k, NEW start \in Phases, NEW stop \in Phases,
             start <= stop, NEW idea \in BOOLEAN, Launch(k, start, stop, idea), Rest
      PROVE  TypeOK'
  <2>1. /\ pc' = "begin" /\ phase' \in job'.start..job'.stop /\ job' \in Jobs
        /\ attempt' \in 0..MaxRejects /\ calls' \in 0..(MaxTurns + MaxRepairs)
        /\ produced' = Nothing /\ phasesRun' = {} /\ status' = "passed"
        /\ spent' = 0 /\ warned' = FALSE /\ warnings' = 0
        /\ launches' \in 0..MaxLaunches /\ cause' = "none"
    BY <1>1, LaunchTyped
  <2>2. /\ produced' \in [Phases -> Artifact]
        /\ \A p \in Phases : Fits(produced'[p], p)
    BY <2>1, NothingIsTyped
  <2>3. status' \in Statuses /\ cause' \in Causes
    BY <2>1 DEF Statuses, BuildStatuses, Causes
  <2>4. \A p \in Phases : Fits(disk[p], p)' /\ Fits(produced[p], p)'
    BY <1>1, <2>2 DEF Fits
  <2>5. pc' \in {"idle", "begin", "exec", "gate", "finished", "died"}
        /\ phasesRun' \subseteq Phases /\ spent' \in Nat /\ warnings' \in Nat
        /\ warned' \in BOOLEAN
    BY <2>1
  <2> QED BY <1>1, <2>1, <2>2, <2>3, <2>4, <2>5 DEF TypeOK
<1>2. OnDisk => Rest
  BY DEF TypeOK, OnDisk, Reviews
<1>3. CASE RunCommand
  <2>1. Rest
    BY <1>3, NothingIsTyped DEF RunCommand, Reviews
  <2>2. PICK start \in Phases : \E stop \in start..Build :
          Launch("run", start, stop, TRUE)
    BY <1>3 DEF RunCommand
  <2>3. PICK stop \in start..Build : Launch("run", start, stop, TRUE)
    BY <2>2
  <2>4. stop \in Phases /\ start <= stop
    BY <2>3 DEF Phases, Build
  <2> QED BY <1>1, <2>1, <2>3, <2>4
<1>4. Build \in Phases /\ \A p \in Phases : p <= p /\ p <= Build
  BY DEF Build, Phases
<1>5. CASE ResumeCommand
  BY <1>1, <1>2, <1>4, <1>5, MissingPhase DEF ResumeCommand
<1>6. CASE ContinueCommand
  <2>0. PICK p \in Phases : \E stop \in {p, Build} : Launch("continue", p, stop, FALSE)
    BY <1>6 DEF ContinueCommand
  <2>1. PICK stop \in {p, Build} : Launch("continue", p, stop, FALSE)
    BY <2>0
  <2>2. stop \in Phases /\ p <= stop
    BY DEF Phases, Build
  <2> QED BY <1>1, <1>2, <1>4, <1>6, <2>1, <2>2 DEF ContinueCommand
<1>7. CASE ReplResumeCommand
  BY <1>1, <1>2, <1>4, <1>7, MissingPhase DEF ReplResumeCommand
<1> QED BY <1>3, <1>5, <1>6, <1>7 DEF UserStep

\* The answers of the gate that end an execution leave the report typed.
LEMMA LeaveTyped ==
  ASSUME TypeOK, NEW s \in Statuses \cup {"none"}, Leave(s)
  PROVE  /\ phasesRun' \subseteq Phases /\ phase' \in job.start..job.stop
         /\ status' \in Statuses /\ cause' \in Causes
         /\ pc' \in {"finished", "begin"}
<1>1. phase \in Phases /\ phase \in job.start..job.stop
      /\ job.start \in Phases /\ job.stop \in Phases
  BY PhaseFacts DEF TypeOK, Jobs
<1>. phasesRun' \subseteq Phases
  BY <1>1 DEF Leave, TypeOK
<1>2. CASE s # "none"
  BY <1>1, <1>2 DEF Leave, Stop, TypeOK
<1>3. CASE s = "none" /\ phase = job.stop
  BY <1>1, <1>3 DEF Leave, Stop, TypeOK, Statuses, BuildStatuses
<1>4. CASE s = "none" /\ phase # job.stop
  <2>1. phase + 1 \in job.start..job.stop
    BY <1>1, <1>4, PhaseFacts
  <2> QED BY <1>1, <1>4, <2>1 DEF Leave, TypeOK
<1> QED BY <1>2, <1>3, <1>4

LEMMA UpstreamTyped ==
  ASSUME TypeOK, NEW p \in Phases, p # Validate
  PROVE  Upstream(p) \in Artifact
BY PhaseFacts DEF TypeOK, Upstream

\* Replacing one phase's artifact by a fitting one keeps a table typed.
LEMMA PutTyped ==
  ASSUME NEW t \in [Phases -> Artifact], \A p \in Phases : Fits(t[p], p),
         NEW q \in Phases, NEW a \in Artifact, Fits(a, q)
  PROVE  /\ [t EXCEPT ![q] = a] \in [Phases -> Artifact]
         /\ \A p \in Phases : Fits([t EXCEPT ![q] = a][p], p)
<1>1. \A p \in Phases : [t EXCEPT ![q] = a][p] = IF p = q THEN a ELSE t[p]
  OBVIOUS
<1> QED BY <1>1

LEMMA ProcessStepTyped ==
  ASSUME TypeOK, ProcessStep
  PROVE  TypeOK'
<1>0. /\ phase \in Phases
      /\ phase \in job.start..job.stop
      /\ disk \in [Phases -> Artifact] /\ produced \in [Phases -> Artifact]
      /\ \A p \in Phases : Fits(disk[p], p) /\ Fits(produced[p], p)
      /\ review \in [Phases -> Reviews]
  BY PhaseFacts DEF TypeOK, Jobs
<1>1. CASE PhaseRefused
  BY <1>1 DEF PhaseRefused, Stop, TypeOK, Statuses, Fits, money, files
<1>2. CASE InputMissing
  BY <1>2 DEF InputMissing, Die, TypeOK, Causes, Fits, money, files
<1>3. CASE EnterPhase
  BY <1>3, BoundAssumption DEF EnterPhase, TypeOK, Fits, outcome, money, files
<1>4. CASE ProviderCall
  <2>1. calls' \in 0..(MaxTurns + MaxRepairs)
    BY <1>4, BoundAssumption DEF ProviderCall, CallLimit, TypeOK
  <2>2. /\ spent' \in Nat
        /\ warned' \in BOOLEAN /\ warnings' \in Nat
    <3>1. PICK usd \in Costs :
            /\ spent' = spent + usd
            /\ IF ~warned /\ ReachesWarning(spent + usd)
                 THEN warned' = TRUE /\ warnings' = warnings + 1
                 ELSE UNCHANGED <<warned, warnings>>
      BY <1>4 DEF ProviderCall
    <3>2. usd \in Nat
      BY MoneyAssumption
    <3>3. spent' \in Nat /\ warnings' \in Nat
      BY <3>1, <3>2 DEF TypeOK
    <3>4. warned' = TRUE \/ warned' = warned
      BY <3>1, Zenon
    <3> QED BY <3>3, <3>4 DEF TypeOK
  <2> QED BY <1>4, <2>1, <2>2 DEF ProviderCall, TypeOK, Fits, outcome, files
<1>5. CASE CallRefused
  BY <1>5 DEF CallRefused, Stop, TypeOK, Statuses, Fits, money, files
<1>6. CASE PhaseFails
  BY <1>6 DEF PhaseFails, Stop, TypeOK, Statuses, Fits, money, files
<1>7. CASE ProduceArtifact
  <2>1. PICK v \in Verdicts(phase) :
          LET made == [ver  |-> disk[phase].ver + 1,
                       from |-> IF phase = Validate THEN 0
                                ELSE Upstream(phase).ver,
                       verdict |-> v]
          IN  /\ disk' = [disk EXCEPT ![phase] = made]
              /\ produced' = [produced EXCEPT ![phase] = made]
    BY <1>7 DEF ProduceArtifact
  <2> DEFINE made == [ver  |-> disk[phase].ver + 1,
                      from |-> IF phase = Validate THEN 0
                               ELSE Upstream(phase).ver,
                      verdict |-> v]
  <2>2. made \in Artifact /\ Fits(made, phase)
    <3>1. disk[phase].ver + 1 \in Nat
      BY <1>0 DEF Artifact
    <3>2. (IF phase = Validate THEN 0 ELSE Upstream(phase).ver) \in Nat
      BY <1>0, UpstreamTyped DEF Artifact
    <3>3. v \in BuildStatuses \cup {"go", "no-go", "n/a", "none"}
      BY <1>0, VerdictsAreTyped
    <3> QED BY <3>1, <3>2, <3>3 DEF Artifact, Fits
  <2> HIDE DEF made
  <2>3. disk' = [disk EXCEPT ![phase] = made]
        /\ produced' = [produced EXCEPT ![phase] = made]
    BY <2>1 DEF made
  <2>4. /\ disk' \in [Phases -> Artifact] /\ produced' \in [Phases -> Artifact]
        /\ \A p \in Phases : Fits(disk'[p], p) /\ Fits(produced'[p], p)
    BY <1>0, <2>2, <2>3, PutTyped
  <2>5. review' \in [Phases -> Reviews]
    BY <1>0, <1>7 DEF ProduceArtifact, Reviews
  <2> QED BY <1>7, <2>4, <2>5 DEF ProduceArtifact, TypeOK, Fits, money
<1>8. CASE ProduceBuild
  <2>1. PICK s \in BuildStatuses, graded \in BOOLEAN :
          LET made == [ver |-> disk[Build].ver + 1,
                       from |-> Upstream(Build).ver, verdict |-> s]
          IN  /\ produced' = [produced EXCEPT ![Build] = made]
              /\ disk' = IF graded THEN [disk EXCEPT ![Build] = made] ELSE disk
    BY <1>8 DEF ProduceBuild
  <2> DEFINE made == [ver |-> disk[Build].ver + 1,
                      from |-> Upstream(Build).ver, verdict |-> s]
  <2>0. Build \in Phases /\ Build # Validate
    BY DEF Build, Phases, Validate
  <2>2. made \in Artifact /\ Fits(made, Build)
    <3>1. disk[Build].ver + 1 \in Nat
      BY <1>0, <2>0 DEF Artifact
    <3>2. Upstream(Build).ver \in Nat
      BY <2>0, UpstreamTyped DEF Artifact
    <3> QED BY <2>0, <3>1, <3>2 DEF Artifact, Fits, Verdicts
  <2> HIDE DEF made
  <2>3. produced' = [produced EXCEPT ![Build] = made]
        /\ (disk' = [disk EXCEPT ![Build] = made] \/ disk' = disk)
    BY <2>1 DEF made
  <2>4. /\ disk' \in [Phases -> Artifact] /\ produced' \in [Phases -> Artifact]
        /\ \A p \in Phases : Fits(disk'[p], p) /\ Fits(produced'[p], p)
    BY <1>0, <2>0, <2>2, <2>3, PutTyped
  <2>5. review' \in [Phases -> Reviews]
    BY <1>0, <1>8 DEF ProduceBuild, Reviews
  <2> QED BY <1>8, <2>4, <2>5 DEF ProduceBuild, TypeOK, Fits, money
<1>9. ASSUME NEW d \in Reviews, Decide(d)
      PROVE  review' \in [Phases -> Reviews]
  BY <1>0, <1>9 DEF Decide
<1>10. CASE GateApprove
  <2>1. AfterGate(produced[phase]) \in Statuses \cup {"none"}
    BY <1>0, AfterGateStops
  <2>2. /\ phasesRun' \subseteq Phases /\ phase' \in job.start..job.stop
        /\ status' \in Statuses /\ cause' \in Causes
        /\ pc' \in {"finished", "begin"}
    BY <1>10, <2>1, LeaveTyped DEF GateApprove
  <2>3. review' \in [Phases -> Reviews]
    BY <1>9, <1>10 DEF GateApprove, Reviews, LetThrough
  <2> QED BY <1>10, <2>2, <2>3 DEF GateApprove, TypeOK, Fits, money
<1>11. CASE GateAbandon
  <2>1. "abandoned" \in Statuses
    BY DEF Statuses
  <2>2. /\ phasesRun' \subseteq Phases /\ phase' \in job.start..job.stop
        /\ status' \in Statuses /\ cause' \in Causes
        /\ pc' \in {"finished", "begin"}
    BY <1>11, <2>1, LeaveTyped DEF GateAbandon
  <2>3. review' \in [Phases -> Reviews]
    BY <1>9, <1>11 DEF GateAbandon, Reviews
  <2> QED BY <1>11, <2>2, <2>3 DEF GateAbandon, TypeOK, Fits, money
<1>12. CASE GateReject
  <2>1. "abandoned" \in Statuses
    BY DEF Statuses
  <2>2. review' \in [Phases -> Reviews]
    BY <1>9, <1>12 DEF GateReject, Reviews
  <2>3. CASE attempt = MaxRejects
    <3>1. /\ phasesRun' \subseteq Phases /\ phase' \in job.start..job.stop
          /\ status' \in Statuses /\ cause' \in Causes
          /\ pc' \in {"finished", "begin"}
      BY <1>12, <2>1, <2>3, LeaveTyped DEF GateReject
    <3> QED BY <1>12, <2>2, <2>3, <3>1 DEF GateReject, TypeOK, Fits, money
  <2>4. CASE attempt # MaxRejects
    <3>1. attempt' \in 0..MaxRejects /\ calls' \in 0..(MaxTurns + MaxRepairs)
      BY <1>12, <2>4, BoundAssumption DEF GateReject, TypeOK
    <3> QED BY <1>12, <2>2, <2>4, <3>1 DEF GateReject, TypeOK, Fits, money
  <2> QED BY <2>3, <2>4
<1>13. CASE GateEdit
  <2>1. PICK v \in Verdicts(phase) :
          LET edited == [ver |-> produced[phase].ver + 1,
                         from |-> produced[phase].from, verdict |-> v]
          IN  /\ disk' = [disk EXCEPT ![phase] = edited]
              /\ produced' = [produced EXCEPT ![phase] = edited]
              /\ Leave(AfterGate(edited))
    BY <1>13 DEF GateEdit
  <2> DEFINE edited == [ver |-> produced[phase].ver + 1,
                        from |-> produced[phase].from, verdict |-> v]
  <2>2. edited \in Artifact /\ Fits(edited, phase)
    <3>1. produced[phase] \in Artifact
      BY <1>0
    <3>2. v \in BuildStatuses \cup {"go", "no-go", "n/a", "none"}
      BY <1>0, VerdictsAreTyped
    <3> QED BY <3>1, <3>2 DEF Artifact, Fits
  <2> HIDE DEF edited
  <2>3. disk' = [disk EXCEPT ![phase] = edited]
        /\ produced' = [produced EXCEPT ![phase] = edited]
        /\ Leave(AfterGate(edited))
    BY <2>1 DEF edited
  <2>4. /\ disk' \in [Phases -> Artifact] /\ produced' \in [Phases -> Artifact]
        /\ \A p \in Phases : Fits(disk'[p], p) /\ Fits(produced'[p], p)
    BY <1>0, <2>2, <2>3, PutTyped
  <2>5. AfterGate(edited) \in Statuses \cup {"none"}
    BY <1>0, <2>2, AfterGateStops
  <2>6. /\ phasesRun' \subseteq Phases /\ phase' \in job.start..job.stop
        /\ status' \in Statuses /\ cause' \in Causes
        /\ pc' \in {"finished", "begin"}
    BY <2>3, <2>5, LeaveTyped
  <2>7. review' \in [Phases -> Reviews]
    BY <1>9, <1>13 DEF GateEdit, Reviews, LetThrough
  <2> QED BY <1>13, <2>4, <2>6, <2>7 DEF GateEdit, TypeOK, Fits, money
<1>14. CASE GateEditBuild
  <2> DEFINE edited == [produced[Build] EXCEPT !.ver = @ + 1]
  <2>0. Build \in Phases
    BY DEF Build, Phases
  <2>1. produced[Build] \in Artifact /\ Fits(produced[Build], Build)
    BY <1>0, <2>0
  <2>2. edited \in Artifact /\ Fits(edited, Build)
    BY <2>1 DEF Artifact, Fits
  <2>3. disk' = [disk EXCEPT ![Build] = edited]
        /\ produced' = [produced EXCEPT ![Build] = edited]
    BY <1>14 DEF GateEditBuild
  <2> HIDE DEF edited
  <2>4. /\ disk' \in [Phases -> Artifact] /\ produced' \in [Phases -> Artifact]
        /\ \A p \in Phases : Fits(disk'[p], p) /\ Fits(produced'[p], p)
    BY <1>0, <2>0, <2>2, <2>3, PutTyped
  <2>5. review' \in [Phases -> Reviews]
    BY <1>9, <1>14 DEF GateEditBuild, Reviews, LetThrough
  <2> QED BY <1>14, <2>4, <2>5 DEF GateEditBuild, Die, TypeOK, Fits, Causes, money
<1> QED BY <1>1, <1>2, <1>3, <1>4, <1>5, <1>6, <1>7, <1>8, <1>10, <1>11,
           <1>12, <1>13, <1>14 DEF ProcessStep

\* Type correctness of the pipeline.
THEOREM TypeCorrect == Spec => []TypeOK
<1>1. TypeOK /\ [Next]_vars => TypeOK'
  <2> SUFFICES ASSUME TypeOK, [Next]_vars PROVE TypeOK'
    OBVIOUS
  <2>1. CASE UserStep
    BY <2>1, UserStepTyped
  <2>2. CASE ProcessStep
    BY <2>2, ProcessStepTyped
  <2>3. CASE Crash
    BY <2>3 DEF Crash, Die, TypeOK, Causes, Fits, money, files
  <2>4. CASE UNCHANGED vars
    BY <2>4 DEF vars, control, outcome, money, files, TypeOK, Fits
  <2> QED BY <2>1, <2>2, <2>3, <2>4 DEF Next
<1> QED BY <1>1, InitTyped, PTL DEF Spec

-----------------------------------------------------------------------------
(***************************************************************************)
(* The run budget.  The overshoot is bounded because the guard looks       *)
(* before every call and at most one call is in flight; the warning is     *)
(* exact because warned remembers what spent has already crossed.          *)
(***************************************************************************)
WarningDue == Ceiling > 0 /\ ReachesWarning(spent)
MoneyInv ==
  /\ spent < Ceiling + MaxCost
  /\ \/ warned = TRUE /\ warnings = 1 /\ WarningDue
     \/ warned = FALSE /\ warnings = 0 /\ ~WarningDue

LEMMA FreshMoney ==
  ASSUME spent = 0, warned = FALSE, warnings = 0
  PROVE  MoneyInv
BY MoneyAssumption DEF MoneyInv, WarningDue, ReachesWarning

LEMMA MoneyStep ==
  ASSUME TypeOK, MoneyInv, [Next]_vars
  PROVE  MoneyInv'
<1>1. CASE UserStep
  <2>1. spent' = 0 /\ warned' = FALSE /\ warnings' = 0
    BY <1>1 DEF UserStep, RunCommand, ResumeCommand, ContinueCommand,
                ReplResumeCommand, Launch
  <2> QED BY <2>1, MoneyAssumption DEF MoneyInv, WarningDue, ReachesWarning
<1>2. CASE ProviderCall
  <2>1. PICK usd \in Costs :
          /\ spent' = spent + usd
          /\ IF ~warned /\ ReachesWarning(spent + usd)
               THEN warned' = TRUE /\ warnings' = warnings + 1
               ELSE UNCHANGED <<warned, warnings>>
    BY <1>2 DEF ProviderCall
  <2>2. /\ usd \in 0..MaxCost /\ spent \in Nat /\ Ceiling \in Nat
        /\ MaxCost \in Nat /\ spent < Ceiling
    BY <1>2, MoneyAssumption DEF TypeOK, ProviderCall
  <2>3. spent' < Ceiling + MaxCost
    BY <2>1, <2>2
  <2>4. CASE warned = TRUE /\ warnings = 1 /\ WarningDue
    <3>1. warned' = TRUE /\ warnings' = 1
      BY <2>1, <2>4
    <3>2. WarningDue'
      BY <2>1, <2>2, <2>4 DEF WarningDue, ReachesWarning
    <3> QED BY <2>3, <3>1, <3>2 DEF MoneyInv
  <2>5. CASE warned = FALSE /\ warnings = 0 /\ ReachesWarning(spent + usd)
    <3>1. warned' = TRUE /\ warnings' = 1
      BY <2>1, <2>5
    <3>2. WarningDue'
      BY <2>1, <2>2, <2>5 DEF WarningDue, ReachesWarning
    <3> QED BY <2>3, <3>1, <3>2 DEF MoneyInv
  <2>6. CASE warned = FALSE /\ warnings = 0 /\ ~ReachesWarning(spent + usd)
    <3>1. warned' = FALSE /\ warnings' = 0
      BY <2>1, <2>6
    <3>2. ~WarningDue'
      BY <2>1, <2>2, <2>6 DEF WarningDue, ReachesWarning
    <3> QED BY <2>3, <3>1, <3>2 DEF MoneyInv
  <2> QED BY <2>4, <2>5, <2>6 DEF MoneyInv
<1>3. CASE UNCHANGED money
  BY <1>3 DEF money, MoneyInv, WarningDue, ReachesWarning
<1>4. CASE ProcessStep \/ Crash
  BY <1>2, <1>3, <1>4 DEF ProcessStep, PhaseRefused, InputMissing, EnterPhase,
     CallRefused, PhaseFails, ProduceArtifact, ProduceBuild, GateApprove,
     GateAbandon, GateReject, GateEdit, GateEditBuild, Crash
<1>5. CASE UNCHANGED vars
  BY <1>3, <1>5 DEF vars
<1> QED BY <1>1, <1>4, <1>5 DEF Next

LEMMA MoneyCorrect == Spec => []MoneyInv
<1>1. Init => MoneyInv
  BY FreshMoney DEF Init
<1>2. TypeOK /\ MoneyInv /\ [Next]_vars => MoneyInv'
  BY MoneyStep
<1> QED BY <1>1, <1>2, TypeCorrect, PTL DEF Spec

\* A process never spends more than its ceiling and the one call that crosses it,
\* whatever the reviewer, the model and the repairs do.
THEOREM BudgetHolds == Spec => []BudgetBound
<1>1. MoneyInv => BudgetBound
  BY DEF MoneyInv, BudgetBound
<1> QED BY <1>1, MoneyCorrect, PTL

\* The warning is given exactly once, exactly when 80 % is reached.
THEOREM WarningIsExact == Spec => []WarnedOnce
<1>1. MoneyInv => WarnedOnce
  BY DEF MoneyInv, WarnedOnce, WarningDue
<1> QED BY <1>1, MoneyCorrect, PTL

-----------------------------------------------------------------------------
(***************************************************************************)
(* The gates.  Cleared is what the reviewer's yes establishes about one    *)
(* phase and nothing later in the process undoes.                          *)
(***************************************************************************)
Cleared(p) ==
  /\ review[p] \in LetThrough
  /\ Present(disk[p]) /\ produced[p] = disk[p]
  /\ p = Validate => produced[p].verdict = "go"
  /\ p = Build => produced[p].verdict = "passed"

GateInv ==
  /\ Running =>
       /\ status = "passed"
       /\ phasesRun = job.start..(phase - 1)
       /\ \A p \in job.start..(phase - 1) : Cleared(p)
  /\ pc = "gate" =>
       /\ Present(produced[phase]) /\ produced[phase].verdict \in Verdicts(phase)
       /\ \/ phase = Build /\ produced[phase].verdict # "passed"
          \/ produced[phase] = disk[phase]
  /\ pc = "finished" /\ status = "passed" =>
       /\ phasesRun = job.start..job.stop
       /\ \A p \in phasesRun : Cleared(p)

\* What the gate's answer "carry on" says about the artifact it looked at.
LEMMA AfterGateCarriesOn ==
  ASSUME NEW a, AfterGate(a) = "none", a.verdict \in Verdicts(phase)
  PROVE  /\ phase = Validate => a.verdict = "go"
         /\ phase = Build => a.verdict = "passed"
<1>1. phase = Validate => a.verdict = "go"
  BY DEF AfterGate, Verdicts
<1>2. phase = Build => a.verdict = "passed"
  <2>1. "none" \notin BuildStatuses
    BY CommandAssumption DEF BuildStatuses
  <2> QED BY <2>1 DEF AfterGate, Verdicts, Validate, Build
<1> QED BY <1>1, <1>2

\* A step that touches only the current phase's artifact and review keeps every
\* earlier phase cleared.
LEMMA EarlierStaysCleared ==
  ASSUME TypeOK,
         \A p \in job.start..(phase - 1) : Cleared(p),
         \A p \in Phases \ {phase} : /\ disk'[p] = disk[p]
                                     /\ produced'[p] = produced[p]
                                     /\ review'[p] = review[p]
  PROVE  \A p \in job.start..(phase - 1) : Cleared(p)'
<1> SUFFICES ASSUME NEW p \in job.start..(phase - 1) PROVE Cleared(p)'
  OBVIOUS
<1>1. p \in Phases \ {phase}
  BY PhaseFacts DEF TypeOK, Jobs
<1> QED BY <1>1 DEF Cleared

\* Leave, once the current phase has been cleared or the run is being stopped.
LEMMA LeaveKeepsGateInv ==
  ASSUME TypeOK, GateInv, pc = "gate", job' = job,
         NEW s, Leave(s), s # "passed",
         \A p \in job.start..(phase - 1) : Cleared(p)',
         s = "none" => \A p \in {phase} : Cleared(p)'
  PROVE  GateInv'
<1>0. /\ phase \in Phases /\ job.start \in Phases /\ job.stop \in Phases
      /\ phase \in job.start..job.stop
      /\ phasesRun = job.start..(phase - 1) /\ status = "passed"
  BY PhaseFacts DEF TypeOK, Jobs, GateInv, Running
<1>1. phasesRun' = job.start..phase
  BY <1>0, PhaseFacts DEF Leave
<1>2. CASE s # "none"
  BY <1>2 DEF Leave, Stop, GateInv, Running
<1>3. CASE s = "none"
  <2>1. \A p \in job.start..phase : Cleared(p)'
    <3>1. \A p \in job.start..phase : p \in job.start..(phase - 1) \/ p \in {phase}
      BY <1>0, PhaseFacts
    <3> QED BY <1>3, <3>1
  <2>2. CASE phase = job.stop
    <3>1. pc' = "finished" /\ status' = "passed"
      BY <1>3, <2>2 DEF Leave, Stop
    <3> QED BY <1>1, <2>1, <2>2, <3>1 DEF GateInv, Running
  <2>3. CASE phase # job.stop
    <3>1. pc' = "begin" /\ phase' = phase + 1 /\ status' = "passed"
      BY <1>0, <1>3, <2>3 DEF Leave
    <3>2. phase' - 1 = phase
      BY <1>0, <3>1, PhaseFacts
    <3> QED BY <1>1, <2>1, <3>1, <3>2 DEF GateInv, Running
  <2> QED BY <2>2, <2>3
<1> QED BY <1>2, <1>3

LEMMA GateStep ==
  ASSUME TypeOK, GateInv, [Next]_vars
  PROVE  GateInv'
<1>0. /\ phase \in Phases /\ job.start \in Phases /\ job.stop \in Phases
      /\ phase \in job.start..job.stop
      /\ DOMAIN disk = Phases /\ DOMAIN produced = Phases
      /\ DOMAIN review = Phases
      /\ disk \in [Phases -> Artifact] /\ produced \in [Phases -> Artifact]
      /\ review \in [Phases -> Reviews]
  BY PhaseFacts DEF TypeOK, Jobs
<1>1. CASE UserStep
  <2>1. /\ pc' = "begin" /\ status' = "passed" /\ phasesRun' = {}
        /\ phase' = job'.start /\ phase' \in Phases
    <3>1. ASSUME NEW k, NEW a \in Phases, NEW b, NEW c, Launch(k, a, b, c)
          PROVE  /\ pc' = "begin" /\ status' = "passed" /\ phasesRun' = {}
                 /\ phase' = job'.start /\ phase' \in Phases
      BY <3>1 DEF Launch
    <3>2. Build \in Phases
      BY DEF Build, Phases
    <3> QED BY <1>1, <3>1, <3>2, MissingPhase DEF UserStep, RunCommand,
               ResumeCommand, ContinueCommand, ReplResumeCommand
  <2>2. job'.start..(phase' - 1) = {}
    BY <2>1, PhaseFacts
  <2> QED BY <2>1, <2>2 DEF GateInv, Running
<1>2. CASE PhaseRefused \/ CallRefused \/ PhaseFails
  <2>1. pc' = "finished" /\ status' # "passed"
    BY <1>2 DEF PhaseRefused, CallRefused, PhaseFails, Stop
  <2> QED BY <2>1 DEF GateInv, Running
<1>3. CASE InputMissing \/ GateEditBuild \/ Crash
  <2>1. pc' = "died"
    BY <1>3 DEF InputMissing, GateEditBuild, Crash, Die
  <2> QED BY <2>1 DEF GateInv, Running
<1>4. CASE EnterPhase \/ ProviderCall
  BY <1>4 DEF EnterPhase, ProviderCall, GateInv, Running, Cleared, outcome, files
<1>5. CASE ProduceArtifact
  <2>1. PICK v \in Verdicts(phase) :
          LET made == [ver  |-> disk[phase].ver + 1,
                       from |-> IF phase = Validate THEN 0
                                ELSE Upstream(phase).ver,
                       verdict |-> v]
          IN  /\ disk' = [disk EXCEPT ![phase] = made]
              /\ produced' = [produced EXCEPT ![phase] = made]
    BY <1>5 DEF ProduceArtifact
  <2>2. /\ produced'[phase] = disk'[phase]
        /\ produced'[phase].ver = disk[phase].ver + 1
        /\ produced'[phase].verdict \in Verdicts(phase)
    BY <1>0, <2>1
  <2>3. Present(produced'[phase])
    BY <1>0, <2>2 DEF Present, Artifact
  <2>4. \A p \in job.start..(phase - 1) : Cleared(p)'
    BY <1>0, <1>5, <2>1, EarlierStaysCleared DEF ProduceArtifact, GateInv, Running
  <2>5. pc' = "gate" /\ status' = "passed" /\ phase' = phase /\ job' = job
        /\ phasesRun' = phasesRun
    BY <1>5 DEF ProduceArtifact, GateInv, Running
  <2>6. job'.start..(phase' - 1) = job.start..(phase - 1)
    BY <2>5
  <2>7. \A p \in job'.start..(phase' - 1) : Cleared(p)'
    BY <2>4, <2>6
  <2>8. phasesRun' = job'.start..(phase' - 1)
    BY <1>5, <2>5, <2>6 DEF ProduceArtifact, GateInv, Running
  <2>9. /\ Present(produced[phase])'
        /\ (produced[phase].verdict \in Verdicts(phase))'
        /\ \/ (phase = Build /\ produced[phase].verdict # "passed")'
           \/ (produced[phase] = disk[phase])'
    BY <2>2, <2>3, <2>5 DEF Present, Verdicts
  <2> QED BY <2>5, <2>7, <2>8, <2>9 DEF GateInv, Running
<1>6. CASE ProduceBuild
  <2>0. phase = Build
    BY <1>6 DEF ProduceBuild
  <2>1. PICK s \in BuildStatuses, graded \in BOOLEAN :
          LET made == [ver |-> disk[Build].ver + 1,
                       from |-> Upstream(Build).ver, verdict |-> s]
          IN  /\ s = "passed" => graded
              /\ produced' = [produced EXCEPT ![Build] = made]
              /\ disk' = IF graded THEN [disk EXCEPT ![Build] = made] ELSE disk
    BY <1>6 DEF ProduceBuild
  <2>2. /\ produced'[phase].ver = disk[phase].ver + 1
        /\ produced'[phase].verdict \in Verdicts(phase)
        /\ produced'[phase].verdict = "passed" => produced'[phase] = disk'[phase]
    BY <1>0, <2>0, <2>1 DEF Verdicts, Validate, Build
  <2>3. Present(produced'[phase])
    BY <1>0, <2>2 DEF Present, Artifact
  <2>4. \A p \in job.start..(phase - 1) : Cleared(p)'
    BY <1>0, <1>6, <2>0, <2>1, EarlierStaysCleared
       DEF ProduceBuild, GateInv, Running
  <2>5. pc' = "gate" /\ status' = "passed" /\ phase' = phase /\ job' = job
        /\ phasesRun' = phasesRun
    BY <1>6 DEF ProduceBuild, GateInv, Running
  <2>6. job'.start..(phase' - 1) = job.start..(phase - 1)
    BY <2>5
  <2>7. \A p \in job'.start..(phase' - 1) : Cleared(p)'
    BY <2>4, <2>6
  <2>8. phasesRun' = job'.start..(phase' - 1)
    BY <1>6, <2>5, <2>6 DEF ProduceBuild, GateInv, Running
  <2>9. /\ Present(produced[phase])'
        /\ (produced[phase].verdict \in Verdicts(phase))'
        /\ \/ (phase = Build /\ produced[phase].verdict # "passed")'
           \/ (produced[phase] = disk[phase])'
    BY <2>0, <2>2, <2>3, <2>5 DEF Present, Verdicts
  <2> QED BY <2>5, <2>7, <2>8, <2>9 DEF GateInv, Running
<1>7. CASE GateApprove
  <2>1. /\ Present(produced[phase]) /\ produced[phase].verdict \in Verdicts(phase)
        /\ \/ phase = Build /\ produced[phase].verdict # "passed"
           \/ produced[phase] = disk[phase]
    BY <1>7 DEF GateApprove, GateInv
  <2>2. \A p \in job.start..(phase - 1) : Cleared(p)'
    BY <1>0, <1>7, EarlierStaysCleared DEF GateApprove, Decide, GateInv, Running
  <2>3. review'[phase] \in LetThrough
    BY <1>0, <1>7 DEF GateApprove, Decide, LetThrough
  <2>4. ASSUME AfterGate(produced[phase]) = "none", NEW p \in {phase}
        PROVE  Cleared(p)'
    <3>1. /\ phase = Validate => produced[phase].verdict = "go"
          /\ phase = Build => produced[phase].verdict = "passed"
      BY <2>1, <2>4, AfterGateCarriesOn
    <3> QED BY <1>7, <2>1, <2>3, <2>4, <3>1 DEF GateApprove, Cleared
  <2>5. AfterGate(produced[phase]) # "passed"
    BY <1>0, AfterGateStops DEF TypeOK
  <2> QED BY <1>7, <2>2, <2>4, <2>5, LeaveKeepsGateInv DEF GateApprove
<1>8. CASE GateAbandon
  <2>1. \A p \in job.start..(phase - 1) : Cleared(p)'
    BY <1>0, <1>8, EarlierStaysCleared DEF GateAbandon, Decide, GateInv, Running
  <2> QED BY <1>8, <2>1, LeaveKeepsGateInv DEF GateAbandon
<1>9. CASE GateReject
  <2>1. \A p \in job.start..(phase - 1) : Cleared(p)'
    BY <1>0, <1>9, EarlierStaysCleared DEF GateReject, Decide, GateInv, Running
  <2>2. CASE attempt = MaxRejects
    BY <1>9, <2>1, <2>2, LeaveKeepsGateInv DEF GateReject
  <2>3. CASE attempt # MaxRejects
    BY <1>9, <2>1, <2>3 DEF GateReject, GateInv, Running
  <2> QED BY <2>2, <2>3
<1>10. CASE GateEdit
  <2>1. PICK v \in Verdicts(phase) :
          LET edited == [ver |-> produced[phase].ver + 1,
                         from |-> produced[phase].from, verdict |-> v]
          IN  /\ disk' = [disk EXCEPT ![phase] = edited]
              /\ produced' = [produced EXCEPT ![phase] = edited]
              /\ Leave(AfterGate(edited))
    BY <1>10 DEF GateEdit
  <2> DEFINE edited == [ver |-> produced[phase].ver + 1,
                        from |-> produced[phase].from, verdict |-> v]
  <2>2. /\ edited \in Artifact /\ Fits(edited, phase)
        /\ edited.verdict \in Verdicts(phase) /\ Present(edited)
    <3>1. produced[phase] \in Artifact
      BY <1>0
    <3>2. v \in BuildStatuses \cup {"go", "no-go", "n/a", "none"}
      BY <1>0, VerdictsAreTyped
    <3> QED BY <3>1, <3>2 DEF Artifact, Fits, Present
  <2> HIDE DEF edited
  <2>3. disk' = [disk EXCEPT ![phase] = edited]
        /\ produced' = [produced EXCEPT ![phase] = edited]
        /\ Leave(AfterGate(edited))
    BY <2>1 DEF edited
  <2>4. \A p \in job.start..(phase - 1) : Cleared(p)'
    BY <1>0, <1>10, <2>3, EarlierStaysCleared DEF GateEdit, Decide, GateInv, Running
  <2>5. review'[phase] \in LetThrough
    BY <1>0, <1>10 DEF GateEdit, Decide, LetThrough
  <2>6. ASSUME AfterGate(edited) = "none", NEW p \in {phase}
        PROVE  Cleared(p)'
    <3>1. /\ phase = Validate => edited.verdict = "go"
          /\ phase = Build => edited.verdict = "passed"
      BY <2>2, <2>6, AfterGateCarriesOn
    <3>2. disk'[phase] = edited /\ produced'[phase] = edited
      BY <1>0, <2>3
    <3> QED BY <2>2, <2>5, <2>6, <3>1, <3>2 DEF Cleared
  <2>7. AfterGate(edited) # "passed"
    BY <1>0, <2>2, AfterGateStops
  <2> QED BY <1>10, <2>3, <2>4, <2>6, <2>7, LeaveKeepsGateInv DEF GateEdit
<1>11. CASE UNCHANGED vars
  BY <1>11 DEF vars, control, outcome, files, GateInv, Running, Cleared
<1> QED BY <1>1, <1>2, <1>3, <1>4, <1>5, <1>6, <1>7, <1>8, <1>9, <1>10, <1>11
        DEF Next, ProcessStep

LEMMA GateCorrect == Spec => []GateInv
<1>1. Init => GateInv
  BY DEF Init, GateInv, Running
<1>2. TypeOK /\ GateInv /\ [Next]_vars => GateInv'
  BY GateStep
<1> QED BY <1>1, <1>2, TypeCorrect, PTL DEF Spec

\* No phase of a process works from an artifact its reviewer has not let through,
\* or from another version than the one on disk.
THEOREM GatesHold == Spec => []GatedChain
<1>1. TypeOK /\ GateInv => GatedChain
  BY DEF GateInv, GatedChain, Running, Cleared
<1> QED BY <1>1, TypeCorrect, GateCorrect, PTL

\* "passed" is never reported for less than everything that was asked for.
THEOREM PassedIsHonest == Spec => []PassedMeansWhole
<1>1. TypeOK /\ GateInv => PassedMeansWhole
  BY DEF GateInv, PassedMeansWhole, Cleared
<1> QED BY <1>1, TypeCorrect, GateCorrect, PTL

-----------------------------------------------------------------------------
(***************************************************************************)
(* The chain of files.  What a phase is made from is on disk when it is    *)
(* made and does not change until it is let through; a process that goes   *)
(* through the phases in order has nothing on disk behind the one it is    *)
(* at, since the files of a run are always those of its first phases.      *)
(***************************************************************************)
Downward == \A p, q \in Phases : q <= p /\ Present(disk[p]) => Present(disk[q])

MadeHere == \A p \in Phases : Present(produced[p]) => p \in job.start..phase

HasUpstream ==
  pc \in {"exec", "gate"} /\ phase # Validate => Present(disk[phase - 1])

MadeFromDisk ==
  pc = "gate" /\ phase # Validate => produced[phase].from = disk[phase - 1].ver

\* /validate and /phase from Validate on: without an idea they never get past the start.
Barred == pc = "begin" /\ phase = Validate /\ ~job.idea

NothingAfter ==
  Running /\ ~Replaces
    => Barred \/ \A p \in Phases : p > phase => ~Present(disk[p])

ChainInv == Downward /\ MadeHere /\ HasUpstream /\ MadeFromDisk /\ NothingAfter

LEMMA NothingIsThere == \A p \in Phases : ~Present(Nothing[p])
BY DEF Nothing, NoArtifact, Present

\* What a phase works from is what lies on disk.
LEMMA UpstreamIsOnDisk ==
  ASSUME TypeOK, GateInv, MadeHere, Running, phase # Validate
  PROVE  Upstream(phase) = disk[phase - 1]
<1>0. phase \in Phases /\ job.start \in Phases /\ phase - 1 \in Phases
  BY PhaseFacts DEF TypeOK, Jobs
<1>1. CASE Present(produced[phase - 1])
  <2>1. phase - 1 \in job.start..(phase - 1)
    BY <1>0, <1>1, PhaseFacts DEF MadeHere
  <2> QED BY <1>1, <2>1 DEF GateInv, Cleared, Upstream
<1>2. CASE ~Present(produced[phase - 1])
  BY <1>2 DEF Upstream
<1> QED BY <1>1, <1>2

\* A phase's file is written on top of what it was made from.
LEMMA PutKeepsChain ==
  ASSUME TypeOK, ChainInv, pc \in {"exec", "gate"}, NEW a \in Artifact, Present(a),
         disk' = [disk EXCEPT ![phase] = a],
         phase # Validate => a.from = disk[phase - 1].ver
  PROVE  /\ Downward'
         /\ \A p \in Phases : p > phase => disk'[p] = disk[p]
         /\ phase # Validate => disk'[phase - 1] = disk[phase - 1]
         /\ ChainOnDisk /\ ~Replaces => ChainOnDisk'
<1>0. phase \in Phases /\ DOMAIN disk = Phases
  BY PhaseFacts DEF TypeOK, Jobs
<1>1. \A p \in Phases : disk'[p] = IF p = phase THEN a ELSE disk[p]
  BY <1>0
<1>2. \A q \in Phases : q < phase => Present(disk[q])
  <2> SUFFICES ASSUME NEW q \in Phases, q < phase PROVE Present(disk[q])
    OBVIOUS
  <2>1. phase # Validate /\ phase - 1 \in Phases /\ q <= phase - 1
    BY <1>0, PhaseFacts DEF Validate
  <2> QED BY <2>1 DEF ChainInv, HasUpstream, Downward
<1>3. Downward'
  <2> SUFFICES ASSUME NEW p \in Phases, NEW q \in Phases, q <= p, Present(disk'[p])
               PROVE  Present(disk'[q])
    BY DEF Downward, Present
  <2>1. CASE q = phase
    BY <1>1, <2>1
  <2>2. CASE q # phase /\ p = phase
    <3>1. q < phase
      BY <1>0, <2>2, PhaseFacts
    <3> QED BY <1>1, <1>2, <2>2, <3>1
  <2>3. CASE q # phase /\ p # phase
    BY <1>1, <2>3 DEF ChainInv, Downward
  <2> QED BY <2>1, <2>2, <2>3
<1>4. \A p \in Phases : p > phase => disk'[p] = disk[p]
  BY <1>0, <1>1, PhaseFacts
<1>5. phase # Validate => phase - 1 \in Phases /\ disk'[phase - 1] = disk[phase - 1]
  BY <1>0, <1>1, PhaseFacts
<1>6. ASSUME ChainOnDisk, ~Replaces, NEW p \in Phases \ {Validate},
             Present(disk'[p])
      PROVE  disk'[p].from = disk'[p - 1].ver
  <2>1. CASE p = phase
    BY <1>1, <1>5, <2>1
  <2>2. CASE p # phase
    <3>1. ~(p > phase)
      BY <1>1, <1>6, <2>2 DEF ChainInv, NothingAfter, Running, Barred
    <3>2. p - 1 \in Phases /\ p - 1 # phase
      BY <1>0, <2>2, <3>1, PhaseFacts DEF Validate
    <3> QED BY <1>1, <1>6, <2>2, <3>2 DEF ChainOnDisk
  <2> QED BY <2>1, <2>2
<1>7. ChainOnDisk /\ ~Replaces => ChainOnDisk'
  <2> SUFFICES ASSUME ChainOnDisk, ~Replaces PROVE ChainOnDisk'
    OBVIOUS
  <2>1. \A p \in Phases \ {Validate} :
          Present(disk'[p]) => disk'[p].from = disk'[p - 1].ver
    BY <1>6
  <2> QED BY <2>1 DEF ChainOnDisk, Present
<1> QED BY <1>3, <1>4, <1>5, <1>7

\* The loop goes on to the next phase, or the process ends.
LEMMA LeaveKeepsChain ==
  ASSUME TypeOK, pc = "gate", job' = job, NEW s, Leave(s), Downward',
         \A p \in Phases : Present(produced'[p]) => p \in job.start..phase,
         ~Replaces => \A p \in Phases : p > phase => ~Present(disk'[p])
  PROVE  ChainInv'
<1>0. phase \in Phases /\ job.start \in Phases /\ job.stop \in Phases
      /\ phase \in job.start..job.stop
  BY PhaseFacts DEF TypeOK, Jobs
<1>1. phase' = phase \/ (pc' = "begin" /\ phase' = phase + 1)
  BY DEF Leave
<1>2. pc' \in {"finished", "begin"}
  BY DEF Leave, Stop
<1>3. MadeHere'
  BY <1>0, <1>1, PhaseFacts DEF MadeHere, Present
<1>4. NothingAfter'
  <2>1. ASSUME ~Replaces, NEW p \in Phases, p > phase'
        PROVE  ~Present(disk'[p])
    BY <1>0, <1>1, <2>1, PhaseFacts
  <2> QED BY <2>1 DEF NothingAfter, Replaces, Present
<1> QED BY <1>2, <1>3, <1>4 DEF ChainInv, HasUpstream, MadeFromDisk

LEMMA ChainStep ==
  ASSUME TypeOK, GateInv, ChainInv, [Next]_vars
  PROVE  ChainInv' /\ (ChainOnDisk /\ ~Replaces' => ChainOnDisk')
<1>0. /\ phase \in Phases /\ job.start \in Phases /\ job.stop \in Phases
      /\ phase \in job.start..job.stop
      /\ DOMAIN disk = Phases /\ DOMAIN produced = Phases
      /\ disk \in [Phases -> Artifact] /\ produced \in [Phases -> Artifact]
  BY PhaseFacts DEF TypeOK, Jobs
<1>1. ASSUME disk' = disk, phase' = phase, job' = job, produced' = produced,
             pc' \in {"finished", "died"} \/ pc' = pc
      PROVE  ChainInv' /\ (ChainOnDisk => ChainOnDisk')
  BY <1>1 DEF ChainInv, Downward, MadeHere, HasUpstream, MadeFromDisk, NothingAfter,
     Replaces, Barred, Running, ChainOnDisk, Present
<1>2. ASSUME NEW k, NEW a \in Phases, NEW b, NEW c, Launch(k, a, b, c),
             Downward',
             \/ k = "continue" /\ a \in {Plan, Design}
             \/ a = Validate /\ ~c
             \/ \A p \in Phases : p > a => ~Present(disk'[p])
      PROVE  ChainInv'
  <2>1. /\ pc' = "begin" /\ phase' = a /\ produced' = Nothing
        /\ job'.kind = k /\ job'.start = a /\ job'.idea = c
    BY <1>2 DEF Launch
  <2>2. MadeHere'
    BY <2>1, NothingIsThere DEF MadeHere, Present
  <2>3. NothingAfter'
    BY <1>2, <2>1 DEF NothingAfter, Replaces, Barred, Present
  <2> QED BY <1>2, <2>1, <2>2, <2>3 DEF ChainInv, HasUpstream, MadeFromDisk
<1>3. CASE RunCommand
  <2>0. PICK a \in Phases : \E b \in a..Build : Launch("run", a, b, TRUE)
    BY <1>3 DEF RunCommand
  <2>1. PICK b : Launch("run", a, b, TRUE)
    BY <2>0
  <2>2. disk' = Nothing
    BY <1>3 DEF RunCommand
  <2>3. Downward' /\ ChainOnDisk' /\ \A p \in Phases : ~Present(disk'[p])
    BY <2>2, NothingIsThere DEF Downward, ChainOnDisk, Present
  <2> QED BY <1>2, <2>1, <2>3
<1>4. ASSUME UNCHANGED disk
      PROVE  Downward' /\ (ChainOnDisk => ChainOnDisk')
  BY <1>4 DEF ChainInv, Downward, ChainOnDisk, Present
<1>5. ASSUME Missing # {}
      PROVE  FirstMissing \in Phases /\ \A p \in Phases : p > FirstMissing => ~Present(disk[p])
  <2>1. FirstMissing \in Missing
    BY <1>5, MissingPhase
  <2>2. FirstMissing \in Phases /\ ~Present(disk[FirstMissing])
    BY <2>1 DEF Missing
  <2>3. \A p \in Phases : p > FirstMissing => FirstMissing <= p
    BY <2>2, PhaseFacts
  <2> QED BY <2>2, <2>3 DEF ChainInv, Downward
<1>6. CASE ResumeCommand
  <2>1. Launch("resume", FirstMissing, Build, FALSE) /\ UNCHANGED disk /\ Missing # {}
    BY <1>6 DEF ResumeCommand, OnDisk
  <2>2. \A p \in Phases : p > FirstMissing => ~Present(disk'[p])
    BY <1>5, <2>1
  <2> QED BY <1>2, <1>4, <1>5, <2>1, <2>2
<1>7. CASE ReplResumeCommand
  <2> DEFINE start == IF Missing = {} THEN Build ELSE FirstMissing
  <2>1. Launch("repl_resume", start, Build, FALSE) /\ UNCHANGED disk
    BY <1>7 DEF ReplResumeCommand, OnDisk
  <2>2. start \in Phases /\ \A p \in Phases : p > start => ~Present(disk[p])
    BY <1>5, PhaseFacts DEF Build
  <2>3. \A p \in Phases : p > start => ~Present(disk'[p])
    BY <2>1, <2>2
  <2> HIDE DEF start
  <2> QED BY <1>2, <1>4, <2>1, <2>2, <2>3
<1>8. CASE ContinueCommand
  <2>1. PICK p \in Phases, stop \in Phases :
          Launch("continue", p, stop, FALSE) /\ UNCHANGED disk
    BY <1>8, PhaseFacts DEF ContinueCommand, OnDisk, Build
  <2>2. p \in {Plan, Design} \/ p = Validate \/ \A q \in Phases : ~(q > p)
    BY PhaseFacts DEF Plan, Design, Validate
  <2> QED BY <1>2, <1>4, <2>1, <2>2
<1>9. CASE PhaseRefused \/ CallRefused \/ PhaseFails \/ InputMissing \/ Crash
  <2>1. /\ disk' = disk /\ phase' = phase /\ job' = job /\ produced' = produced
        /\ pc' \in {"finished", "died"}
    BY <1>9 DEF PhaseRefused, CallRefused, PhaseFails, InputMissing, Crash, Stop, Die,
       files
  <2> QED BY <1>1, <2>1
<1>10. CASE ProviderCall \/ UNCHANGED vars
  <2>1. /\ disk' = disk /\ phase' = phase /\ job' = job /\ produced' = produced
        /\ pc' = pc
    BY <1>10 DEF ProviderCall, vars, control, outcome, files
  <2> QED BY <1>1, <2>1
<1>11. CASE EnterPhase
  <2>1. pc = "begin" /\ pc' = "exec" /\ UNCHANGED <<disk, phase, job, produced>>
    BY <1>11 DEF EnterPhase, outcome, files
  <2>2. phase # Validate => Present(disk[phase - 1])
    <3> SUFFICES ASSUME phase # Validate PROVE Present(disk[phase - 1])
      OBVIOUS
    <3>1. Upstream(phase) = disk[phase - 1]
      BY <2>1, UpstreamIsOnDisk DEF Running, ChainInv
    <3> QED BY <1>11, <3>1 DEF EnterPhase
  <2>3. HasUpstream' /\ MadeFromDisk'
    BY <2>1, <2>2 DEF HasUpstream, MadeFromDisk, Present
  <2>4. ~Barred
    BY <1>11 DEF EnterPhase, Barred
  <2>5. NothingAfter'
    BY <2>1, <2>4 DEF ChainInv, NothingAfter, Replaces, Running, Present
  <2> QED
    BY <1>4, <2>1, <2>3, <2>5 DEF ChainInv, MadeHere, Present
<1>12. CASE ProduceArtifact \/ ProduceBuild
  <2>1. PICK made \in Artifact :
          /\ Present(made) /\ (phase # Validate => made.from = Upstream(phase).ver)
          /\ disk' = [disk EXCEPT ![phase] = made] \/ disk' = disk
          /\ produced' = [produced EXCEPT ![phase] = made]
    <3>1. CASE ProduceArtifact
      <4>1. PICK v \in Verdicts(phase) :
              LET made == [ver  |-> disk[phase].ver + 1,
                           from |-> IF phase = Validate THEN 0
                                    ELSE Upstream(phase).ver,
                           verdict |-> v]
              IN  /\ disk' = [disk EXCEPT ![phase] = made]
                  /\ produced' = [produced EXCEPT ![phase] = made]
        BY <3>1 DEF ProduceArtifact
      <4>2. v \in BuildStatuses \cup {"go", "no-go", "n/a", "none"}
        BY <1>0, VerdictsAreTyped
      <4>3. phase # Validate => Upstream(phase) \in Artifact
        BY <1>0, PhaseFacts DEF Upstream
      <4>4. disk[phase] \in Artifact
        BY <1>0
      <4> DEFINE new == [ver  |-> disk[phase].ver + 1,
                         from |-> IF phase = Validate THEN 0 ELSE Upstream(phase).ver,
                         verdict |-> v]
      <4>5. /\ new \in Artifact /\ Present(new)
            /\ phase # Validate => new.from = Upstream(phase).ver
        BY <4>2, <4>3, <4>4 DEF Artifact, Present
      <4>6. disk' = [disk EXCEPT ![phase] = new] /\ produced' = [produced EXCEPT ![phase] = new]
        BY <4>1
      <4> HIDE DEF new
      <4> QED BY <4>5, <4>6
    <3>2. CASE ProduceBuild
      <4>1. phase = Build /\ Build # Validate
        BY <3>2 DEF ProduceBuild, Build, Validate
      <4>2. PICK s \in BuildStatuses, graded \in BOOLEAN :
              LET made == [ver |-> disk[Build].ver + 1,
                           from |-> Upstream(Build).ver, verdict |-> s]
              IN  /\ produced' = [produced EXCEPT ![Build] = made]
                  /\ disk' = IF graded THEN [disk EXCEPT ![Build] = made] ELSE disk
        BY <3>2 DEF ProduceBuild
      <4>3. Upstream(phase) \in Artifact
        BY <1>0, <4>1, PhaseFacts DEF Upstream
      <4>4. disk[phase] \in Artifact
        BY <1>0
      <4> DEFINE new == [ver |-> disk[Build].ver + 1,
                         from |-> Upstream(Build).ver, verdict |-> s]
      <4>5. new \in Artifact /\ Present(new) /\ new.from = Upstream(phase).ver
        BY <4>1, <4>3, <4>4 DEF Artifact, Present
      <4>6. /\ produced' = [produced EXCEPT ![phase] = new]
            /\ disk' = [disk EXCEPT ![phase] = new] \/ disk' = disk
        BY <4>1, <4>2
      <4> HIDE DEF new
      <4> QED BY <4>5, <4>6
    <3> QED BY <1>12, <3>1, <3>2
  <2>2. pc = "exec" /\ pc' = "gate" /\ UNCHANGED <<phase, job>>
    BY <1>12 DEF ProduceArtifact, ProduceBuild
  <2>3. phase # Validate => made.from = disk[phase - 1].ver
    BY <2>1, <2>2, UpstreamIsOnDisk DEF Running, ChainInv
  <2>4. /\ Downward' /\ (ChainOnDisk /\ ~Replaces => ChainOnDisk')
        /\ \A p \in Phases : p > phase => disk'[p] = disk[p]
        /\ phase # Validate => disk'[phase - 1] = disk[phase - 1]
    <3>1. CASE disk' = disk
      BY <1>4, <3>1
    <3>2. CASE disk' = [disk EXCEPT ![phase] = made]
      BY <2>1, <2>2, <2>3, <3>2, PutKeepsChain
    <3> QED BY <2>1, <3>1, <3>2
  <2>5. MadeHere'
    <3>1. \A p \in Phases : p # phase => produced'[p] = produced[p]
      BY <1>0, <2>1
    <3>2. phase \in job.start..phase
      BY <1>0
    <3> QED BY <2>2, <3>1, <3>2 DEF ChainInv, MadeHere, Present
  <2>6. HasUpstream'
    BY <2>2, <2>4 DEF ChainInv, HasUpstream, Present
  <2>7. MadeFromDisk'
    BY <1>0, <2>1, <2>2, <2>3, <2>4 DEF MadeFromDisk
  <2>8. NothingAfter'
    BY <2>2, <2>4 DEF ChainInv, NothingAfter, Replaces, Barred, Running, Present
  <2> QED BY <2>2, <2>4, <2>5, <2>6, <2>7, <2>8 DEF ChainInv, Replaces
<1>13. CASE GateApprove \/ GateAbandon \/ (GateReject /\ attempt = MaxRejects)
  <2>1. PICK s : Leave(s)
    BY <1>13 DEF GateApprove, GateAbandon, GateReject
  <2>2. pc = "gate" /\ UNCHANGED <<job, produced, disk>>
    BY <1>13 DEF GateApprove, GateAbandon, GateReject
  <2>3. \A p \in Phases : Present(produced'[p]) => p \in job.start..phase
    BY <2>2 DEF ChainInv, MadeHere
  <2>4. ~Replaces => \A p \in Phases : p > phase => ~Present(disk'[p])
    BY <2>2 DEF ChainInv, NothingAfter, Barred, Running
  <2> QED BY <1>4, <2>1, <2>2, <2>3, <2>4, LeaveKeepsChain
<1>14. CASE GateReject /\ attempt # MaxRejects
  <2>1. pc = "gate" /\ pc' = "exec" /\ UNCHANGED <<disk, phase, job, produced>>
    BY <1>14 DEF GateReject
  <2> QED
    BY <1>4, <2>1
    DEF ChainInv, MadeHere, HasUpstream, MadeFromDisk, NothingAfter, Replaces, Barred,
        Running, Present
<1>15. CASE GateEdit
  <2>1. PICK v \in Verdicts(phase) :
          LET edited == [ver |-> produced[phase].ver + 1,
                         from |-> produced[phase].from, verdict |-> v]
          IN  /\ disk' = [disk EXCEPT ![phase] = edited]
              /\ produced' = [produced EXCEPT ![phase] = edited]
              /\ Leave(AfterGate(edited))
    BY <1>15 DEF GateEdit
  <2> DEFINE edited == [ver |-> produced[phase].ver + 1,
                        from |-> produced[phase].from, verdict |-> v]
  <2>2. edited \in Artifact /\ Present(edited) /\ edited.from = produced[phase].from
    <3>1. produced[phase] \in Artifact
      BY <1>0
    <3>2. v \in BuildStatuses \cup {"go", "no-go", "n/a", "none"}
      BY <1>0, VerdictsAreTyped
    <3> QED BY <3>1, <3>2 DEF Artifact, Present
  <2>3. disk' = [disk EXCEPT ![phase] = edited]
        /\ produced' = [produced EXCEPT ![phase] = edited] /\ Leave(AfterGate(edited))
    BY <2>1
  <2> HIDE DEF edited
  <2>4. pc = "gate" /\ job' = job
    BY <1>15 DEF GateEdit
  <2>5. phase # Validate => edited.from = disk[phase - 1].ver
    BY <2>2, <2>4 DEF ChainInv, MadeFromDisk
  <2>6. /\ Downward' /\ (ChainOnDisk /\ ~Replaces => ChainOnDisk')
        /\ \A p \in Phases : p > phase => disk'[p] = disk[p]
    BY <2>2, <2>3, <2>4, <2>5, PutKeepsChain
  <2>7. \A p \in Phases : Present(produced'[p]) => p \in job.start..phase
    <3>1. \A p \in Phases : p # phase => produced'[p] = produced[p]
      BY <1>0, <2>3
    <3>2. phase \in job.start..phase
      BY <1>0
    <3> QED BY <3>1, <3>2 DEF ChainInv, MadeHere
  <2>8. ~Replaces => \A p \in Phases : p > phase => ~Present(disk'[p])
    BY <2>4, <2>6 DEF ChainInv, NothingAfter, Barred, Running
  <2> QED BY <2>3, <2>4, <2>6, <2>7, <2>8, LeaveKeepsChain DEF Replaces
<1>16. CASE GateEditBuild
  <2> DEFINE edited == [produced[Build] EXCEPT !.ver = @ + 1]
  <2>1. /\ phase = Build /\ Build # Validate /\ pc = "gate" /\ pc' = "died"
        /\ UNCHANGED <<job, phase>>
        /\ disk' = [disk EXCEPT ![phase] = edited]
        /\ produced' = [produced EXCEPT ![phase] = edited]
    BY <1>16 DEF GateEditBuild, Die, Build, Validate
  <2>2. edited \in Artifact /\ Present(edited) /\ edited.from = produced[phase].from
    BY <1>0, <2>1, SMTT(20) DEF Artifact, Present
  <2> HIDE DEF edited
  <2>3. edited.from = disk[phase - 1].ver
    BY <2>1, <2>2 DEF ChainInv, MadeFromDisk
  <2>4. Downward' /\ (ChainOnDisk /\ ~Replaces => ChainOnDisk')
    BY <2>1, <2>2, <2>3, PutKeepsChain
  <2>5. MadeHere'
    <3>1. \A p \in Phases : p # phase => produced'[p] = produced[p]
      BY <1>0, <2>1
    <3>2. phase \in job.start..phase
      BY <1>0
    <3> QED BY <2>1, <3>1, <3>2 DEF ChainInv, MadeHere, Present
  <2> QED
    BY <2>1, <2>4, <2>5
    DEF ChainInv, HasUpstream, MadeFromDisk, NothingAfter, Replaces, Running
<1> QED
  BY <1>3, <1>6, <1>7, <1>8, <1>9, <1>10, <1>11, <1>12, <1>13, <1>14, <1>15, <1>16
  DEF Next, UserStep, ProcessStep

LEMMA ChainCorrect == Spec => []ChainInv
<1>1. Init => ChainInv
  BY NothingIsThere DEF Init, ChainInv, Downward, MadeHere, HasUpstream, MadeFromDisk,
     NothingAfter, Running
<1>2. TypeOK /\ GateInv /\ ChainInv /\ [Next]_vars => ChainInv'
  BY ChainStep
<1> QED BY <1>1, <1>2, TypeCorrect, GateCorrect, PTL DEF Spec

\* Files that were made one from the other stay so through edits, rejections, crashes
\* and resumes, whatever process writes them, `loom build`, /build and /validate included;
\* only a `loom plan`, `loom design`, /plan, /design or /phase that starts at the plan or
\* the design may leave files that were not made from each other.
THEOREM ChainHolds == Spec => ChainKept
<1>1. TypeOK /\ GateInv /\ ChainInv /\ [Next]_vars
        => [ChainOnDisk /\ ~Replaces' => ChainOnDisk']_vars
  BY ChainStep
<1> QED BY <1>1, TypeCorrect, GateCorrect, ChainCorrect, PTL DEF Spec, ChainKept
=============================================================================
