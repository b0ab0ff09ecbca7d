-------------------------------- MODULE Repl --------------------------------
(***************************************************************************)
(* The interactive session (src/loom/tui/repl.py, commands.py,             *)
(* background.py, and _repl_for of cli.py, which wires it to the           *)
(* pipeline): one prompt, at most one list or question open over it, a run *)
(* in front of it, a run behind it in a thread, other loom processes on    *)
(* the same directories, and sessions that follow one another.             *)
(*                                                                         *)
(* The session is started in Home and everything it starts works there;    *)
(* what the prompt looks at is in the directory of /cd.  A run is its id   *)
(* and the set of phases whose artifact is on disk; its execution keeps    *)
(* the steps at which it reads or writes what the prompt reads or writes   *)
(* too (module Pipeline has the others).  Run ids sort by their creation.  *)
(***************************************************************************)
EXTENDS Integers, FiniteSets

CONSTANTS
  Dirs,        \* directories with a .loom
  Home,        \* the one loom was started in
  MaxRuns,     \* bound: run ids
  MaxTurns,    \* turns of a build
  MaxRejects   \* rejections a gate takes before it gives up

ASSUME DirAssumption   == Home \in Dirs
ASSUME BoundAssumption ==
  /\ MaxRuns \in Nat \ {0} /\ MaxTurns \in Nat /\ MaxRejects \in Nat

-----------------------------------------------------------------------------
Validate   == 1
Build      == 4
Phases     == 1..4
Ids        == 1..MaxRuns
NoRun      == 0
Labels     == 0..MaxTurns   \* scaffold is turn 0

Workers == {"fg", "bg"}
Off     == [at |-> "off", kind |-> "latest", run |-> NoRun, phase |-> Validate,
            stop |-> Build, rejects |-> 0, looked |-> FALSE]
Jobs    == [at : {"off", "start", "begin", "work", "built", "gate"},
            kind : {"latest", "idea", "given"}, run : Ids \cup {NoRun},
            phase : Phases, stop : Phases, rejects : 0..MaxRejects,
            looked : BOOLEAN]

Lists   == {"phase", "resume", "artifacts", "rewind"}
NoList  == [cmd |-> "none", rows |-> {}, start |-> Validate]
Reasons == {"none", "eof", "interrupts", "killed", "shell", "replay", "command", "work"}

VARIABLES
  runs,      \* per directory, the runs it holds
  arts,      \* per directory and run, the phases whose artifact is on disk
  labels,    \* per directory, the build snapshots of its repository
  tree,      \* the snapshot Home's code is at, or was last
  dirty,     \* Home has uncommitted changes
  transcript, \* per run of Home, transcript.json: none, as a build left it, or cut
  root,      \* Repl.root
  runId,     \* Repl.run_id
  job,       \* what _run_phases is doing, in front of and behind the prompt
  pc,        \* where the main thread is
  list,      \* the open list: its command, the rows it was built from, and the
             \* phase that is asked about
  why        \* history: what ended the session

disk    == <<runs, arts, labels, tree, dirty, transcript>>
prompt  == <<root, runId, pc, list>>
vars    == <<disk, prompt, job, why>>

TypeOK ==
  /\ runs \in [Dirs -> SUBSET Ids]
  /\ arts \in [Dirs -> [Ids -> SUBSET Phases]]
  /\ labels \in [Dirs -> SUBSET Labels]
  /\ tree \in Labels /\ dirty \in BOOLEAN
  /\ transcript \in [Ids -> {"none", "whole", "cut"}]
  /\ root \in Dirs /\ runId \in Ids \cup {NoRun}
  /\ job \in [Workers -> Jobs]
  /\ pc \in {"prompt", "list", "confirm", "fg", "replay", "shell", "command",
             "compact", "exited"}
  /\ list \in [cmd : Lists \cup {"none"}, rows : SUBSET Nat, start : Phases]
  /\ why \in Reasons

-----------------------------------------------------------------------------
(***************************************************************************)
(* What the prompt reads.                                                  *)
(***************************************************************************)
\* list_runs sorts; _latest_run and Session.latest take the last, "" if none.
LatestOf(S) == IF S = {} THEN NoRun ELSE CHOOSE r \in S : \A q \in S : q <= r
Latest(d)   == LatestOf(runs[d])
NewRun      == LatestOf(UNION {runs[d] : d \in Dirs}) + 1

\* The artifacts phase_rows and _existing_artifacts find of a run.
Has(d, r) == IF r = NoRun THEN {} ELSE arts[d][r]

\* BackgroundRun.alive
Alive == job["bg"].at # "off"

\* _repl_run_state, of Home.
RunState ==
  IF Latest(Home) # NoRun /\ Has(Home, Latest(Home)) = Phases
    THEN "finished" ELSE "idle"

\* Repl.state
State == IF Alive THEN "running" ELSE RunState

\* route_free_text; nobody listens to a queued line or a follow-up.
Route == CASE State = "idle"    -> "new_idea"
           [] State = "running" -> "queue"
           [] OTHER             -> "followup"

\* Mutant: /rewind is a command like /status.
RefusedButRewind ==
  {"phase", "start", "resume", "replay", "artifacts", "clear", "add-dir", "cd"}

(***************************************************************************)
(* REGISTRY: what is refused while a run works.  "start" stands for        *)
(* validate, plan, design, build and run.  The others apply at once, those *)
(* marked "queue" after saying that they will later: see Command.          *)
(***************************************************************************)
Refused == {"phase", "start", "resume", "replay", "artifacts", "clear",
            "add-dir", "cd", "rewind"}

\* dispatch: the state is read once, before the handler.
MayRun(cmd) == ~(State = "running" /\ cmd \in Refused)

\* Mutant: the phase just before is taken to be there.
MissingButLast(target, have) == {p \in Phases : p < target - 1} \ have

\* missing_upstream of the rows a list or a typed argument looked up.
MissingUpstream(target, have) == {p \in Phases : p < target} \ have

\* phase_rows looked at the run that the run it starts will work on.
LooksAtItsRun == root = Home /\ runId = Latest(Home)

First(S) == CHOOSE p \in S : \A q \in S : p <= q

-----------------------------------------------------------------------------
Job(kind, run, start, stop, looked) ==
  [at |-> "start", kind |-> kind, run |-> run, phase |-> start, stop |-> stop,
   rejects |-> 0, looked |-> looked]

StartInFront(kind, run, start, stop, looked) ==
  /\ job' = [job EXCEPT !["fg"] = Job(kind, run, start, stop, looked)]
  /\ pc' = "fg" /\ list' = NoList
  /\ UNCHANGED <<disk, root, runId, why>>

BackToPrompt ==
  /\ pc' = "prompt" /\ list' = NoList

\* The process goes: the daemon thread with it.
EndSession(reason) ==
  /\ pc' = "exited" /\ why' = reason /\ list' = NoList
  /\ job' = [w \in Workers |-> Off]

Init ==
  /\ runs \in [Dirs -> {{}, {1}}] /\ runs[Home] = {}
  /\ arts = [d \in Dirs |-> [r \in Ids |-> IF r \in runs[d] THEN {1, 2} ELSE {}]]
  /\ labels = [d \in Dirs |-> {}] /\ tree = 0 /\ dirty = FALSE
  /\ transcript = [r \in Ids |-> "none"]
  /\ root = Home /\ runId = NoRun
  /\ job = [w \in Workers |-> Off]
  /\ pc = "prompt" /\ list = NoList /\ why = "none"

-----------------------------------------------------------------------------
(***************************************************************************)
(* One line of input.                                                      *)
(***************************************************************************)
\* /validate, /plan, /design, /build, /run.
StartCommand ==
  /\ pc = "prompt" /\ MayRun("start")
  /\ \/ \E p \in Phases : StartInFront("latest", NoRun, p, p, FALSE)
     \/ StartInFront("latest", NoRun, Validate, Build, FALSE)

FreeText ==
  /\ pc = "prompt" /\ Route = "new_idea"
  /\ StartInFront("idea", NoRun, Validate, Build, FALSE)

\* _background_span
Spans == {<<p, p>> : p \in Phases} \cup {<<Validate, Build>>}

\* /background [phase].  A live run is reported, never doubled.
Background ==
  /\ pc = "prompt" /\ MayRun("background") /\ ~Alive
  /\ \E span \in Spans :
       job' = [job EXCEPT !["bg"] = Job("latest", NoRun, span[1], span[2], FALSE)]
  /\ UNCHANGED <<disk, prompt, why>>

\* A list is built from rows looked up before it opens.
Open(cmd, rows) ==
  /\ pc = "prompt" /\ MayRun(cmd)
  /\ pc' = "list" /\ list' = [cmd |-> cmd, rows |-> rows, start |-> Validate]
  /\ UNCHANGED <<disk, root, runId, job, why>>

OpenPhases    == Open("phase", Has(root, runId))
OpenRuns      == runs[root] # {} /\ Open("resume", runs[root])
OpenArtifacts == Has(root, runId) # {} /\ Open("artifacts", Has(root, runId))
OpenRewind    == labels[root] # {} /\ Open("rewind", labels[root])

ListCancelled ==
  /\ pc = "list"
  /\ BackToPrompt
  /\ UNCHANGED <<disk, root, runId, job, why>>

(***************************************************************************)
(* A row is chosen, with the cursor or as a typed argument.                *)
(***************************************************************************)
PhaseChosen ==
  /\ pc = "list" /\ list.cmd = "phase"
  /\ \E target \in Phases :
       LET missing == MissingUpstream(target, list.rows)
       IN  IF missing = {}
             THEN StartInFront("latest", NoRun, target, Build, LooksAtItsRun)
             ELSE /\ pc' = "confirm"
                  /\ list' = [list EXCEPT !.rows = {}, !.start = First(missing)]
                  /\ UNCHANGED <<disk, root, runId, job, why>>

\* "run them first?": from the first missing phase on.
OfferTaken ==
  /\ pc = "confirm"
  /\ StartInFront("latest", NoRun, list.start, Build, LooksAtItsRun)

OfferDeclined ==
  /\ pc = "confirm"
  /\ BackToPrompt
  /\ UNCHANGED <<disk, root, runId, job, why>>

\* The run id is one of root; the run is resumed in Home.
ResumeChosen ==
  /\ pc = "list" /\ list.cmd = "resume"
  /\ \E r \in list.rows : StartInFront("given", r, Validate, Build, FALSE)

ArtifactChosen ==
  /\ pc = "list" /\ list.cmd = "artifacts"
  /\ BackToPrompt
  /\ UNCHANGED <<disk, root, runId, job, why>>

\* do_rewind: Home is reset, if it has that label and any run, and the
\* transcript of its latest run is cut there.
RewindChosen ==
  /\ pc = "list" /\ list.cmd = "rewind"
  /\ \E turn \in list.rows :
       IF Latest(Home) # NoRun /\ turn \in labels[Home]
         THEN /\ tree' = turn /\ dirty' = FALSE
              /\ transcript' = [transcript EXCEPT ![Latest(Home)] =
                                  IF @ = "none" THEN @ ELSE "cut"]
         ELSE UNCHANGED <<tree, dirty, transcript>>
  /\ BackToPrompt
  /\ UNCHANGED <<runs, arts, labels, root, runId, job, why>>

-----------------------------------------------------------------------------
Clear ==
  /\ pc = "prompt" /\ MayRun("clear")
  /\ runId' = NoRun
  /\ UNCHANGED <<disk, root, pc, list, job, why>>

\* change_dir
Reroot(d) == root' = d /\ runId' = Latest(d)

ChangeDir ==
  /\ pc = "prompt" /\ MayRun("cd")
  /\ \E d \in Dirs : Reroot(d)
  /\ UNCHANGED <<disk, pc, list, job, why>>

\* /replay <phase>, for a phase whose inputs the run shown has.  Validate has
\* none, so that there is always one.
ReplayCommand ==
  /\ pc = "prompt" /\ MayRun("replay")
  /\ pc' = "replay"
  /\ UNCHANGED <<disk, root, runId, list, job, why>>

(***************************************************************************)
(* do_replay works on the latest run of Home.  It needs an artifact to     *)
(* compare with and the one before, and writes a file of its own beside    *)
(* them; a missing one is reported.  A broken config.toml is not, and not  *)
(* everything that the phase or its provider raises.                       *)
(***************************************************************************)
ReplayEnds ==
  /\ pc = "replay"
  /\ BackToPrompt
  /\ UNCHANGED <<disk, root, runId, job, why>>

ReplayRaises ==
  /\ pc = "replay" /\ Latest(Home) # NoRun
  /\ EndSession("work")
  /\ UNCHANGED <<disk, root, runId>>

\* `!`: run_bash_line waits for the command, which may change Home's code.
Bang ==
  /\ pc = "prompt"
  /\ pc' = "shell"
  /\ UNCHANGED <<disk, root, runId, list, job, why>>

BangEnds ==
  /\ pc = "shell"
  /\ dirty' \in IF root = Home THEN BOOLEAN ELSE {dirty}
  /\ BackToPrompt
  /\ UNCHANGED <<runs, arts, labels, tree, transcript, root, runId, job, why>>

(***************************************************************************)
(* A line that prints, notes or sets something no run is made of: /cost,   *)
(* /status, /rubric, /help, /doctor, /bug, /add-dir, a `#` note, and       *)
(* /config, /model, /effort, /budget with the pickers some of them open.   *)
(***************************************************************************)
Command ==
  /\ pc = "prompt"
  /\ pc' = "command"
  /\ UNCHANGED <<disk, root, runId, list, job, why>>

CommandEnds ==
  /\ pc = "command"
  /\ BackToPrompt
  /\ UNCHANGED <<disk, root, runId, job, why>>

\* /compact reads the transcript of the run the prompt is on, live or not.
CompactReads ==
  /\ pc = "prompt" /\ MayRun("compact")
  /\ root = Home /\ runId # NoRun /\ transcript[runId] = "whole"
  /\ pc' = "compact"
  /\ UNCHANGED <<disk, root, runId, list, job, why>>

\* What is written is what was read, whatever a build has left there since.
CompactWrites ==
  /\ pc = "compact"
  /\ transcript' = [transcript EXCEPT ![runId] = "cut"]
  /\ BackToPrompt
  /\ UNCHANGED <<runs, arts, labels, tree, dirty, root, runId, job, why>>

-----------------------------------------------------------------------------
(***************************************************************************)
(* Signals and ends.                                                       *)
(***************************************************************************)
\* A second Ctrl-C within two seconds; one alone leaves the prompt as it is.
CtrlCTwice ==
  /\ pc = "prompt"
  /\ EndSession("interrupts")
  /\ UNCHANGED <<disk, root, runId>>

CtrlD ==
  /\ pc = "prompt"
  /\ EndSession("eof")
  /\ UNCHANGED <<disk, root, runId>>

\* Nothing between a command's handler and Repl.run catches it.
CtrlCInHandler ==
  /\ pc \in {"shell", "replay"}
  /\ EndSession(pc)
  /\ UNCHANGED <<disk, root, runId>>

\* A broken config.toml or design.json, a file or shell that cannot be had.
HandlerRaises ==
  /\ pc \in {"command", "compact", "shell"}
  /\ EndSession("command")
  /\ UNCHANGED <<disk, root, runId>>

Killed ==
  /\ pc # "exited"
  /\ EndSession("killed")
  /\ UNCHANGED <<disk, root, runId>>

\* loom again: a new Repl reads the latest run once.
NextSession ==
  /\ pc = "exited"
  /\ pc' = "prompt" /\ why' = "none"
  /\ Reroot(Home)
  /\ UNCHANGED <<disk, list, job>>

(***************************************************************************)
(* Another loom process in Home: it starts a run, or adds the next         *)
(* artifact of one.                                                        *)
(***************************************************************************)
OtherProcess ==
  /\ \/ /\ NewRun \in Ids
        /\ runs' = [runs EXCEPT ![Home] = @ \cup {NewRun}]
        /\ UNCHANGED <<arts, transcript>>
     \/ \E r \in runs[Home] :
          /\ arts[Home][r] # Phases
          /\ arts' = [arts EXCEPT ![Home][r] = @ \cup {First(Phases \ @)}]
          /\ transcript' = IF arts'[Home][r] = Phases
                             THEN [transcript EXCEPT ![r] = "whole"] ELSE transcript
          /\ UNCHANGED runs
  /\ UNCHANGED <<labels, tree, dirty, prompt, job, why>>

-----------------------------------------------------------------------------
(***************************************************************************)
(* _run_phases, for a worker w: in front of the prompt, which waits for    *)
(* it, or in the thread of /background.                                    *)
(***************************************************************************)
At(w, place) == job[w].at = place
Run(w)       == job[w].run
Phase(w)     == job[w].phase

\* It returns or exits with a code: the closure run() of _repl_for carries on.
Return(w) ==
  /\ job' = [job EXCEPT ![w] = Off]
  /\ IF w = "fg" THEN BackToPrompt ELSE UNCHANGED <<pc, list>>
  /\ UNCHANGED why

\* Mutant: what a thread raises takes the session with it.
RaiseEverywhere(w) == EndSession("work")

\* What only typer.Exit is caught of: a thread ends alone.
Raise(w) ==
  IF w = "fg" THEN EndSession("work") ELSE Return(w)

still == <<root, runId>>

Goes(w, place) ==
  /\ job' = [job EXCEPT ![w].at = place]
  /\ UNCHANGED <<pc, list, why>>

\* _resume_start: the first phase without an artifact, else the build.
ResumeStart(r) ==
  IF arts[Home][r] = Phases THEN Build ELSE First(Phases \ arts[Home][r])

\* The run id is worked out here, in the thread for a background run, and the
\* run's directory comes with its first event.
JobStarts(w) ==
  /\ At(w, "start")
  /\ LET given  == IF job[w].kind = "latest" THEN Latest(Home) ELSE Run(w)
         r      == IF given = NoRun THEN NewRun ELSE given
         resume == job[w].kind = "given"
     IN  /\ r \in Ids
         /\ runs' = [runs EXCEPT ![Home] = @ \cup {r}]
         /\ job' = [job EXCEPT ![w].at = "begin", ![w].run = r,
                      ![w].phase = IF resume THEN ResumeStart(r) ELSE @,
                      ![w].looked = @ /\ r = runId]
  /\ UNCHANGED <<arts, labels, tree, dirty, transcript, pc, list, why, still>>

\* A broken setting or blueprint, before there is a run; also no id is left.
JobRefused(w) ==
  /\ At(w, "start")
  /\ Return(w)
  /\ UNCHANGED <<disk, still>>

HasInput(w) ==
  IF Phase(w) = Validate THEN job[w].kind = "idea"
  ELSE Phase(w) - 1 \in arts[Home][Run(w)]

\* No idea, or no artifact of the phase before.
InputMissing(w) ==
  /\ At(w, "begin") /\ ~HasInput(w)
  /\ Return(w)
  /\ UNCHANGED <<disk, still>>

\* Mutant: the artifact of the phase before is not loaded.
PhaseBeginsUnread(w) ==
  /\ At(w, "begin") /\ Phase(w) # Build
  /\ Goes(w, "work")
  /\ UNCHANGED <<disk, still>>

PhaseBegins(w) ==
  /\ At(w, "begin") /\ HasInput(w) /\ Phase(w) # Build
  /\ Goes(w, "work")
  /\ UNCHANGED <<disk, still>>

\* run_build: the scaffold is snapshot turn 0.
BuildBegins(w) ==
  /\ At(w, "begin") /\ HasInput(w) /\ Phase(w) = Build /\ ~dirty
  /\ labels' = [labels EXCEPT ![Home] = @ \cup {0}] /\ tree' = 0
  /\ Goes(w, "work")
  /\ UNCHANGED <<runs, arts, dirty, transcript, still>>

\* Workspace.open's DirtyWorkspace is caught nowhere.
BuildRefused(w) ==
  /\ At(w, "begin") /\ HasInput(w) /\ Phase(w) = Build /\ dirty
  /\ Raise(w)
  /\ UNCHANGED <<disk, still>>

\* A turn writes; its snapshot is taken when the next one starts, or at the end.
BuildWrites(w) ==
  /\ At(w, "work") /\ Phase(w) = Build /\ ~dirty /\ tree < MaxTurns
  /\ dirty' = TRUE
  /\ UNCHANGED <<runs, arts, labels, tree, transcript, job, pc, list, why, still>>

BuildSnapshot(w) ==
  /\ At(w, "work") /\ Phase(w) = Build /\ dirty
  /\ tree' = IF tree < MaxTurns THEN tree + 1 ELSE tree
  /\ labels' = [labels EXCEPT ![Home] = @ \cup {tree'}]
  /\ dirty' = FALSE
  /\ UNCHANGED <<runs, arts, transcript, job, pc, list, why, still>>

\* After the last snapshot the conversation is written, then the score.
BuildPersists(w) ==
  /\ At(w, "work") /\ Phase(w) = Build /\ ~dirty
  /\ transcript' = [transcript EXCEPT ![Run(w)] = "whole"]
  /\ Goes(w, "built")
  /\ UNCHANGED <<runs, arts, labels, tree, dirty, still>>

Ready(w) == At(w, IF Phase(w) = Build THEN "built" ELSE "work")

\* The artifact is on disk; a build that was never graded leaves none.
PhaseProduces(w) ==
  /\ Ready(w)
  /\ \/ arts' = [arts EXCEPT ![Home][Run(w)] = @ \cup {Phase(w)}]
     \/ Phase(w) = Build /\ UNCHANGED arts
  /\ Goes(w, "gate")
  /\ UNCHANGED <<runs, labels, tree, dirty, transcript, still>>

\* Out of money or attempts, or what counts as a provider's error, is an exit
\* code; anything else that a provider or git raises is caught nowhere.
PhaseFails(w) ==
  /\ At(w, "work") \/ At(w, "built")
  /\ Return(w) \/ Raise(w)
  /\ UNCHANGED <<disk, still>>

(***************************************************************************)
(* The gate.  Behind the prompt it calls input() on the terminal the       *)
(* prompt reads from, so that any line may be its answer.                  *)
(***************************************************************************)
GatePasses(w) ==
  /\ At(w, "gate")
  /\ IF Phase(w) = job[w].stop
       THEN Return(w)
       ELSE /\ job' = [job EXCEPT ![w].at = "begin", ![w].phase = @ + 1,
                         ![w].rejects = 0]
            /\ UNCHANGED <<pc, list, why>>
  /\ UNCHANGED <<disk, still>>

\* Mutant: rejections are not counted.
GateRejectsForEver(w) ==
  /\ At(w, "gate")
  /\ Goes(w, "begin")
  /\ UNCHANGED <<disk, still>>

GateRejects(w) ==
  /\ At(w, "gate")
  /\ job[w].rejects < MaxRejects
  /\ job' = [job EXCEPT ![w].at = "begin", ![w].rejects = @ + 1]
  /\ UNCHANGED <<disk, pc, list, why, still>>

\* Abandoned, a no-go, a build that did not pass, the last rejection.
GateEnds(w) ==
  /\ At(w, "gate")
  /\ Return(w)
  /\ UNCHANGED <<disk, still>>

\* An edited grading (KeyError) and end of input (EOFError) are caught nowhere.
GateRaises(w) ==
  /\ At(w, "gate")
  /\ Raise(w)
  /\ UNCHANGED <<disk, still>>

\* Inside session.interruptible it is an exit code like any other; before, and
\* in a thread, it is not installed.
CtrlCInFront ==
  /\ pc = "fg"
  /\ IF At("fg", "start") THEN EndSession("interrupts") ELSE Return("fg")
  /\ UNCHANGED <<disk, still>>

-----------------------------------------------------------------------------
Steps(w) ==
  \/ JobStarts(w) \/ JobRefused(w) \/ InputMissing(w)
  \/ PhaseBegins(w) \/ BuildBegins(w) \/ BuildRefused(w)
  \/ BuildWrites(w) \/ BuildSnapshot(w) \/ BuildPersists(w)
  \/ PhaseProduces(w) \/ PhaseFails(w)
  \/ GatePasses(w) \/ GateRejects(w) \/ GateEnds(w) \/ GateRaises(w)

Lines ==
  \/ StartCommand \/ FreeText \/ Background
  \/ OpenPhases \/ OpenRuns \/ OpenArtifacts \/ OpenRewind \/ ListCancelled
  \/ PhaseChosen \/ OfferTaken \/ OfferDeclined
  \/ ResumeChosen \/ ArtifactChosen \/ RewindChosen
  \/ Clear \/ ChangeDir \/ ReplayCommand \/ Bang \/ Command \/ CompactReads

\* A handler that is over.
Handled == ReplayEnds \/ BangEnds \/ CommandEnds \/ CompactWrites

Ends ==
  \/ CtrlCTwice \/ CtrlD \/ CtrlCInHandler \/ CtrlCInFront \/ Killed
  \/ ReplayRaises \/ HandlerRaises

Next ==
  \/ \E w \in Workers : Steps(w)
  \/ Lines \/ Handled \/ Ends
  \/ NextSession \/ OtherProcess

(***************************************************************************)
(* What is waited for ends: a provider call returns or raises, the gate is *)
(* answered, a shell command is over or killed at its limit, a file is     *)
(* written or not.  Nothing is assumed of what the user types at the       *)
(* prompt, in a list or in a command's picker.                             *)
(***************************************************************************)
Fairness ==
  /\ WF_vars(Steps("fg")) /\ WF_vars(ReplayEnds \/ ReplayRaises)
  /\ WF_vars(BangEnds) /\ WF_vars(CompactWrites)

Spec == Init /\ [][Next]_vars /\ Fairness

-----------------------------------------------------------------------------
InFront == ~At("fg", "off") \/ pc = "replay"

(***************************************************************************)
(* At most one run works in the workspace: while one is behind the prompt, *)
(* nothing runs or replays in front of it and no list is open from which a *)
(* run could be started or the code reset (repl.py:222, "keeps two runs    *)
(* off one workspace").  The test is made once, before the handler.        *)
(***************************************************************************)
OneRunAtATime == Alive => ~InFront /\ pc \notin {"list", "confirm"}

(***************************************************************************)
(* While a run works behind the prompt, no line, no choice in a list and   *)
(* no end of a handler touches the runs, their artifacts, the code's       *)
(* snapshots, or the run and the directory the prompt is on.  Two commands *)
(* that are not refused do write: a shell command the code, and /compact   *)
(* the transcript of the run the prompt is on, which may be the live one   *)
(* and then loses what its build wrote in between (FR-SLASH-09, "Nothing   *)
(* silently corrupts a run", goes further).  Nor is a line that the run's  *)
(* own gate reads from the terminal one of the prompt: see the gate.       *)
(***************************************************************************)
QuietWhileRunning ==
  [][Alive /\ (Lines \/ Handled)
       => /\ UNCHANGED <<runs, arts, labels, tree, root, runId>>
          /\ dirty' # dirty => pc = "shell"
          /\ \A r \in Ids : transcript'[r] # transcript[r]
                             => pc = "compact" /\ r = runId]_vars

(***************************************************************************)
(* The artifacts of a run of Home are those of its first phases, however   *)
(* old the rows are a run is started from and whichever run it turns out   *)
(* to work on.                                                             *)
(***************************************************************************)
ArtifactsInOrder ==
  \A r \in runs[Home] : \A p \in arts[Home][r] : \A q \in Phases :
    q < p => q \in arts[Home][r]

(***************************************************************************)
(* FR-SLASH-08, "offer to run the missing phases first rather than         *)
(* failing": when /phase showed the run that is then worked on, no phase   *)
(* after Validate finds its input missing.  Validate always does: the run  *)
(* is given no idea (cli.py:386), so that an offer to run Validate first,  *)
(* or Validate chosen from the list, fails at once.                        *)
(***************************************************************************)
OfferHolds ==
  \A w \in Workers :
    job[w].looked /\ At(w, "begin") /\ Phase(w) # Validate => HasInput(w)

(***************************************************************************)
(* A run behind the prompt is not cut short by its own failure, which ends *)
(* the session when it happens to a run in front, nor by that of a replay: *)
(* the session, which takes the thread with it, ends then only if the user *)
(* or the system says so, a Ctrl-C was meant for a shell command, or the   *)
(* handler of another command raised.                                      *)
(***************************************************************************)
OutlivesThePrompt ==
  [][Alive /\ pc # "exited" /\ pc' = "exited"
       => why' \in {"eof", "interrupts", "killed", "shell", "command"}]_vars

(***************************************************************************)
(* FR-REPL-01: whatever is under way in front, the prompt comes back or    *)
(* the session is over.                                                    *)
(***************************************************************************)
PromptReturns == pc \in {"fg", "replay", "shell", "compact"} ~> pc \in {"prompt", "exited"}
=============================================================================
