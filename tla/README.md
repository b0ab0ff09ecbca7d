# Loom in TLA+

Loom turns an idea into a program in four phases (validate, plan, design, build), each driven by
a language model with tools, each followed by a gate where a person may approve, edit, reject or
abandon. It spends money on every call, keeps its state in files under `.loom/` and in git, and is
meant to be interrupted and resumed at any point. What is hard about it is what no unit test
reaches: a crash between two writes, an edit after a rejection, an artifact from another process,
a wallet shared by four phases, a message history compacted many turns ago, a run behind the prompt
while the user types. These modules state
what must hold then, TLC checks it on small instances, and TLAPS proves the main results for every
instance.

    tlc -config MCPipeline.cfg MCPipeline           # model-check one run
    tlapm Pipeline_proofs.tla                       # check the proofs of one module

## 1. Inventory

Every part of the repository, its state, its operations, who it talks to, and what makes it
correct. "Model" names the module, or the place in the plan (section 6).

| Part (source) | State | Operations | What makes it correct | Model |
|---|---|---|---|---|
| Pipeline (`loom/pipeline.py`) | artifacts produced by this process, money spent, attempt count | `run_pipeline`, `_run_one`, `_after_gate`, `_store`, `RunBudget`, `BudgetGuard` | no phase works from an artifact nobody let through; "passed" is true; one ceiling over everything | `Pipeline` |
| Gates (`loom/gates.py`) | none | ask, four answers | each answer ends the attempt one way | `Pipeline` |
| CLI (`loom/cli.py`) | none between commands | run, plan, design, build, resume, … | a resumed run continues the run that was interrupted | `Pipeline` |
| Phase execution (`loom/phases/base.py`) | messages, attempts, spending of one phase | `execute`, `_validate`, `_persist` | an artifact on disk was made for what was asked; bounded repairs | `PhaseExec`, `PhaseContract` |
| Phase cache (`loom/cache.py`) | one file per key | get, put | never another question's answer; asking twice is free | `PhaseExec` |
| Agent loop (`loom/agent/loop.py`) | messages, turns, money, best and flat rounds | `run_agent_loop`, `_dispatch` | well-formed requests; ceiling; gives up neither early nor late | `AgentLoop` |
| Compaction (`loom/agent/context.py`) | none | `compact` | keeps the pairing of calls and answers, and the recent turns whole | `AgentLoop` |
| Build phase (`loom/phases/build.py`, `loom/scaffold.py`) | turn, label, transcript, score | `run_build`, `_Snapshotter` | every turn can be had back; one commit on success | `BuildPhase` |
| Workspace (`loom/workspace.py`) | git refs and commits | begin, snapshot, commit, reset | rewrites only what Loom laid down | `BuildPhase` |
| Replay and rewind (`loom/replay.py`) | none | `rewind`, `replay` | tree and history agree after a rewind; a replay leaves the run alone | `BuildPhase`, `Repl` |
| Event log (`loom/session.py`) | append-only file, sequence number | `log_event`, `read_events`, `interruptible` | a torn line costs one event; numbers tell the order | `EventLog` |
| Rubric (`loom/rubric.py`) | memo keyed on the tree hash | `grade`, round after round | an unchanged tree is graded once, a changed one again; a sunk build is not judged | `Rubric` |
| Providers (`loom/agent/providers.py`) | none between calls | `complete`: retry, fallback, stream | bounded retries; one answer on screen; one charge per answer | `Provider`, `ProviderContract` |
| REPL (`loom/tui/repl.py`, `commands.py`, `background.py`, `cli.py:_repl_for`) | directory and run it is on, the open list, a run in front, a thread behind | one line of input, a row of a list, Ctrl-C, Ctrl-D | one run at a time in a workspace, which of the lines typed meanwhile disturb it, the prompt comes back | `Repl` |
| Tools (`loom/agent/tools/*`) | questions asked, pages seen, a dead search, child processes, temp files | questions, search, fetch, shell, file writes | what the model is told stays true; bounded questions; whole files; every call returns | `Tools` |
| Ledger (`loom/ledger.py`) | one table | record, totals | one row per answer | `Provider` |
| Phases validate, plan, design; contracts; blueprints | none | prompts, schemas, merge | data | not modelled |
| Terminal presentation (`loom/tui/widgets.py`, `app.py`, …) | cursor, what is typed | keys, layout | layout | its choices and signals in `Repl` |
| Security, configuration, diagnostics, preview, testing support, evals | none that the rest depends on | predicates, settings, recordings | data, I/O | not modelled |

How they interact. The CLI starts one `run_pipeline` per process. The pipeline calls the phases in
order in one asyncio task, hands each a provider wrapped in the budget guard, and calls the gate
between them. The REPL calls the same pipeline in its main thread, or in a daemon thread while it
goes on reading lines: the two share the workspace, the terminal and nothing else. A phase calls the
agent loop, which awaits the provider and the tools and reports events through a callback; the
build's snapshotter is such a callback and commits to git between two turns. Processes meet only on
disk: artifacts of a run, the project's cache and notes, the git repository. Another process, the
user's editor and his own git commands are the concurrency; a signal or a crash can come at every
await and between every two writes.

## 2. Modules

`Pipeline.tla` (487 lines) models one run id over any number of processes. `disk` holds the
artifact files, everything else (`pc`, `phase`, `attempt`, `produced`, `spent`, …) is the memory
of the current process. `RunCommand`, `ResumeCommand`, `ContinueCommand` and `ReplResumeCommand`
are the commands with the start phase each computes; `EnterPhase`, `ProviderCall`, `CallRefused`,
`PhaseFails`, `ProduceArtifact`, `ProduceBuild` are `_run_one` around a phase; the `Gate…` actions
are the answers at the gate, each with `_after_gate` and the loop's exit (`Leave`) in the same
step, because no await lies between. `Crash` may happen wherever a process runs. An artifact is
its version, the version of the file it was made from, and the verdict `_after_gate` reads.

`AgentLoop.tla` (258 lines) models one `run_agent_loop`: `CallProvider`, `Charge` (the await
between the two is where an exception may fall), the reply that calls tools and `Dispatch` of each,
replies in words and their grade, `Finish` with each status. Messages keep their role and the call
ids they carry; a tool result is "full" or a "gist" after `Compact`.

`PhaseExec.tla` (260 lines) models `Phase.execute` in several processes with one shared cache and
one notes file. An artifact is identified with what it was made for, so "the wrong artifact" can be
said. The write of the artifact and the store in the cache are two steps with a crash possible
between. `PhaseContract.tla` (37 lines) is the abstract specification: a caller asks, and gets on
his disk an artifact made for exactly what he asked, or nothing changes. `ContractKept` states that
`PhaseExec` implements it; the refinement mapping reads `asked` off the program counter.

`BuildPhase.tla` (344 lines) models `run_build`, one step per git command and per file: a tree is
the set of writes in it, a commit its tree and its ancestors. The index is apart from the tree:
`SnapAdd` and both ends of a round of grading (`GradeBegins`, `Grade`) stage everything, and
`SnapCommit` and `CommitPhase` commit what is staged, so that an edit made after the last staging is
in no commit of the build. `SnapAdd`/`SnapCommit`/`SnapRef`, `SoftReset`/`CommitPhase`,
`RewindReset`/`RewindTrim` are what an abort can separate. The user edits, commits, starts another
run and rewinds.

`Rubric.tla` (248 lines) models `grade` called again and again with one memo. A tree is the code
and the litter that commands leave: both are in its hash, only the code decides a score, so a memo
that is honest and one that is useful can be told apart. The commands of a round run at once and
end in any order, then the judges; `Close` is `_finish`. Each entry carries, as history, the code
it was graded on. The agent edits between rounds, the user also during one, a new build starts
with an empty memo.

`Provider.tla` (240 lines) models `complete` for several callers: a phase's provider that streams,
one that does not, and a judge's, which has no fallbacks and reports nothing. `Enter` is the
preflight and the first attempt on a link, `CallFails` and `StreamFails` are the two ways of
handling an exception, `Switch` and `Exhausted` are `_run`'s. `ProviderContract.tla` (52 lines) is
what a caller is promised: an answer or a failure, the text of one model on screen, a row for an
answer under the model that gave it. `ContractKept` states that `Provider` implements it; the
mapping reads the contract's state off the program counter.

`EventLog.tla` (305 lines) models `events.jsonl` and the sessions that append to it. A call of
`log_event` is a frame on the stack of its process and each of its lines a step: `Begin`, `Count`,
`Buffer`, `Flush`, `Return`. `Handle` puts the frame of the signal handler's own `log_event` above
whatever is in progress; `Return` of that frame raises in the frame below, `Close` is the
`with`-block that writes its buffer on the way out, `Leave` a call that has none. `Kill` and
`DiskFull` cut a write short at the places in its text that matter (before the event, after its
newline prefix, inside it, before its newline). `disk` is what `fsync` has put there and
`PowerFails` may return to. A line of the file carries its events, more than one when an event was
glued to a fragment, which makes it unreadable.

`Repl.tla` (650 lines) models the interactive session of `tui/repl.py`, `commands.py` and
`background.py` with the closures `_repl_for` hands it. `pc` is where the main thread is: at the
prompt, in a list, in the question "run them first?", in a run, a replay, a shell command, a
`/compact` or the handler of another command. `job`
is what `_run_phases` is doing in front of the prompt (`"fg"`) and behind it (`"bg"`), `Steps(w)` its
steps, the same for both but for what an exception does (`Raise`): in the main thread what is no
`typer.Exit` ends the session, in the thread only the thread. `list.rows` are the rows a list was
built from, kept until one is chosen, whatever other processes write meanwhile; `runId` and `root`
are what the prompt is on, `Latest(Home)` is what a run works on. `MayRun` is the look `dispatch`
takes at the state before it calls a handler. `Command` stands for the lines that print or set
something and apply while a run works too; `CompactReads` and `CompactWrites` are the two ends of
`/compact`, between which a build may write the transcript (`BuildPersists`) that is then overwritten;
`HandlerRaises` is an exception of either or of a shell command, which nothing up to `Repl.run`
catches. Sessions end (`EndSession`) and follow one another
(`NextSession`), and a second loom process starts runs and adds artifacts (`OtherProcess`).

`Tools.tla` (388 lines) models the tools with a memory or an effect outside the process. A
conversation begins with each attempt of a phase and takes a new `web_tools()`, the `AskUser` lives
as long as the process: `NewConversation`, `Rejected`, `NextPhase` and `ProcessEnds` keep them apart.
A command of `run_bash` is its shell and one child that may leave the group, hold the output, or
never end; `wait` and `drain` are the two places the call can be in, the timeout may strike in
either. `atomic_write` is its four steps, with a failed write, a kill and a power failure between
any two. Its specification is called `ToolsSpec`, since `Agent_proofs` speaks of it and of the
loop's `Spec` in one module.

How they compose. A job of `Repl` is a process of `Pipeline` cut down to what the prompt can see of
it; the tools of `AgentLoop`, which return or raise there, are those of `Tools`. A phase of
`Pipeline` is a bounded sequence of guarded calls that ends in an artifact or an error, which is
what `PhaseExec` does; the agent loop of `PhaseExec` is one step that spends less than its ceiling
plus one call, which is what `UsdHolds` of `Agent_proofs` proves; the loop inside `BuildPhase` emits
events in the order of `AgentLoop`, and asks `Rubric` for the totals that `AgentLoop` judges
progress by. A call in `AgentLoop` and a judge's in `Rubric` either answers and is charged or
raises, which is what `ProviderContract` promises. The `MC…` modules only give constants their
values.

## 3. Runs

| Run | Question | States |
|---|---|---|
| `pipeline` | Do the report, the gates' decisions, the build's status and the wallet agree, over all commands; does a phase ever work from an artifact its process has not let through; does any command but those that start again at Plan or Design break the chain of files; does every process end? | 1.2 million states |
| `agent_loop` | Are requests well formed over failures and compactions, is spending bounded, is "stalled" said exactly when it should be? | 548 000 states |
| `phase_exec` | Does a phase with cache, notes, crashes and a second process implement its contract; is asking twice free; is spending bounded; does it end? | 322 000 states |
| `build` | Can every earlier turn be had back after any abort; does an unfinished build leave a whole label and a passed one a single commit with all of its work and the user's commits in it, although only what is staged goes there? | 5.3 million states |
| `rubric` | Does the memo ever serve another code's grade, does an unchanged tree cost anything, can a hard fail pass, does a round end? | 88 000 states |
| `provider` | Does `complete` keep its contract over retries, fallbacks, streams and cancellation; does it give up neither early nor late, report every attempt, end? | 21 000 states |
| `eventlog` | Is what `log_event` returned read ever after, in the order of its numbers, over torn writes, full disks, power failures, a second process and signals between any two steps? | 1 million states |
| `repl` | Over lists left open, other processes, `/cd`, background runs and sessions: one run at a time, what may a line typed meanwhile write, do runs grow in order, does an offer hold after Validate, what may end the session under a background run, does the prompt come back? | 596 000 states |
| `tools` | Do the tools' words stay true over re-runs, failures and dead searches, are questions bounded per phase and process, files whole over crashes, does every command return whatever it forks? | 132 000 states |

Three more runs each refute one sentence of the documentation:

| Run | The sentence | What happens |
|---|---|---|
| `no_go_planned` | a no-go never silently proceeds to Plan | the artifact is on disk before its gate and `resume` starts at Plan and asks nobody, whether the process crashed at the gate or ran unattended, approved the no-go by itself and stopped; TLC shows one of the two, both are as short |
| `interrupted_validate` | an interrupted run is resumable | before `validation.json` exists, `resume` has no idea to give Validate |
| `killed_group` | the timeout kills the whole process group | the shell is reaped first, `getpgid` of it fails, and its background child runs on (`sleep 30 & echo hi`) |

### Bounds

* `Pipeline`: two processes, one rejection per gate, one call per loop, a repair where it matters,
  a ceiling of five with calls of two. Two processes are what a resume needs, one rejection reaches
  both sides of the attempt limit, and a ceiling that is not a multiple of the price separates
  "at" from "over" and lets the warning and the refusal fall into one call or two.
* `AgentLoop`: six turns, two calls a reply, prices one and two, totals 0 to 3 with epsilon 2 and
  patience 2. Epsilon two on a scale of three has creeping, oscillating and falling totals; six
  turns let the stall rule fire, reset and fire again, and one kept turn compacts five.
* `PhaseExec`: two processes, two tasks, three attempts, one note, two starts. One process stores
  or dies, the other, or the same, asks again.
* `BuildPhase`: two builds of two turns, two user actions. The second build meets the labels, the
  base and the commits of the first, and two actions are an edit and its commit, or two rewinds.
* `Rubric`: two commands and a judge, two codes, two sorts of litter, scores 0 to 2, rounds
  without bound. A command and the judge are hard-fail criteria, so a build is sunk before and
  after the judges are asked; two codes are an edit and its revert, and one of two commands may
  leave litter while the other still reads.
* `Provider`: three attempts per link, so that one is neither the first nor the last; chains of
  three, two and one, the middle link of the first without a key; two calls in all, at once or one
  after the other. Callers share nothing but the ledger.
* `EventLog`: two processes, two openings, three calls, two signals, one fault; processes are
  symmetric. Two signals are SIGINT inside SIGTERM inside a call; the second opening is either
  concurrent or a resume behind a torn line, and a third call then comes after both.
* `Repl`: two directories, two run ids, builds of one turn, one rejection. Two runs tell the run
  the prompt is on from the latest one; the second directory tells where a list looks from where a
  run works. A build of one turn has a label to rewind to and one that is not there yet. Sessions
  and lines of input are without bound.
* `Tools`: three processes, two URLs, three questions (the code's cap), one command. Calls of
  `run_bash` share nothing, so one stands for all, also for those a round of grading starts at once.
  Two URLs are one that fails and one that does not; with three processes a counter that survives a
  phase is told from one that survives a process.

The theorems of section 5 hold without the bounds on the data; the bounds on how often the user
acts or a process begins are constants there too, any natural number.

### Fairness

`Pipeline` assumes weak fairness of the process's own steps together, `PhaseExec` of each process's
own steps, `Rubric` of the steps of a round together, `Provider` of each caller's steps, `Repl` of
the run in front of the prompt, of a replay, of a shell command and of the write of `/compact`,
`Tools` of a pending `run_bash` call's own steps: asyncio resumes a task whose await is over, a
request returns or raises, a back-off is a finite sleep, a command is killed at its time limit
(`agent/tools/bash.py`), the reviewer answers the gate with something. Nothing is assumed of
commands and their pickers, notes, edits, deletions, cancellations, crashes, of what is typed at a
prompt or a list, or of a command of the model's, which may run for ever; and no step is assumed
strongly fair. Under it `EveryLaunchEnds`, `PhaseEnds`, `RoundsEnd`, `CompleteEnds` and
`PromptReturns` hold because attempts, turns, links and rejections are counted, `CallReturns`
because the time limit covers the wait for the shell and for the end of its output. The other
modules state safety only.

## 4. Properties

* `GatedChain`: what a phase works from lies on disk, and was let through by this process's reviewer
  if this process made it; what a resumed process finds there it trusts (see `no_go_planned`).
  `ChainKept`: files that form a chain, each made from the version next to it, stay one through every
  step but those of a command that starts at Plan or Design over files that are there (`Replaces`):
  `loom plan`, `loom design`, and in the prompt `/plan`, `/design` and a `/phase`, or its offer,
  that starts at one of the two. They replace a file and leave the ones made from it. `loom build`,
  `/build` and `/validate` are held to it like `loom run` and `loom resume`.
* `PassedMeansWhole`: "passed" means every requested phase was let through, no verdict was no-go
  and the build passed its rubric.
* `BudgetBound`, `WarnedOnce`: less than one call over the ceiling, over all phases, attempts and
  repairs; the 80 % warning exactly once, exactly when due.
* `TranscriptIsValid`, `RecentIsVerbatim`: every request has each tool call answered once, in
  order; compaction leaves the kept turns whole.
* `UsdBound`, `StalledIsSound`, `StallIsCaught`: the loop's ceiling; it says
  stalled only after that many rounds without progress, never pays after that many without any
  gain. `RoundsAreBounded`, that creeping totals do not keep it going, is proved only.
* `ContractKept`, `AskedAgainIsFree`, `SpendBound`, `PhaseEnds`: section 2; asked again for what
  any process was given, a phase makes no call; less than one call over per attempt.
* `TurnsAreRevertible`, `LabelIsResumable`: section 3. `PassedIsOneCommit`: a build that passes is
  one commit on its base, with all of its work in it although `commit_phase` stages nothing, none of
  its turn commits behind it, and in it what the user committed on the branch meanwhile, whose
  commits go with the turn commits. An edit he made after the last staging stays uncommitted.
* `MemoIsHonest`, `UnchangedIsFree`: what the memo would serve for the tree as it is was graded on
  that code, over reverts, litter and rounds cut short; what a round graded is not graded again
  while the tree is left alone. The first alone holds of a memo that never serves anything, the
  second alone of one that always does. `ShellBeforeJudge`, `PassIsWhole`, `RoundsEnd`: section 3.
* `AckedSurvives`: an event whose `log_event` returned is on a readable line of the file, and of
  what a power failure would leave, for ever. One exception is stated exactly: an event glued to a
  fragment of another session while both had the run open, since the look at the last byte and the
  write are two steps. `NumbersIncrease`: within a session the events returned lie in the order of
  their numbers and no two share one, although a handler takes a number between the two lines that
  take and count one. `HandlersDoNotNest`: however fast signals come, no handler interrupts itself.
* `ContractKept` (of `Provider`), `EveryAttemptIsTold`, `GivesUpInTime`, `CompleteEnds`: section 2;
  every attempt after the first was reported once; an exhausted chain was walked to its end, each
  link given up at its first failure that is no overload, or at its last attempt.
* `OneRunAtATime`: while a run works behind the prompt, nothing runs or replays in front of it and no
  list is open that could start one. The state is read once per line, before the handler; what keeps
  it true afterwards is that no list can be open when a background run begins, and none that matters
  opened while it lives. `QuietWhileRunning`: no line typed then, no choice in a list and no end of a
  handler changes the runs, their artifacts, the labels, or what the prompt is on; the code only a
  shell command changes, and a transcript only `/compact`, that of the run the prompt is on. That may
  be the live run's, and what its build wrote meanwhile is then lost (section 7). A line the run's own
  gate reads from the terminal is not one of the prompt's.
* `ArtifactsInOrder`: a run's artifacts are those of its first phases, however old the rows it was
  started from. `OfferHolds`: when `/phase` showed the very run that is then worked on, no phase after
  Validate finds its input missing. Validate always does, in every run `/phase` starts (section 7).
* `OutlivesThePrompt`: the session, and a background run with it, is not ended by a failure of that
  run or of a replay; what does end it is the user, the system, a Ctrl-C meant for a shell command, or
  the handler of a command that raises. `PromptReturns`: whatever is under way in front, but for a
  command's picker, ends in a prompt or the end of the session.
* `WordsHold`: after "do not call search_web again" no search of the conversation succeeds; a page
  refused as already fetched was downloaded in this conversation; after "exit N" the shell is gone
  and nobody holds its output. `QuestionsBounded`: at most three questions in a phase of one
  process, re-runs at its gate included, although the counter belongs to no phase; a phase resumed in
  another process starts from none (section 7). `FilesAreWhole`: a file is the old one or the
  new one. `CallReturns`: section 3.

Each is tested against a plausible bug in the code it is about: an operator beside the real one
(its comment starts with "Mutant") which, put in its place, must break the property.

## 5. Proofs

Each `…_proofs` module proves its theorems for every value of the constants that satisfies the
named assumptions of its component: natural numbers, a bounded price list, a positive patience,
distinct markers. Each has an inductive invariant in named parts, one lemma per action or group of
actions, and theorems that draw the property from the invariant.

* `Pipeline_proofs`: `TypeCorrect`, `BudgetHolds`, `WarningIsExact`, `GatesHold`, `PassedIsHonest`,
  `ChainHolds`.
  `GatedChain` is not inductive: at the gate, in the middle of an attempt and between two phases
  different things are known of the current artifact. The invariant says for each which phases
  have been let through, that memory and disk agree on them, and where the current artifact is.
  `ChainHolds` needs a second one: the files of a run are always its first phases, nothing lies
  behind the phase a process is at unless it runs a command of `Replaces`, and what a phase is
  made from, in memory or not, is the version on disk.
* `Agent_proofs`, of `AgentLoop`: `TypeCorrect`, `UsdHolds`, `StalledHolds`, `StallCaught`,
  `RoundsBounded`, `TranscriptHolds`, `RecentKept`. One invariant ties `baseline` and `flat` to the
  list of totals so far (which round last made progress, how far the baseline has climbed); another
  ties the tool messages to the calls: those answered, those pending, in order. `RecentIsVerbatim`
  is inductive by itself. Of `Tools`: `ToolsTypeCorrect`, `WordsAreKept`, `QuestionsAreBounded`,
  `FilesStayWhole`, from one invariant, `ToolsInv`. Who was told that the search is dead finds the
  latch closed; what is in the seen-set was opened; a call that said "exit" is of a command that is
  over, and `OverStaysOver` says no step of a command undoes that; the counter of the process is
  never behind the questions of the phase; and a name is given only to a synced file.
* `PhaseExec_proofs`: `TypeCorrect`, `SpendHolds`, `FreeAgain`, and `Implements`, that every step
  is a step of `PhaseContract` or a stutter. It rests on `CacheHonest`: every entry was made for
  its key, and what is stored stays until it is deleted. With the cache wrong an honest process
  would break the contract on its next hit; that is why it is part of the invariant.
* `BuildPhase_proofs`: `TypeCorrect`, `TurnsRevertible`, `UnfinishedIsLabelled`, `PassedIsSquashed`.
  Its parts: where the snapshotter is (`Control`), whose writes are in which tree (`Writing`), what
  each label holds (`Labelled`), how commits follow one another (`History`), and what is staged when
  it is committed (`Staging`): that the index holds all of the build's work when the branch is
  squashed is known only because the last snapshot or grading came after the last write. `Writing`
  is needed because a new build starts on trees that hold older builds' work.
* `Rubric_proofs`: `TypeCorrect`, `MemoHolds`, `JudgesWait`, `PassHolds`, `UnchangedFree`. The
  invariant follows a round: what a criterion of this round was graded on is the code of the stamp
  as long as nobody edited, and an entry with this round's stamp belongs to this round's code.
  Weights and threshold are any; `PassHolds` needs only that a hard fail is worth nothing.
* `Provider_proofs`: `TypeCorrect`, `AttemptsTold`, `GivenUpInTime`, `AttemptsAreBounded`, and
  `Implements`, that every step is a step of `ProviderContract` or a stutter. The invariant is
  about one caller at a time: how long its list of faults is and that all but the last were
  overloads, how many attempts the links so far allow, and that a link with text on screen is
  never left for another, which is what the refinement rests on.

* `EventLog_proofs`: `TypeCorrect`, `HandlersApart`, `ReturnedIsKept`, `ReturnedInOrder`. Every way
  out of a call is an instance of `Pops`, every step within one of `Moves`, every call one of
  `Pushes`, and every write one of `Grown`. The invariant says that no line is empty, that only
  handlers run above another call, and that a signal with a handler on the stack is not armed.
  `ReturnedIsKept` (invariant `AckInv`) says of each call in progress that its text, once written,
  is read (`Arrived`), and that text which begins without a newline will be glued to nothing but the
  wreckage of a session that is open too (`Unglued`): within one process whatever could leave a
  wreckage has raised the exception that ends the call. `ReturnedInOrder` (`OrderInv`) says that
  what has returned is numbered below what is to come of its session (`Numbered`), and that an event
  that has reached the file lies behind all of its session that returned (`Behind`). A handler's
  event may lie between another call's number and its line; that call then never returns.

* `Repl_proofs`: `TypeCorrect`, `OneAtATime`, `Ordered`, `Quiet`, `Outlives`, `OfferIsKept`, for any
  directories, runs, turns and rejections. `FrontTied` says that the main thread waits for exactly
  the run in front of it, `Apart` what that leaves it while a run is behind, `Grounded` that a phase
  at work has found the artifact before it and knows its run, `Prefixes` that artifacts grow from
  the first phase. None of these is inductive alone: `Prefixes` needs `Grounded` when a phase ends,
  and `Grounded` needs that artifacts never go. Types are finer than `TypeOK`: a job never lies
  behind its stop, or `phase + 1` would leave the phases. `Quiet` and `Outlives` are action
  properties and follow from the same invariant, `Quiet` from `Apart`: a choice in a list would
  touch runs or code, and none is open. `OfferIsKept` needs what a list promises (`Shown`) and what
  is kept of the promise between the choice and the phase that cashes it in (`Looked`): every phase
  after Validate has the artifacts before its start there, or they are made first.

The type invariants are theorems, so the runs do not repeat them. Every safety property and every
action property the runs check is a theorem, and so are both refinements; the inductive invariants
were checked on the runs' instances before they were proved.

Only model-checked: liveness (`EveryLaunchEnds`, `PhaseEnds`, `RoundsEnd`, `CompleteEnds`,
`PromptReturns`, `CallReturns`), which needs fairness and `ENABLED` and is out of the prover's
reach; and the three refutations.

## 6. What could come next

1. `PipelinePhases`: `Pipeline` with its opaque phase replaced by `PhaseContract`, to carry
   `ContractKept` into `GatedChain`. The two modules already agree on what a phase does to the disk;
   the composition would say so.
2. Two builds in one workspace: `Repl` keeps one session's runs apart, nothing in the code keeps two
   loom processes apart there, and `BuildPhase` has one.

## 7. What is left out, and what was seen on the way

Left out inside modelled parts: `commit_phase` refuses when HEAD is no descendant of the base,
which needs the user to check out another commit during a build (`tests/test_workspace.py:258`);
the agent's own git commands; a second Loom process building in the same workspace; the syntax
of labels. The REPL refuses
`/rewind` while a run works, so a rewind starts from an idle state only. In `Repl`: what the commands
of `Command` print or set, completion, and `tui/permissions.py`, which nothing but tests calls. In
`Tools`: what pages, files and outputs say, reads, and calls refused before they do anything.

Left out whole, and why:

* The phases' prompts and refinements, the contracts and the blueprints are data: prompts, schemas
  and a static merge. What their verdicts decide is in `Pipeline` and `PhaseExec`.
* Security is pure predicates on paths, command lines and text, with no state and no order; examples
  in unit tests say more about string matching than a model that would have to spell the strings.
* Configuration is read once, before anything runs; its values are the constants of the modules.
* Preview starts the generated program for the user to look at; no other part waits for it or reads
  what it does. Diagnostics reads and reports; presentation is layout.
* The recorded and scripted providers and the evals run the program for its developers.

Seen, not made into runs:

* `phases/base.py:272` says a repair past the ceiling is what must not happen. The test only looks
  at a loop that ended for lack of budget: a loop that ended by itself on its dearest call, at or
  over the ceiling, is repaired all the same. `SpendBound` allows for it.
* `design.py:132` emits `blueprint_merged`, which `session.py:24` does not list. In a run the
  callback is `Session.log_event`, which raises `ValueError`; `_validate` takes that for a refused
  artifact, three times. The tests pass a callback of their own. Both kinds of event are data that
  `PhaseExec` does not tell apart.
* `run_build` calls `begin_phase` on every start, also of a resumed build, which moves the base on
  top of the interrupted build's turn commits (`phases/build.py:128`): they stay in the branch for
  good, although `workspace.py:183` keeps the base as a ref so that a resumed process can finish the
  phase it interrupted. `PassedIsOneCommit` is stated of the base as it is.
* NFR-OBS-02 (`docs/SRS.md:1310`) wants `seq` monotonic across the processes of a run. It is so
  within a session's returned events only (`NumbersIncrease`). A handler that interrupts a call
  between its write and its flush writes the higher number first; a number that was taken and never
  written, or torn, makes the next process, which counts readable lines, start behind it and repeat
  numbers; two processes on one run number alike.
* A commit the user makes on the branch during a build is a descendant of the base like the turn
  commits, and `commit_phase` squashes it with them (`workspace.py:210`); FR-WS-03 says Loom only
  rewrites history inside the labels it created. Their content is kept (`PassedIsOneCommit`).
* Rewinding back and forth returns the tree, not the history: the transcript is only ever cut
  (`replay.py:224`), although `replay.py:207` calls a rewind itself revertible.
* Rewind resets and cleans the tree with no look at uncommitted work. After an abort it destroys
  writes that are in no commit; it is documented as destructive.
* Labels are per repository: after a shorter second build, `turn-2` may be the first build's.
* The judge's provider is built without the budget guard (`cli.py:468`), so judge calls are outside
  the run's ceiling. It has no `on_event` either: its retries are not reported, and a model it
  prices from the fallback table first is never announced, because the once-per-process mark is
  set all the same (`providers.py:335`).
* A threshold of 0.0 is a valid design (`contracts.py:127`); a hard fail, which forces the total to
  0.0, reaches it. `PassIsWhole` is stated of a positive threshold.
* A judge call that fails is a grade of 0.0 like any other and is memoised: an overload of a moment
  sinks that criterion until the tree changes (`rubric.py:249`).
* Code the user edits while it is graded is stamped with the grade of the code before
  (`rubric.py:188`); `MemoIsHonest` excepts such rounds.
* The score kept is the last round's, not the best one's (`phases/build.py:170`).
* On a terminal every call streams, and a stream is never retried (`providers.py:433`), so
  FR-AGENT-08's retries are those of runs without one; and `_run` moves on after any failure,
  although its comment says only when a provider is down (`providers.py:457`).
* NFR-COST-04 asks for a ledger row also of calls that fail after their tokens were consumed; a
  broken stream, a cancelled call and a locked ledger leave none.
* Design gets the validation's risks only when Validate ran in the same process
  (`pipeline.py:473`); each process of a run has a ceiling of its own (`pipeline.py:210`).
* A phase that wrote an artifact, was rejected and then failed is missing from the report
  although its file is on disk (`pipeline.py:241`).
* A gate offers "edit" after every phase (`gates.py:141`). Editing the score after a build writes the
  file and then ends in a `KeyError` (`pipeline.py:507`), where FR-GATE-02 (`docs/SRS.md:877`) has an
  edit write the artifact and skip the re-run. `Pipeline` has the error as an end of the process.
* A turn's writes are committed when the next turn starts. An abort in between leaves a dirty tree,
  which `Workspace.open` (`workspace.py:116`) refuses to the resumed build, although FR-PIPE-03
  (`docs/SRS.md:727`) calls the state resumable. `BuildPhase` and `Repl` have the refusal.
* `DirtyWorkspace` is caught neither by `_run_phases` nor by `_repl_for`, which catch `typer.Exit`
  only: `/build` on a dirty tree ends the whole session with a traceback, although `cli.py:306` says a
  refused phase returns to the prompt. So do the `KeyError` above, end of input at a gate, a
  `PhaseError` in `/replay`, a Ctrl-C in `!`, in `/replay` or before `interruptible` is entered, and
  what a provider raises that is no `ProviderError`: `providers.py:537` and `:556` hand on the
  library's own exceptions, which neither `pipeline.py:249` nor `cli.py:593` names.
  In `Repl` these are `Raise("fg")`, `ReplayRaises` and `CtrlCInHandler`.
* Commands that are allowed while a run works may raise, and `dispatch`, `handle` and `Repl.run` catch
  nothing: `/status` and `/config` on a broken `config.toml` (`cli.py:392`, `repl.py:292`), `/rubric`
  on a broken `design.json`, a `#` note or `/model` that cannot write its file, a `!` that finds no
  shell. The session ends, and the background run, a daemon thread, ends with it (`HandlerRaises`).
* `/compact` of the run the prompt is on reads the transcript, summarises, and writes it back; a
  background build of that run that persists its own in between loses it. FR-SLASH-09
  (`docs/SRS.md:636`) says nothing silently corrupts a run. `QuietWhileRunning` states the exception.
* The gate of a background run calls `input()` on the terminal the prompt reads from: an empty line
  typed at the prompt may approve a phase (`gates.py:144`).
* The REPL reads its run id when it starts (`repl.py:213`) and not again: `/artifacts`, `/replay`,
  `/rewind` and `/phase` look at that run, or at none in a fresh project, while the actions behind
  them take the latest run (`cli.py:332`, `cli.py:371`). In a fresh project, after a first run, `/phase`
  offers phases again that this run has. `OfferHolds` is stated of the case where the two runs are the
  same.
* In that case too, `/phase` on a run without `validation.json` offers to run Validate first, or takes
  Validate itself, and gives it no idea (`cli.py:386`), which `validate.py:43` refuses: it always
  fails, where FR-SLASH-08 has it offer what is missing rather than fail. The cause is that of
  `interrupted_validate`, and `OfferHolds` leaves Validate out for it.
* After `/cd` the prompt looks into the new directory and acts in the old one: `/resume` of a run
  found there makes an empty run at home and fails, `/rewind` lists the labels of the one and resets
  the other; `/status` and `/cost` do not follow either, which `repl.py:317` says they do.
* Commands marked "queue" apply at once, while a run works too: `/compact` as above,
  `/effort` drops the session's overrides. `/model`, `/effort` and `/budget` say "applies from the
  next phase", but a run loads its configuration once (`cli.py:511`). Text typed while a run works is
  announced as sent on the next turn and dropped (`repl.py:160`). The mode of shift-tab changes only
  the hint; the list of `/add-dir` is read nowhere.
* `/run`, `/validate` and a bare `/background` start at Validate without an idea (`cli.py:386`), which
  it refuses.
* `ask_user` is capped at three questions per phase (FR-ASK-02, `docs/SRS.md:864`), and
  `AskUser.start_phase` resets the count; nothing but a test calls it (`ask_user.py:91`).
  `_run_phases` makes one `AskUser` for all phases and re-runs (`cli.py:588`), so the cap is one per
  process and Design may find none left. It passes no `prompt_fn` either: every question is answered
  with its default, also at a terminal (FR-ASK-01). The count is gone with the process: a phase that
  was interrupted and is resumed may ask three more, where FR-ASK-05 (`docs/SRS.md:870`) has answers
  survive and nothing asked again. `QuestionsBounded` is of one process.
* `fetch_url` notes a page before it converts it (`web.py:184`); one that `html_to_text` cannot take
  raises, and is refused afterwards because "its content is above in this conversation". `compact` may
  have cut a page to 200 characters since. `WordsHold` says only that it was downloaded.
* A Ctrl-C, or a kill, while a command runs leaves the command running, in a session of its own.
  `preview.py:117` looks up the group of a process that may be reaped the way `bash.py` does.
* A process killed between `mkstemp` and the rename of `atomic_write` leaves a temporary file, which
  the next snapshot commits.
* Feedback that repeats an earlier rejection word for word is served from the cache.
