------------------------------- MODULE Tools -------------------------------
(***************************************************************************)
(* The tools a model may call (src/loom/agent/tools): the questions to the *)
(* user, search and fetch in Validate, the shell and the files in Build,   *)
(* over the phases of a process, their re-runs and one process after the   *)
(* other.                                                                  *)
(*                                                                         *)
(* The agent loop waits for one tool at a time; grading starts all its     *)
(* commands together.  A command is its shell, which leads a session of    *)
(* its own, and at most one process that the shell started and that may    *)
(* outlive it.  What a command, a page or an answer says is left out, and  *)
(* so are reads and the calls that are refused before they do anything.    *)
(***************************************************************************)
EXTENDS Integers, FiniteSets

CONSTANTS
  Urls,       \* what fetch_url may be asked for
  Calls,      \* bound: run_bash calls, each made once
  Cap,        \* CAP, questions
  MaxStarts   \* bound: processes

ASSUME CapAssumption == Cap \in Nat /\ MaxStarts \in Nat

Phases  == {"validate", "plan", "design", "build"}
After   == [validate |-> "plan", plan |-> "design", design |-> "build"]

Silent  == [kind |-> "none"]
Replies == {"none", "answer", "capped", "results", "unavailable", "failed"}

VARIABLES
  phase,    \* the phase whose agent loop runs, "none" between processes
  starts,   \* processes so far
  asked,    \* AskUser.asked
  here,     \* history: the questions of this phase, its re-runs included
  fetched,  \* web_tools: the seen-set
  dead,     \* web_tools: the dead-search latch
  opened,   \* history: the pages downloaded in this conversation
  keyed,    \* TAVILY_API_KEY is set
  told,     \* history: this conversation was told not to search again
  reply,    \* the last result of ask_user, search_web or fetch_url
  call,     \* per call of run_bash, where it is or what it returned
  proc,     \* per call, the processes of its command
  tmp,      \* atomic_write: the file beside the target
  file      \* a file of the workspace

web   == <<fetched, dead, opened, told>>
toolsVars == <<phase, starts, asked, here, web, keyed, reply, call, proc, tmp,
               file>>

Procs == [shell : {"none", "up", "zombie", "reaped"},
          child : {"none", "up", "gone"},
          own   : BOOLEAN,     \* the child left the shell's group
          pipe  : BOOLEAN]     \* the child writes to the shell's output

ToolsTypeOK ==
  /\ phase \in Phases \cup {"none"} /\ starts \in 0..MaxStarts
  /\ asked \in 0..Cap /\ here \in Nat
  /\ fetched \subseteq Urls /\ opened \subseteq Urls
  /\ dead \in BOOLEAN /\ keyed \in BOOLEAN /\ told \in BOOLEAN
  /\ reply \in [kind : Replies] \cup [kind : {"page", "refused"}, url : Urls]
  /\ call \in [Calls -> {"free", "wait", "drain", "exit", "timeout", "cut"}]
  /\ proc \in [Calls -> Procs]
  /\ tmp \in {"none", "part", "written", "synced"}
  /\ file \in {"absent", "whole", "cached", "torn"}

-----------------------------------------------------------------------------
Waiting == {c \in Calls : call[c] \in {"wait", "drain"}}
Idle    == Waiting = {} /\ tmp = "none"

\* A conversation begins: web_tools() is called again, the AskUser is kept.
NewConversation ==
  /\ fetched' = {} /\ dead' = FALSE /\ opened' = {} /\ told' = FALSE
  /\ reply' = Silent

\* With the process goes its AskUser.
Forgotten == NewConversation /\ asked' = 0 /\ here' = 0

ToolsInit ==
  /\ phase = "none" /\ starts = 0 /\ asked = 0 /\ here = 0
  /\ fetched = {} /\ dead = FALSE /\ opened = {} /\ told = FALSE
  /\ keyed \in BOOLEAN /\ reply = Silent
  /\ call = [c \in Calls |-> "free"]
  /\ proc = [c \in Calls |-> [shell |-> "none", child |-> "none",
                              own |-> FALSE, pipe |-> FALSE]]
  /\ tmp = "none" /\ file = "absent"

(***************************************************************************)
(* The run around the tools.                                               *)
(***************************************************************************)
Start ==
  /\ phase = "none" /\ starts < MaxStarts
  /\ starts' = starts + 1 /\ phase' \in Phases
  /\ UNCHANGED <<asked, here, web, keyed, reply, call, proc, tmp, file>>

\* The gate lets the phase through.  Nobody calls start_phase.
NextPhase ==
  /\ phase \in DOMAIN After /\ Idle
  /\ phase' = After[phase] /\ here' = 0
  /\ NewConversation
  /\ UNCHANGED <<starts, asked, keyed, call, proc, tmp, file>>

\* Mutant: every attempt of a phase may ask afresh.
RejectedAsksAfresh ==
  /\ phase # "none" /\ Idle
  /\ NewConversation /\ asked' = 0
  /\ UNCHANGED <<phase, starts, here, keyed, call, proc, tmp, file>>

\* The gate sends it back.
Rejected ==
  /\ phase # "none" /\ Idle
  /\ NewConversation
  /\ UNCHANGED <<phase, starts, asked, here, keyed, call, proc, tmp, file>>

(***************************************************************************)
(* ask_user.  Every caller in the repository leaves prompt_fn out, so that *)
(* the answer is always the default.                                       *)
(***************************************************************************)
Ask ==
  /\ phase # "none" /\ Idle
  /\ IF asked >= Cap
       THEN reply' = [kind |-> "capped"] /\ UNCHANGED <<asked, here>>
       ELSE /\ asked' = asked + 1 /\ here' = here + 1
            /\ reply' = [kind |-> "answer"]
  /\ UNCHANGED <<phase, starts, web, keyed, call, proc, tmp, file>>

(***************************************************************************)
(* search_web.  The key is looked up once; the service may take it or not. *)
(***************************************************************************)
Searching ==
  /\ phase = "validate"
  /\ UNCHANGED <<phase, starts, asked, here, fetched, opened, keyed, call, proc,
                 tmp, file>>

\* The key is missing, or the service refuses it.
SearchRejected ==
  /\ Searching /\ ~dead
  /\ dead' = TRUE /\ told' = TRUE /\ reply' = [kind |-> "unavailable"]

SearchLatched ==
  /\ Searching /\ dead
  /\ told' = TRUE /\ reply' = [kind |-> "unavailable"]
  /\ UNCHANGED dead

\* Results, none, or an error that may pass.
SearchAnswered ==
  /\ Searching /\ keyed /\ ~dead
  /\ \E k \in {"results", "failed"} : reply' = [kind |-> k]
  /\ UNCHANGED <<dead, told>>

(***************************************************************************)
(* fetch_url.                                                              *)
(***************************************************************************)
Fetching ==
  /\ phase = "validate"
  /\ UNCHANGED <<phase, starts, asked, here, dead, told, keyed, call, proc, tmp,
                 file>>

FetchRefused ==
  /\ Fetching
  /\ \E u \in fetched : reply' = [kind |-> "refused", url |-> u]
  /\ UNCHANGED <<fetched, opened>>

\* Mutant: the page is noted before it is there.
FetchFailsNoted ==
  /\ Fetching
  /\ \E u \in Urls \ fetched : fetched' = fetched \cup {u}
  /\ reply' = [kind |-> "failed"]
  /\ UNCHANGED opened

\* Refused by _check_url, by the server, on a redirect, or an unknown charset.
FetchFails ==
  /\ Fetching /\ Urls \ fetched # {}
  /\ reply' = [kind |-> "failed"]
  /\ UNCHANGED <<fetched, opened>>

\* html_to_text may still raise on what it is given, the page noted.
FetchOpens ==
  /\ Fetching
  /\ \E u \in Urls \ fetched :
       /\ fetched' = fetched \cup {u} /\ opened' = opened \cup {u}
       /\ reply' \in {[kind |-> "page", url |-> u], [kind |-> "failed"]}

-----------------------------------------------------------------------------
(***************************************************************************)
(* run_bash: the command's processes.                                      *)
(***************************************************************************)
Rest == <<phase, starts, asked, here, web, keyed, reply, tmp, file>>

ShellSpawns(c) ==
  /\ proc[c].shell = "up" /\ proc[c].child = "none"
  /\ \E own, pipe \in BOOLEAN :
       proc' = [proc EXCEPT ![c].child = "up", ![c].own = own, ![c].pipe = pipe]
  /\ UNCHANGED <<call, Rest>>

ShellExits(c) ==
  /\ proc[c].shell = "up"
  /\ proc' = [proc EXCEPT ![c].shell = "zombie"]
  /\ UNCHANGED <<call, Rest>>

ChildExits(c) ==
  /\ proc[c].child = "up"
  /\ proc' = [proc EXCEPT ![c].child = "gone"]
  /\ UNCHANGED <<call, Rest>>

\* asyncio's child watcher waits for the shell.
Reap(c) ==
  /\ proc[c].shell = "zombie" /\ phase # "none"
  /\ proc' = [proc EXCEPT ![c].shell = "reaped"]
  /\ UNCHANGED <<call, Rest>>

(***************************************************************************)
(* run_bash: the call.  communicate() is over when the output is at its    *)
(* end, which is when nobody holds the pipe, and the shell is waited for.  *)
(***************************************************************************)
HoldsPipe(p) == p.shell = "up" \/ (p.child = "up" /\ p.pipe)

Communicated(p) == p.shell = "reaped" /\ ~HoldsPipe(p)

RunBash(c) ==
  /\ phase = "build" /\ call[c] = "free" /\ tmp = "none"
  /\ call' = [call EXCEPT ![c] = "wait"]
  /\ proc' = [proc EXCEPT ![c].shell = "up"]
  /\ UNCHANGED Rest

BashReturns(c) ==
  /\ call[c] = "wait" /\ Communicated(proc[c])
  /\ call' = [call EXCEPT ![c] = "exit"]
  /\ UNCHANGED <<proc, Rest>>

\* SIGKILL to the group that getpgid names, which is none once the shell has
\* been waited for.
KillGroup(p) ==
  IF p.shell = "reaped" THEN p
  ELSE [p EXCEPT !.shell = "zombie",
                 !.child = IF @ = "up" /\ ~p.own THEN "gone" ELSE @]

BashTimesOut(c) ==
  /\ call[c] = "wait"
  /\ call' = [call EXCEPT ![c] = "drain"]
  /\ proc' = [proc EXCEPT ![c] = KillGroup(@)]
  /\ UNCHANGED Rest

\* Mutant: what was started is waited for, however long it writes.
DrainToTheEnd(c) ==
  /\ call[c] = "drain" /\ Communicated(proc[c])
  /\ call' = [call EXCEPT ![c] = "timeout"]
  /\ UNCHANGED <<proc, Rest>>

\* The output, or after DRAIN_TIMEOUT none.
Drain(c) ==
  /\ call[c] = "drain"
  /\ call' = [call EXCEPT ![c] = "timeout"]
  /\ UNCHANGED <<proc, Rest>>

-----------------------------------------------------------------------------
(***************************************************************************)
(* write_file and str_replace: atomic_write.                               *)
(***************************************************************************)
Bystanders == <<phase, starts, asked, here, web, keyed, reply, call, proc>>

MakeTemp ==
  /\ phase = "build" /\ Idle
  /\ tmp' = "part"
  /\ UNCHANGED <<file, Bystanders>>

WriteTemp ==
  /\ tmp = "part" /\ tmp' = "written"
  /\ UNCHANGED <<file, Bystanders>>

FsyncTemp ==
  /\ tmp = "written" /\ tmp' = "synced"
  /\ UNCHANGED <<file, Bystanders>>

\* Mutant: renamed without fsync.
ReplaceUnsynced ==
  /\ tmp = "written"
  /\ file' = "cached" /\ tmp' = "none"
  /\ UNCHANGED Bystanders

Replace ==
  /\ tmp = "synced"
  /\ file' = "whole" /\ tmp' = "none"
  /\ UNCHANGED Bystanders

\* No room, no permission: the temporary file is removed.
WriteFails ==
  /\ tmp # "none" /\ tmp' = "none"
  /\ UNCHANGED <<file, Bystanders>>

-----------------------------------------------------------------------------
(***************************************************************************)
(* The process ends: done, Ctrl-C, a kill.  A command has a session of its *)
(* own, which no Ctrl-C reaches; at most its shell is killed when asyncio  *)
(* closes the pipe.  A temporary file a kill leaves is never used again.   *)
(* A power failure takes everything, and of a file what was never synced.  *)
(***************************************************************************)
ProcessEnds ==
  /\ phase # "none" /\ phase' = "none"
  /\ call' = [c \in Calls |-> IF c \in Waiting THEN "cut" ELSE call[c]]
  /\ \E S \in SUBSET Waiting :
       proc' = [c \in Calls |-> IF c \in S /\ proc[c].shell = "up"
                                  THEN [proc[c] EXCEPT !.shell = "zombie"]
                                  ELSE proc[c]]
  /\ tmp' = "none" /\ Forgotten
  /\ UNCHANGED <<starts, keyed, file>>

PowerFails ==
  /\ phase' = "none"
  /\ call' = [c \in Calls |-> IF c \in Waiting THEN "cut" ELSE call[c]]
  /\ proc' = [c \in Calls |->
                [proc[c] EXCEPT !.shell = IF @ = "none" THEN @ ELSE "reaped",
                                !.child = IF @ = "none" THEN @ ELSE "gone"]]
  /\ tmp' = "none" /\ Forgotten
  /\ file' = IF file = "cached" THEN "torn" ELSE file
  /\ UNCHANGED <<starts, keyed>>

-----------------------------------------------------------------------------
Bash(c) == BashReturns(c) \/ BashTimesOut(c) \/ Drain(c)

Command(c) == ShellSpawns(c) \/ ShellExits(c) \/ ChildExits(c) \/ Reap(c)

Research ==
  \/ SearchRejected \/ SearchLatched \/ SearchAnswered
  \/ FetchRefused \/ FetchFails \/ FetchOpens

Write == MakeTemp \/ WriteTemp \/ FsyncTemp \/ Replace \/ WriteFails

ToolsNext ==
  \/ Start \/ NextPhase \/ Rejected \/ Ask \/ Research
  \/ \E c \in Calls : RunBash(c) \/ Bash(c) \/ Command(c)
  \/ Write
  \/ ProcessEnds \/ PowerFails

\* The event loop goes on and its timers fire.  Nothing is assumed of commands:
\* they may run, and hold their output, for ever.
Fairness == \A c \in Calls : WF_toolsVars(Bash(c))

ToolsSpec == ToolsInit /\ [][ToolsNext]_toolsVars /\ Fairness

-----------------------------------------------------------------------------
(***************************************************************************)
(* Whatever a command does - it never ends, leaves its group, hands its    *)
(* output on - run_bash returns (FR-TOOL-05, "a timeout that fires").      *)
(***************************************************************************)
CallReturns ==
  \A c \in Calls : (call[c] = "wait") ~> (call[c] \notin {"wait", "drain"})

(***************************************************************************)
(* What the tools tell the model stays true for as long as it can read it: *)
(*  - after "do not call search_web again; it will keep failing" no search *)
(*    of the conversation succeeds, or the limitation the report then      *)
(*    admits to is none;                                                   *)
(*  - a page refused as already fetched was downloaded in this very        *)
(*    conversation, whatever failed before and however often the phase was *)
(*    sent back;                                                           *)
(*  - after "exit N" the shell has ended and nobody can add to the output, *)
(*    background processes of the command included.                        *)
(***************************************************************************)
WordsHold ==
  /\ told => reply.kind # "results"
  /\ reply.kind = "refused" => reply.url \in opened
  /\ \A c \in Calls :
       call[c] = "exit" => proc[c].shell = "reaped" /\ ~HoldsPipe(proc[c])

(***************************************************************************)
(* FR-ASK-02: one process asks at most Cap questions in a phase, re-runs   *)
(* after a rejection included, although the counter belongs to no phase.   *)
(* The count goes with the process: a phase that is interrupted and        *)
(* resumed may ask Cap more, which FR-ASK-05 (no question is asked again   *)
(* on resume) does not allow.                                              *)
(***************************************************************************)
QuestionsBounded == here <= Cap

(***************************************************************************)
(* FR-TOOL-03, "a partial write MUST be impossible": over failed writes,   *)
(* kills and power failures a file is the old one or the new one.          *)
(***************************************************************************)
FilesAreWhole == file # "torn"

-----------------------------------------------------------------------------
(***************************************************************************)
(* What the documents say and the code does not do (see README).           *)
(***************************************************************************)
\* FR-TOOL-05 and bash.py:95 "killed the process group": after a timeout nothing
\* is left of it.
TimeoutLeavesNoOrphan ==
  \A c \in Calls : call[c] = "timeout" => ~(proc[c].child = "up" /\ ~proc[c].own)
=============================================================================
