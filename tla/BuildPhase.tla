----------------------------- MODULE BuildPhase -----------------------------
(***************************************************************************)
(* run_build (src/loom/phases/build.py) over the git wrapper it works in   *)
(* (src/loom/workspace.py), the rewind of src/loom/replay.py, a user who   *)
(* edits and commits in the same tree, and a process that may die between  *)
(* any two git commands.                                                   *)
(*                                                                         *)
(* A tree is the set of the writes it contains; a commit keeps its tree    *)
(* and the commits that lead to it.  The agent loop is the one of module   *)
(* AgentLoop: here a reply runs tools, is graded, or ends the loop.  The   *)
(* index is kept apart from the tree: what is committed is what was staged *)
(* last, by a snapshot, by a round of grading or by the user.  Files git   *)
(* ignores, and everything under .loom/, are in no tree.                   *)
(***************************************************************************)
EXTENDS Integers, Sequences

CONSTANTS
  MaxTurns,     \* the argument max_turns
  MaxBuilds,    \* bound: how often a build is begun
  MaxUserActs   \* bound: edits, commits, rewinds and new runs of the user

ASSUME BuildAssumption ==
  MaxTurns \in Nat \ {0} /\ MaxBuilds \in Nat \ {0} /\ MaxUserActs \in Nat

Labels == 0..MaxTurns  \* 0 is "scaffold", k is "turn-k"
None   == 0            \* a ref that does not exist

\* What one turn of one build changed, or one edit of the user.
Wrote(b, k) == [by |-> "agent", build |-> b, turn |-> k]
Edited(n)   == [by |-> "user", build |-> n, turn |-> 0]
Marks == {Wrote(b, k) : b \in 1..MaxBuilds, k \in Labels} \cup
         {Edited(n) : n \in 1..MaxUserActs}

VARIABLES
  pc,       \* where run_build or rewind is; "idle" when neither runs
  build,    \* builds begun so far; the number of the current or last one
  turn, label, then,  \* _Snapshotter.turn and .label; where a snapshot returns to
  result,   \* LoopResult.status once the loop has ended
  outcome,  \* how the last call ended: "none", "passed", "unfinished", "aborted", "rewound"
  commit,   \* BuildResult.commit of the last build
  commits, head,            \* the repository: every commit, HEAD
  index, tree,              \* what is staged, and the working tree
  snap, base,               \* refs/loom/snap/<label> and refs/loom/base/build
  transcript,               \* runs/<id>/transcript.json of the latest run
  written,                  \* history: everything the agent ever wrote
  target,                   \* the label a rewind was asked for
  acts                      \* user actions so far

repo == <<commits, head, index, tree, snap, base>>
call == <<turn, label, then, result, commit>>
rest == <<transcript, target, written, acts>>
vars == <<pc, build, call, outcome, repo, rest>>

Busy == {"scaffold", "snap", "staged", "ref", "calling", "body", "grading", "close",
         "transcript", "score", "squash", "squashed"}

Commit == [kind : {"user", "snap", "phase"}, build : 0..MaxBuilds,
           past : SUBSET Nat, tree : SUBSET Marks]

TypeOK ==
  /\ pc \in Busy \cup {"idle", "trim"}
  /\ build \in 0..MaxBuilds /\ turn \in Labels /\ label \in Labels /\ target \in Labels
  /\ then \in {"calling", "body", "transcript"}
  /\ result \in {"none", "passed", "budget_exhausted", "stalled", "blocked"}
  /\ outcome \in {"none", "passed", "unfinished", "aborted", "rewound"}
  /\ commits \in Seq(Commit) /\ head \in 1..Len(commits)
  /\ base \in 0..Len(commits) /\ commit \in 0..Len(commits)
  /\ snap \in [Labels -> 0..Len(commits)]
  /\ index \subseteq Marks /\ tree \subseteq Marks /\ written \subseteq Marks
  /\ transcript \in [build : 0..MaxBuilds, turns : Labels]
  /\ acts \in 0..MaxUserActs

-----------------------------------------------------------------------------
(***************************************************************************)
(* The git wrapper.                                                        *)
(***************************************************************************)
TreeOf(c) == commits[c].tree
Past(c) == commits[c].past

\* git status --porcelain: HEAD against the index, the index against the tree.
Dirty == tree # index \/ index # TreeOf(head)

\* git commit --allow-empty on top of commit c, of what is staged by then.
CommitOn(c, kind, staged) ==
  LET new == Len(commits) + 1
  IN  /\ commits' = Append(commits, [kind |-> kind, build |-> build, tree |-> staged,
                                     past |-> Past(c) \cup {new}])
      /\ head' = new

\* The process dies, or an exception leaves run_build: what git has done stays.
Abort ==
  /\ pc \in Busy \cup {"trim"}
  /\ pc' = "idle" /\ outcome' = "aborted"
  /\ UNCHANGED <<build, call, repo, rest>>

-----------------------------------------------------------------------------
(***************************************************************************)
(* run_build, up to the agent's first turn.                                *)
(***************************************************************************)
\* Workspace.open refuses a dirty tree; begin_phase moves the phase base to HEAD,
\* wherever an earlier, interrupted build had put it.
Begin ==
  /\ pc = "idle" /\ build < MaxBuilds
  /\ ~Dirty
  /\ build' = build + 1
  /\ base' = head
  /\ turn' = 0 /\ label' = 0 /\ then' = "calling"
  /\ result' = "none" /\ outcome' = "none" /\ commit' = None
  /\ pc' = "scaffold"
  /\ UNCHANGED <<commits, head, index, tree, snap, transcript, written, target, acts>>

\* What the agent, the scaffold or a graded test run leaves in the tree, if anything.
Writes ==
  \/ UNCHANGED <<tree, written>>
  \/ tree' = tree \cup {Wrote(build, turn)} /\ written' = written \cup {Wrote(build, turn)}

Scaffold ==
  /\ pc = "scaffold"
  /\ Writes
  /\ pc' = "snap"
  /\ UNCHANGED <<build, call, outcome, commits, head, index, snap, base, transcript, target,
                 acts>>

\* Workspace.snapshot: git add -A, the commit, and the label.
SnapAdd ==
  /\ pc = "snap"
  /\ index' = tree
  /\ pc' = "staged"
  /\ UNCHANGED <<build, call, outcome, commits, head, tree, snap, base, rest>>

SnapCommit ==
  /\ pc = "staged"
  /\ CommitOn(head, "snap", index)
  /\ pc' = "ref"
  /\ UNCHANGED <<build, call, outcome, index, tree, snap, base, rest>>

\* Mutant: the label of the turn that begins, not of the one that ended.
SnapRefNextTurn ==
  /\ pc = "ref"
  /\ LET k == IF then = "body" THEN turn + 1 ELSE turn
     IN  snap' = [snap EXCEPT ![k] = head] /\ label' = k
  /\ turn' = IF then = "body" THEN turn + 1 ELSE turn
  /\ pc' = then
  /\ UNCHANGED <<build, then, result, commit, outcome, commits, head, index, tree, base, rest>>

SnapRef ==
  /\ pc = "ref"
  /\ snap' = [snap EXCEPT ![turn] = head] /\ label' = turn
  /\ turn' = IF then = "body" THEN turn + 1 ELSE turn
  /\ pc' = then
  /\ UNCHANGED <<build, then, result, commit, outcome, commits, head, index, tree, base, rest>>

-----------------------------------------------------------------------------
(***************************************************************************)
(* The agent loop, seen through the events the snapshotter hears.          *)
(***************************************************************************)
\* The provider answers, and the "turn" event is emitted before the answer is acted
\* on: turn N is snapshotted when turn N + 1 begins.
Reply ==
  /\ pc = "calling" /\ turn < MaxTurns
  /\ IF turn > 0 THEN pc' = "snap" /\ UNCHANGED turn
                 ELSE pc' = "body" /\ turn' = turn + 1
  /\ then' = "body"
  /\ UNCHANGED <<build, label, result, commit, outcome, repo, rest>>

Exhausted ==
  /\ pc = "calling"
  /\ result' = "budget_exhausted" /\ pc' = "close"
  /\ UNCHANGED <<build, turn, label, then, commit, outcome, repo, rest>>

RunTools ==
  /\ pc = "body"
  /\ Writes
  /\ pc' = "calling"
  /\ UNCHANGED <<build, call, outcome, commits, head, index, snap, base, transcript, target,
                 acts>>

\* tree_hash, before a round: git add -A.
GradeBegins ==
  /\ pc = "body"
  /\ index' = tree
  /\ pc' = "grading"
  /\ UNCHANGED <<build, call, outcome, commits, head, tree, snap, base, rest>>

\* And after it, with what the commands left.  A grade below the threshold that is no
\* stall sends the loop on.
Grade ==
  /\ pc = "grading"
  /\ Writes
  /\ index' = tree'
  /\ \/ pc' = "calling" /\ UNCHANGED result
     \/ pc' = "close" /\ result' \in {"passed", "stalled"}
  /\ UNCHANGED <<build, turn, label, then, commit, outcome, commits, head, snap, base,
                 transcript, target, acts>>

SayNothing ==
  /\ pc = "body"
  /\ result' = "blocked" /\ pc' = "close"
  /\ UNCHANGED <<build, turn, label, then, commit, outcome, repo, rest>>

-----------------------------------------------------------------------------
(***************************************************************************)
(* run_build, after the loop.                                              *)
(***************************************************************************)
\* Mutant: the last turn is left to the squash.
CloseEarly ==
  /\ pc = "close"
  /\ pc' = "transcript" /\ then' = "transcript"
  /\ UNCHANGED <<build, turn, label, result, commit, outcome, repo, rest>>

Close ==
  /\ pc = "close"
  /\ pc' = IF turn > 0 THEN "snap" ELSE "transcript"
  /\ then' = "transcript"
  /\ UNCHANGED <<build, turn, label, result, commit, outcome, repo, rest>>

PersistTranscript ==
  /\ pc = "transcript"
  /\ transcript' = [build |-> build, turns |-> turn]
  /\ pc' = "score"
  /\ UNCHANGED <<build, call, outcome, repo, target, written, acts>>

\* The score goes to .loom/artifacts, which is in no tree.
PersistScore ==
  /\ pc = "score"
  /\ IF result = "passed" THEN pc' = "squash" /\ UNCHANGED outcome
                          ELSE pc' = "idle" /\ outcome' = "unfinished"
  /\ UNCHANGED <<build, call, repo, rest>>

\* Mutant: git reset without --soft, which unstages the build's work.
MixedReset ==
  /\ pc = "squash"
  /\ base \in Past(head)
  /\ head' = base /\ index' = TreeOf(base)
  /\ pc' = "squashed"
  /\ UNCHANGED <<build, call, outcome, commits, tree, snap, base, rest>>

\* commit_phase: git reset --soft to the base, if HEAD descends from it.
SoftReset ==
  /\ pc = "squash"
  /\ base \in Past(head)
  /\ head' = base
  /\ pc' = "squashed"
  /\ UNCHANGED <<build, call, outcome, commits, index, tree, snap, base, rest>>

\* Nothing is staged for it: an edit of the user since the last snapshot stays out.
CommitPhase ==
  /\ pc = "squashed"
  /\ CommitOn(head, "phase", index)
  /\ commit' = Len(commits) + 1
  /\ pc' = "idle" /\ outcome' = "passed"
  /\ UNCHANGED <<build, turn, label, then, result, index, tree, snap, base, rest>>

-----------------------------------------------------------------------------
(***************************************************************************)
(* /rewind, which the REPL refuses while a phase runs, and the user.       *)
(***************************************************************************)
\* reset_to: git reset --hard and git clean, with no look at what is uncommitted.
RewindReset ==
  /\ pc = "idle"
  /\ acts < MaxUserActs /\ acts' = acts + 1
  /\ \E k \in Labels :
       /\ snap[k] # None
       /\ head' = snap[k] /\ index' = TreeOf(snap[k]) /\ tree' = TreeOf(snap[k])
       /\ target' = k
  /\ pc' = "trim"
  /\ UNCHANGED <<build, call, outcome, commits, snap, base, transcript, written>>

\* truncate_transcript cuts the latest run's transcript, whichever build wrote it.
RewindTrim ==
  /\ pc = "trim"
  /\ transcript' = [transcript EXCEPT !.turns = IF target < @ THEN target ELSE @]
  /\ pc' = "idle" /\ outcome' = "rewound" /\ target' = 0
  /\ UNCHANGED <<build, call, repo, written, acts>>

UserEdits ==
  /\ acts < MaxUserActs /\ acts' = acts + 1
  /\ tree' = tree \cup {Edited(acts + 1)}
  /\ UNCHANGED <<pc, build, call, outcome, commits, head, index, snap, base, transcript, target,
                 written>>

\* He stages and commits all there is, on the branch the build is on.
UserCommits ==
  /\ acts < MaxUserActs /\ acts' = acts + 1
  /\ Dirty
  /\ index' = tree
  /\ CommitOn(head, "user", tree)
  /\ UNCHANGED <<pc, build, call, outcome, tree, snap, base, transcript, target, written>>

\* Another idea in the same directory: a run with no transcript and no score yet.
NewRun ==
  /\ pc = "idle"
  /\ acts < MaxUserActs /\ acts' = acts + 1
  /\ transcript' = [build |-> 0, turns |-> 0]
  /\ UNCHANGED <<pc, build, call, outcome, repo, target, written>>

Init ==
  /\ pc = "idle" /\ build = 0 /\ turn = 0 /\ label = 0 /\ then = "calling"
  /\ result = "none" /\ outcome = "none" /\ commit = None
  /\ commits = <<[kind |-> "user", build |-> 0, past |-> {1}, tree |-> {}]>>
  /\ head = 1 /\ index = {} /\ tree = {} /\ snap = [k \in Labels |-> None] /\ base = None
  /\ transcript = [build |-> 0, turns |-> 0]
  /\ target = 0 /\ written = {} /\ acts = 0

BuildStep ==
  \/ Scaffold \/ SnapAdd \/ SnapCommit \/ SnapRef
  \/ Reply \/ Exhausted \/ RunTools \/ GradeBegins \/ Grade \/ SayNothing
  \/ Close \/ PersistTranscript \/ PersistScore \/ SoftReset \/ CommitPhase

UserStep == Begin \/ RewindReset \/ UserEdits \/ UserCommits \/ NewRun

Next == BuildStep \/ RewindTrim \/ Abort \/ UserStep

Spec == Init /\ [][Next]_vars

-----------------------------------------------------------------------------
MarksOf(b) == {m \in written : m.by = "agent" /\ m.build = b}

\* Snapshot k of the current build holds what its turns wrote up to k, and no more.
Holds(k) ==
  /\ snap[k] # None
  /\ {m \in TreeOf(snap[k]) : m.by = "agent" /\ m.build = build}
       = {m \in MarksOf(build) : m.turn <= k}

\* Whatever the agent did on turn N, the tree as every turn before N left it can be
\* had back: also after an abort between any two git commands, and after a squash.
TurnsAreRevertible ==
  \A m \in MarksOf(build) : \A k \in 0..(m.turn - 1) : Holds(k)

\* A build that ends without passing leaves a label that holds all of its work, and a
\* tree with nothing of its own uncommitted.
LabelIsResumable ==
  outcome = "unfinished" => Holds(label) /\ MarksOf(build) \subseteq TreeOf(snap[label])

\* A build that passes is one commit on top of where it began: all of its work is in it
\* although nothing is staged for it, none of its turn commits is behind it, and what the
\* user committed on the branch meanwhile, whose commits go with the turn commits, is in it.
PassedIsOneCommit ==
  commit # None =>
    /\ MarksOf(build) \subseteq TreeOf(commit)
    /\ base \in Past(commit)
    /\ \A c \in Past(commit) : commits[c].kind = "snap" => commits[c].build # build
    /\ \A c \in 1..commit : commits[c].build = build => TreeOf(c) \subseteq TreeOf(commit)
=============================================================================
