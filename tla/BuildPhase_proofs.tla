-------------------------- MODULE BuildPhase_proofs --------------------------
(***************************************************************************)
(* Theorems about run_build over git, for any number of turns, builds and  *)
(* user actions.  The invariant has five parts: where the snapshotter is,  *)
(* whose writes are in which tree, what the labels hold, how commits       *)
(* follow one another, and what is staged.                                 *)
(***************************************************************************)
EXTENDS BuildPhase, SequenceTheorems, TLAPS

Control ==
  /\ pc \in Busy => build >= 1 /\ commit = None /\ outcome = "none" /\ base # None
  /\ pc = "scaffold" => turn = 0 /\ then = "calling"
  /\ pc \in {"body", "grading"} => turn >= 1
  /\ pc \in {"snap", "staged", "ref"} =>
       \/ then = "calling" /\ turn = 0
       \/ then = "body" /\ turn < MaxTurns
       \/ then = "transcript"
  /\ commit # None => base # None

\* What the agent wrote, and where it can be.
Writing ==
  /\ \A m \in written : m.by = "agent" /\ m.build <= build /\ (m.build = build => m.turn <= turn)
  /\ pc \in Busy => MarksOf(build) \subseteq tree
  /\ \A m \in tree : m.by = "agent" => m \in written
  /\ \A c \in 1..Len(commits) : \A m \in TreeOf(c) : m.by = "agent" => m \in written

\* Every turn that is over has its label.
Labelled ==
  /\ \A k \in Labels : k < turn => Holds(k)
  /\ pc = "ref" => MarksOf(build) \subseteq TreeOf(head)
  /\ pc \in {"calling", "close"} /\ turn = 0 => label = 0 /\ Holds(0)
  /\ pc \in {"transcript", "score", "squash", "squashed"} \/ outcome = "unfinished"
       => label = turn /\ Holds(turn)

\* No turn commit of the current build is behind commit c.
NoTurnCommits(c) == \A d \in Past(c) : commits[d].kind = "snap" => commits[d].build < build

History ==
  /\ \A c \in 1..Len(commits) :
       c \in Past(c) /\ Past(c) \subseteq 1..Len(commits) /\ commits[c].build <= build
  /\ base # None => NoTurnCommits(base)
  /\ pc = "squashed" => base \in Past(head) /\ NoTurnCommits(head)
  /\ commit # None => /\ MarksOf(build) \subseteq TreeOf(commit)
                      /\ base \in Past(commit) /\ NoTurnCommits(commit)

IInv == TypeOK /\ Control /\ Writing /\ Labelled /\ History

\* From the add of a snapshot to the next write everything of the build is staged, and
\* the index never loses what was committed during the build.
StagedAt == {"staged", "ref", "transcript", "score", "squash", "squashed"}

Staging ==
  /\ index \subseteq tree
  /\ pc \in StagedAt \/ (pc \in {"calling", "close"} /\ turn = 0) => MarksOf(build) \subseteq index
  /\ pc \in Busy => \A c \in 1..Len(commits) : commits[c].build = build => TreeOf(c) \subseteq index
  /\ commit # None => \A c \in 1..commit : commits[c].build = build => TreeOf(c) \subseteq TreeOf(commit)

-----------------------------------------------------------------------------
(* The types a step needs, one by one. *)

LEMMA Types ==
  ASSUME TypeOK
  PROVE  /\ turn \in Nat /\ turn <= MaxTurns /\ MaxTurns \in Nat
         /\ build \in Nat /\ MaxBuilds \in Nat /\ acts \in Nat
         /\ Len(commits) \in Nat
         /\ \A k \in Labels : k \in Nat /\ (snap[k] # None => snap[k] \in 1..Len(commits))
         /\ base # None => base \in 1..Len(commits)
         /\ commit # None => commit \in 1..Len(commits)
<1>1. commits \in Seq(Commit) /\ snap \in [Labels -> 0..Len(commits)]
  BY DEF TypeOK
<1>2. Len(commits) \in Nat
  BY <1>1
<1>3. /\ turn \in Nat /\ turn <= MaxTurns /\ MaxTurns \in Nat
      /\ build \in Nat /\ MaxBuilds \in Nat /\ acts \in Nat
  BY BuildAssumption DEF TypeOK, Labels
<1>4. ASSUME NEW k \in Labels
      PROVE  k \in Nat /\ (snap[k] # None => snap[k] \in 1..Len(commits))
  BY <1>1, <1>2, BuildAssumption DEF Labels, None
<1>5. /\ base # None => base \in 1..Len(commits)
      /\ commit # None => commit \in 1..Len(commits)
  BY <1>2 DEF TypeOK, None
<1> QED BY <1>2, <1>3, <1>4, <1>5

(* A commit is marked with the build it was made in, a number. *)

LEMMA CommitBuilds ==
  ASSUME TypeOK
  PROVE  build \in Nat /\ \A c \in 1..Len(commits) : commits[c].build \in Nat
<1>1. commits \in Seq(Commit) /\ build \in 0..MaxBuilds
  BY DEF TypeOK
<1>2. ASSUME NEW c \in 1..Len(commits) PROVE commits[c].build \in Nat
  <2>1. commits[c] \in Commit
    BY <1>1
  <2>2. commits[c].build \in 0..MaxBuilds
    BY <2>1 DEF Commit
  <2> QED BY <2>2, BuildAssumption
<1> QED BY <1>1, <1>2, BuildAssumption

(* What a git commit changes. *)

LEMMA CommitFacts ==
  ASSUME TypeOK, NEW c \in 1..Len(commits), NEW kind \in {"user", "snap", "phase"},
         NEW staged \in SUBSET Marks, CommitOn(c, kind, staged)
  PROVE  /\ commits' \in Seq(Commit)
         /\ Len(commits') = Len(commits) + 1 /\ Len(commits) \in Nat
         /\ \A d \in 1..Len(commits) : commits'[d] = commits[d]
         /\ commits'[Len(commits) + 1].kind = kind
         /\ commits'[Len(commits) + 1].build = build
         /\ commits'[Len(commits) + 1].tree = staged
         /\ commits'[Len(commits) + 1].past = Past(c) \cup {Len(commits) + 1}
         /\ head' = Len(commits) + 1
<1> DEFINE new == Len(commits) + 1
           record == [kind |-> kind, build |-> build, tree |-> staged, past |-> Past(c) \cup {new}]
<1>1. commits \in Seq(Commit) /\ commits' = Append(commits, record) /\ head' = new
  BY DEF TypeOK, Commit, CommitOn
<1>2. commits[c] \in Commit /\ Len(commits) \in Nat
  BY <1>1
<1>3. Past(c) \cup {new} \in SUBSET Nat
  BY <1>2 DEF Past, Commit
<1>4. record \in Commit
  BY <1>3 DEF TypeOK, Commit
<1> HIDE DEF record
<1>5. /\ commits' \in Seq(Commit) /\ Len(commits') = new
      /\ \A d \in 1..Len(commits) : commits'[d] = commits[d]
      /\ commits'[new] = record
  BY <1>1, <1>2, <1>4
<1> QED BY <1>1, <1>2, <1>5 DEF record

\* A label that holds a turn goes on holding it: commits are never changed, and what
\* is written later belongs to a later turn.
LEMMA HoldsStays ==
  ASSUME TypeOK, TypeOK', NEW k \in Labels, Holds(k),
         build' = build, snap'[k] = snap[k],
         \A d \in 1..Len(commits) : commits'[d] = commits[d],
         \/ written' = written
         \/ written' = written \cup {Wrote(build, turn)} /\ k < turn
  PROVE  Holds(k)'
<1>1. snap[k] \in 1..Len(commits)
  BY Types DEF Holds
<1>2. TreeOf(snap[k])' = TreeOf(snap[k])
  <2>1. commits'[snap[k]] = commits[snap[k]]
    BY <1>1
  <2> QED BY <2>1 DEF TreeOf
<1>3. {m \in MarksOf(build) : m.turn <= k}' = {m \in MarksOf(build) : m.turn <= k}
  <2>1. CASE written' = written
    BY <2>1 DEF MarksOf
  <2>2. CASE written' = written \cup {Wrote(build, turn)} /\ k < turn
    <3>1. turn \in Nat /\ k \in Nat /\ ~(turn <= k)
      BY <2>2, Types
    <3>2. Wrote(build, turn).turn = turn
      BY DEF Wrote
    <3>3. \A m : m \in written' /\ m.turn <= k => m \in written
      BY <2>2, <3>1, <3>2
    <3>4. written \subseteq written'
      BY <2>2
    <3> QED BY <3>3, <3>4 DEF MarksOf
  <2> QED BY <2>1, <2>2
<1> QED BY <1>1, <1>2, <1>3 DEF Holds

\* A commit that holds all of the build, and nothing the agent did not write, holds its turn.
LEMMA HoldsNow ==
  ASSUME TypeOK, Writing, NEW k \in Labels, snap[k] # None,
         MarksOf(build) \subseteq TreeOf(snap[k]), turn = k
  PROVE  Holds(k)
<1>1. snap[k] \in 1..Len(commits)
  BY Types
<1>2. \A m \in MarksOf(build) : m.by = "agent" /\ m.build = build /\ m.turn <= k
  BY DEF MarksOf, Writing
<1>3. \A m \in TreeOf(snap[k]) : m.by = "agent" /\ m.build = build => m \in MarksOf(build)
  BY <1>1 DEF MarksOf, Writing
<1> QED BY <1>2, <1>3 DEF Holds

-----------------------------------------------------------------------------
(* Steps that touch neither the repository nor what was written.           *)

Quiet ==
  \/ Reply \/ Exhausted \/ SayNothing \/ Close \/ PersistTranscript
  \/ PersistScore \/ Abort \/ NewRun \/ RewindTrim

LEMMA SameHolds ==
  ASSUME UNCHANGED <<build, commits, snap, written>>, NEW k \in Labels
  PROVE  Holds(k)' <=> Holds(k)
<1> QED BY DEF Holds, TreeOf, MarksOf

LEMMA QuietFrame ==
  ASSUME Quiet, turn \in Nat
  PROVE  /\ UNCHANGED <<build, commit, commits, head, index, tree, snap, base, written>>
         /\ pc' # "squashed" /\ (pc' \in Busy => pc \in Busy \/ pc' = pc)
         /\ turn' # turn => turn = 0 /\ turn' = 1 /\ pc = "calling"
         /\ turn' = turn \/ Reply
<1>1. CASE Reply \/ Exhausted \/ SayNothing
  <2>1. UNCHANGED <<build, commit, commits, head, index, tree, snap, base, written>>
    BY <1>1 DEF Reply, Exhausted, SayNothing, repo, rest
  <2>2. CASE Reply
    BY <2>1, <2>2 DEF Reply, Busy
  <2>3. CASE Exhausted \/ SayNothing
    BY <2>1, <2>3 DEF Exhausted, SayNothing, Busy
  <2> QED BY <1>1, <2>2, <2>3
<1>2. CASE Close \/ PersistTranscript \/ PersistScore
  BY <1>2 DEF Close, PersistTranscript, PersistScore, Busy, repo, rest, call
<1>3. CASE Abort \/ NewRun \/ RewindTrim
  BY <1>3 DEF Abort, NewRun, RewindTrim, Busy, repo, rest, call
<1> QED BY <1>1, <1>2, <1>3 DEF Quiet

LEMMA QuietKeeps ==
  ASSUME IInv, Quiet
  PROVE  IInv'
<1>1. /\ UNCHANGED <<build, commit, commits, head, index, tree, snap, base, written>>
      /\ pc' # "squashed" /\ (pc' \in Busy => pc \in Busy)
      /\ turn \in Nat /\ turn' \in Nat /\ turn' >= turn
  <2>1. TypeOK
    BY DEF IInv
  <2>2. pc' \in Busy => pc \in Busy
    BY DEF Quiet, Reply, Exhausted, SayNothing, Close, PersistTranscript, PersistScore,
       Abort, NewRun, RewindTrim, Busy
  <2> QED BY <2>1, <2>2, QuietFrame, Types
<1>2. TypeOK'
  <2>1. TypeOK
    BY DEF IInv
  <2>2. turn' \in Labels /\ label' \in Labels /\ target' \in Labels
    <3>1. CASE Reply
      <4>1. label' = label /\ target' = target /\ (turn' = turn \/ turn' = turn + 1) /\ turn < MaxTurns
        BY <3>1 DEF Reply, rest
      <4> QED BY <2>1, <4>1, BuildAssumption, SMTT(20) DEF TypeOK, Labels
    <3>2. CASE ~ Reply
      <4>1. label' = label /\ turn' = turn /\ (target' = target \/ target' = 0)
        BY <3>2 DEF Quiet, Exhausted, SayNothing, Close, PersistTranscript,
           PersistScore, Abort, NewRun, RewindTrim, call, rest
      <4> QED BY <2>1, <4>1, BuildAssumption, SMTT(20) DEF TypeOK, Labels
    <3> QED BY <3>1, <3>2
  <2>3. pc' \in Busy \cup {"idle", "trim"}
    BY <2>1 DEF Quiet, Reply, Exhausted, SayNothing, Close, PersistTranscript, PersistScore,
       Abort, NewRun, RewindTrim, TypeOK, Busy
  <2>4. /\ then' \in {"calling", "body", "transcript"}
        /\ result' \in {"none", "passed", "budget_exhausted", "stalled", "blocked"}
        /\ outcome' \in {"none", "passed", "unfinished", "aborted", "rewound"}
    BY <2>1 DEF Quiet, Reply, Exhausted, SayNothing, Close, PersistTranscript, PersistScore,
       Abort, NewRun, RewindTrim, TypeOK, call
  <2>5. transcript' \in [build : 0..MaxBuilds, turns : Labels]
    <3>1. CASE PersistTranscript
      BY <2>1, <3>1 DEF PersistTranscript, TypeOK
    <3>2. CASE NewRun
      BY <2>1, <3>2, BuildAssumption DEF NewRun, Labels
    <3>3. CASE RewindTrim
      <4>1. transcript.turns \in Labels /\ target \in Labels
        BY <2>1 DEF TypeOK
      <4>2. transcript' = [transcript EXCEPT !.turns = IF target < transcript.turns
                                                         THEN target ELSE transcript.turns]
        BY <3>3 DEF RewindTrim
      <4> QED BY <2>1, <4>1, <4>2 DEF TypeOK
    <3>4. CASE ~ (PersistTranscript \/ NewRun \/ RewindTrim)
      BY <2>1, <3>4 DEF Quiet, Reply, Exhausted, SayNothing, Close, PersistScore, Abort, TypeOK,
         rest
    <3> QED BY <3>1, <3>2, <3>3, <3>4
  <2>6. acts' \in 0..MaxUserActs
    <3>1. acts' = acts \/ (acts < MaxUserActs /\ acts' = acts + 1)
      BY DEF Quiet, Reply, Exhausted, SayNothing, Close, PersistTranscript,
         PersistScore, Abort, NewRun, RewindTrim, rest
    <3> QED BY <2>1, <3>1, BuildAssumption DEF TypeOK
  <2> QED BY <1>1, <2>1, <2>2, <2>3, <2>4, <2>5, <2>6 DEF TypeOK
<1>3. Control'
  <2>1. Control /\ turn \in Nat /\ turn <= MaxTurns /\ MaxTurns \in Nat
    BY Types DEF IInv
  <2>2. CASE Reply
    BY <1>1, <2>1, <2>2 DEF Reply, Control, Busy
  <2>3. CASE Exhausted \/ SayNothing \/ Close
    BY <1>1, <2>1, <2>3 DEF Exhausted, SayNothing, Close, Control, Busy
  <2>4. CASE PersistTranscript \/ PersistScore
    BY <1>1, <2>1, <2>4 DEF PersistTranscript, PersistScore, Control, Busy, call
  <2>5. CASE Abort \/ NewRun \/ RewindTrim
    BY <1>1, <2>1, <2>5 DEF Abort, NewRun, RewindTrim, Control, Busy, call
  <2> QED BY <2>2, <2>3, <2>4, <2>5 DEF Quiet
<1>4. Writing'
  <2>1. Writing /\ TypeOK
    BY DEF IInv
  <2>2. \A m \in written : m.by = "agent" /\ m.build <= build /\ (m.build = build => m.turn <= turn')
    <3>1. ASSUME NEW m \in written, m.build = build PROVE m.turn <= turn'
      <4>1. m.turn \in Nat /\ m.turn <= turn
        <5>1. m \in Marks
          BY <2>1 DEF TypeOK
        <5>2. m.turn \in Nat
          BY <5>1, BuildAssumption DEF Marks, Wrote, Edited, Labels
        <5> QED BY <2>1, <3>1, <5>2 DEF Writing
      <4> QED BY <1>1, <4>1
    <3> QED BY <2>1, <3>1 DEF Writing
  <2> QED BY <1>1, <2>1, <2>2 DEF Writing, MarksOf, TreeOf
<1>5. Labelled'
  <2>1. \A k \in Labels : Holds(k)' <=> Holds(k)
    BY <1>1, SameHolds
  <2>2. Labelled /\ Control /\ \A k \in Labels : k \in Nat
    BY Types DEF IInv
  <2>3. \A k \in Labels : k < turn' => Holds(k)
    <3>1. CASE turn' = turn
      BY <2>2, <3>1 DEF Labelled
    <3>2. CASE turn' # turn
      <4>1. turn = 0 /\ turn' = 1 /\ pc = "calling"
        BY <1>1, <3>2, QuietFrame
      <4>2. Holds(0)
        BY <2>2, <4>1 DEF Labelled
      <4>3. ASSUME NEW k \in Labels, k < turn' PROVE k = 0
        BY <2>2, <4>1, <4>3
      <4> QED BY <4>2, <4>3
    <3> QED BY <3>1, <3>2
  <2>4. 0 \in Labels /\ turn \in Labels
    BY BuildAssumption DEF Labels, IInv, TypeOK
  <2>5. pc' # "ref"
    BY DEF Quiet, Reply, Exhausted, SayNothing, Close, PersistTranscript, PersistScore,
       Abort, NewRun, RewindTrim
  <2>6. pc' \in {"calling", "close"} /\ turn' = 0 => label' = 0 /\ Holds(0)
    BY <2>2 DEF Labelled, Control, Quiet, Reply, Exhausted, SayNothing, Close,
       PersistTranscript, PersistScore, Abort, NewRun, RewindTrim
  <2>7. pc' \in {"transcript", "score", "squash", "squashed"} \/ outcome' = "unfinished"
          => label' = turn' /\ Holds(turn')
    <3>1. CASE Reply \/ Exhausted \/ SayNothing
      BY <2>2, <3>1 DEF Labelled, Control, Reply, Exhausted, SayNothing, Busy
    <3>2. CASE Close
      BY <1>1, <2>2, <3>2 DEF Labelled, Control, Close, Busy
    <3>3. CASE PersistTranscript \/ PersistScore
      BY <2>2, <3>3 DEF Labelled, Control, PersistTranscript, PersistScore, Busy, call
    <3>4. CASE Abort \/ NewRun \/ RewindTrim
      BY <2>2, <3>4 DEF Labelled, Control, Abort, NewRun, RewindTrim, Busy, call
    <3> QED BY <3>1, <3>2, <3>3, <3>4 DEF Quiet
  <2>8. turn' \in Labels
    BY <1>2 DEF TypeOK
  <2> QED BY <1>1, <2>1, <2>3, <2>4, <2>5, <2>6, <2>7, <2>8 DEF Labelled
<1>6. History'
  BY <1>1 DEF IInv, History, NoTurnCommits, Past, TreeOf, MarksOf
<1> QED BY <1>2, <1>3, <1>4, <1>5, <1>6 DEF IInv

-----------------------------------------------------------------------------
(* Steps that write into the tree. *)

LEMMA WriterFrame ==
  ASSUME IInv, Scaffold \/ RunTools \/ Grade
  PROVE  /\ UNCHANGED <<build, turn, label, then, commit, outcome, commits, head, snap, base,
                        transcript, target, acts>>
         /\ pc \in {"scaffold", "body", "grading"} /\ pc' \in {"snap", "calling", "close"}
         /\ pc = "scaffold" <=> pc' = "snap"
         /\ Writes /\ (index' = index \/ index' = tree')
         /\ result' \in {result, "passed", "stalled"}
         /\ Wrote(build, turn) \in Marks
<1>1. build \in 1..MaxBuilds /\ turn \in Labels
  <2>1. build \in 0..MaxBuilds /\ build >= 1 /\ turn \in Labels
    BY DEF IInv, TypeOK, Control, Scaffold, RunTools, Grade, Busy
  <2> QED BY <2>1
<1>2. Wrote(build, turn) \in Marks
  BY <1>1 DEF Marks
<1>3. CASE Scaffold
  BY <1>2, <1>3 DEF Scaffold, call
<1>4. CASE RunTools \/ Grade
  BY <1>2, <1>4 DEF RunTools, Grade, call
<1> QED BY <1>3, <1>4

LEMMA WriterKeeps ==
  ASSUME IInv, Scaffold \/ RunTools \/ Grade
  PROVE  IInv'
<1>1. /\ UNCHANGED <<build, turn, label, then, commit, outcome, commits, head, snap, base,
                     transcript, target, acts>>
      /\ pc \in {"scaffold", "body", "grading"} /\ pc' \in {"snap", "calling", "close"}
      /\ pc = "scaffold" <=> pc' = "snap"
      /\ result' \in {result, "passed", "stalled"}
      /\ index' = index \/ index' = tree'
  BY WriterFrame
<1> DEFINE w == Wrote(build, turn)
<1>2. /\ w \in Marks /\ w.by = "agent" /\ w.build = build /\ w.turn = turn
      /\ \/ tree' = tree /\ written' = written
         \/ tree' = tree \cup {w} /\ written' = written \cup {w}
  BY WriterFrame DEF Writes, Wrote
<1>3. TypeOK /\ Control /\ Writing /\ Labelled /\ History
  BY DEF IInv
<1> HIDE DEF w
<1>4. TypeOK'
  <2>1. tree' \subseteq Marks /\ index' \subseteq Marks /\ written' \subseteq Marks
    BY <1>1, <1>2, <1>3 DEF TypeOK
  <2> QED BY <1>1, <1>3, <2>1 DEF TypeOK, Busy
<1>5. Control'
  BY <1>1, <1>3 DEF Control, Busy
<1>6. Writing'
  <2>1. pc \in Busy
    BY <1>1 DEF Busy
  <2>2. turn \in Nat /\ build \in Nat
    BY <1>3, Types
  <2> QED BY <1>1, <1>2, <1>3, <2>1, <2>2 DEF Writing, MarksOf, TreeOf
<1>7. ASSUME NEW k \in Labels, k < turn PROVE Holds(k)'
  BY <1>1, <1>2, <1>3, <1>4, <1>7, HoldsStays DEF Labelled, w
<1>8. Labelled'
  <2>1. turn \in Nat /\ (pc \in {"body", "grading"} => turn # 0) /\ outcome # "unfinished"
    BY <1>1, <1>3, Types DEF Control, Busy
  <2> QED BY <1>1, <1>7, <2>1 DEF Labelled
<1>9. History'
  <2>1. commit = None
    BY <1>1, <1>3 DEF Control, Busy
  <2> QED BY <1>1, <1>3, <2>1 DEF History, NoTurnCommits, Past
<1> QED BY <1>4, <1>5, <1>6, <1>8, <1>9 DEF IInv

-----------------------------------------------------------------------------
(* Steps that only stage. *)

LEMMA StagerKeeps ==
  ASSUME IInv, SnapAdd \/ GradeBegins
  PROVE  IInv'
<1>1. /\ UNCHANGED <<build, turn, label, then, result, commit, outcome, commits, head, tree, snap,
                     base, transcript, target, written, acts>>
      /\ index' = tree
      /\ (pc = "snap" /\ pc' = "staged") \/ (pc = "body" /\ pc' = "grading")
  BY DEF SnapAdd, GradeBegins, call, rest
<1>2. TypeOK /\ Control /\ Writing /\ Labelled /\ History
  BY DEF IInv
<1>3. TypeOK'
  BY <1>1, <1>2 DEF TypeOK, Busy
<1>4. Control'
  BY <1>1, <1>2 DEF Control, Busy
<1>5. Writing'
  BY <1>1, <1>2 DEF Writing, Busy, MarksOf, TreeOf
<1>6. Labelled'
  <2>1. \A k \in Labels : Holds(k)' <=> Holds(k)
    BY <1>1, SameHolds
  <2>2. outcome # "unfinished"
    BY <1>1, <1>2 DEF Control, Busy
  <2> QED BY <1>1, <1>2, <2>1, <2>2 DEF Labelled
<1>7. History'
  BY <1>1, <1>2 DEF History, NoTurnCommits, Past, TreeOf, MarksOf
<1> QED BY <1>3, <1>4, <1>5, <1>6, <1>7 DEF IInv

-----------------------------------------------------------------------------
(* Steps that commit. *)

\* Whoever commits: what was true of the commits stays true, and the new one holds what is
\* staged, which is all of the build where it becomes a label or the phase's commit.
LEMMA CommitterKeeps ==
  ASSUME IInv, TypeOK', Control', NEW kind \in {"user", "snap", "phase"},
         NEW staged \in SUBSET Marks, CommitOn(head, kind, staged), staged \subseteq tree,
         pc' = "ref" \/ pc = "squashed" => MarksOf(build) \subseteq staged,
         UNCHANGED <<build, turn, label, snap, base, tree, written>>,
         outcome' = outcome \/ outcome' # "unfinished",
         pc' = pc \/ pc' \in {"ref", "idle"}, pc' \in Busy => pc \in Busy,
         pc = "squashed" => kind # "snap",
         commit' = commit \/ (commit' = head' /\ kind = "phase" /\ pc = "squashed")
  PROVE  IInv'
<1>1. TypeOK /\ Control /\ Writing /\ Labelled /\ History
  BY DEF IInv
<1>2. head \in 1..Len(commits) /\ Len(commits) \in Nat
  BY <1>1, Types DEF TypeOK
<1> PICK new \in Nat : new = Len(commits) + 1
  BY <1>2
<1>3. /\ Len(commits') = new /\ Len(commits) \in Nat
      /\ \A d \in 1..Len(commits) : commits'[d] = commits[d]
      /\ commits'[new].kind = kind /\ commits'[new].build = build
      /\ commits'[new].tree = staged /\ commits'[new].past = Past(head) \cup {new}
      /\ head' = new
  BY <1>1, <1>2, CommitFacts
<1>4. \A d \in 1..Len(commits) : Past(d)' = Past(d) /\ TreeOf(d)' = TreeOf(d)
  BY <1>3 DEF Past, TreeOf
<1>5. new \in Nat /\ 1..new = (1..Len(commits)) \cup {new}
  BY <1>3
<1>6. Past(new)' = Past(head) \cup {new} /\ TreeOf(new)' = staged
  BY <1>3 DEF Past, TreeOf
<1>7. Writing'
  <2>1. ASSUME NEW c \in 1..Len(commits'), NEW m \in TreeOf(c)', m.by = "agent"
        PROVE  m \in written
    BY <1>1, <1>3, <1>4, <1>5, <1>6, <2>1 DEF Writing
  <2>2. MarksOf(build)' = MarksOf(build)
    BY DEF MarksOf
  <2> QED BY <1>1, <2>1, <2>2 DEF Writing
<1>8. ASSUME NEW k \in Labels, Holds(k) PROVE Holds(k)'
  BY <1>1, <1>3, <1>8, HoldsStays
<1>9. Labelled'
  <2>1. turn \in Labels /\ 0 \in Labels
    BY <1>1, BuildAssumption DEF TypeOK, Labels
  <2>2. pc' = "ref" => (MarksOf(build) \subseteq TreeOf(head))'
    <3>1. MarksOf(build)' = MarksOf(build) /\ TreeOf(head)' = staged
      BY <1>3, <1>6 DEF MarksOf, TreeOf
    <3> QED BY <3>1
  <2> QED BY <1>1, <1>8, <2>1, <2>2 DEF Labelled
<1>10. ASSUME NEW c \in 1..Len(commits), NoTurnCommits(c) PROVE NoTurnCommits(c)'
  <2>1. Past(c) \subseteq 1..Len(commits)
    BY <1>1 DEF History
  <2> QED BY <1>3, <1>4, <1>10, <2>1 DEF NoTurnCommits
<1>11. pc = "squashed" => base \in Past(new)' /\ NoTurnCommits(new)'
  <2> SUFFICES ASSUME pc = "squashed"
               PROVE  base \in Past(new)' /\ NoTurnCommits(new)'
    OBVIOUS
  <2>1. base \in Past(head) /\ NoTurnCommits(head) /\ Past(head) \subseteq 1..Len(commits)
    BY <1>1, <1>2 DEF History
  <2>2. base \in Past(new)'
    BY <1>6, <2>1
  <2>3. ASSUME NEW d \in Past(new)', commits'[d].kind = "snap"
        PROVE  commits'[d].build < build
    <3>1. d \in Past(head)
      BY <1>3, <1>6, <2>3
    <3> QED BY <1>3, <2>1, <2>3, <3>1 DEF NoTurnCommits
  <2> QED BY <2>2, <2>3 DEF NoTurnCommits
<1>12. History'
  <2>1. ASSUME NEW c \in 1..Len(commits')
        PROVE  c \in Past(c)' /\ Past(c)' \subseteq 1..Len(commits') /\ commits'[c].build <= build
    <3>1. CASE c \in 1..Len(commits)
      BY <1>1, <1>3, <1>4, <1>5, <3>1 DEF History
    <3>2. CASE c = new
      <4>1. build <= build
        BY <1>1, Types
      <4>2. Past(head) \subseteq 1..Len(commits)
        BY <1>1, <1>2 DEF History
      <4> QED BY <1>3, <1>5, <1>6, <3>2, <4>1, <4>2
    <3> QED BY <1>3, <1>5, <3>1, <3>2
  <2>2. base # None => NoTurnCommits(base)'
    BY <1>1, <1>10, Types DEF History
  <2>3. pc' = "squashed" => (base \in Past(head) /\ NoTurnCommits(head))'
    BY <1>3, <1>11 DEF NoTurnCommits, Past
  <2>4. commit' # None => (/\ MarksOf(build) \subseteq TreeOf(commit)
                           /\ base \in Past(commit) /\ NoTurnCommits(commit))'
    <3>1. CASE commit' = commit /\ commit # None
      <4>1. commit \in 1..Len(commits)
        BY <1>1, <3>1, Types
      <4>2. TreeOf(commit)' = TreeOf(commit) /\ Past(commit)' = Past(commit)
        BY <1>3, <3>1, <4>1 DEF TreeOf, Past
      <4>3. NoTurnCommits(commit) => NoTurnCommits(commit)'
        <5>1. Past(commit) \subseteq 1..Len(commits)
          BY <1>1, <4>1 DEF History
        <5> QED BY <1>3, <4>2, <5>1 DEF NoTurnCommits
      <4> QED BY <1>1, <3>1, <4>2, <4>3 DEF History, MarksOf
    <3>2. CASE commit' = head' /\ pc = "squashed"
      <4>1. commit' = new /\ TreeOf(commit)' = staged /\ base \in Past(commit)'
        BY <1>3, <1>6, <1>11, <3>2 DEF TreeOf, Past
      <4>2. NoTurnCommits(commit)'
        BY <1>11, <3>2, <4>1 DEF NoTurnCommits, Past
      <4>3. MarksOf(build)' \subseteq staged
        BY <3>2 DEF MarksOf
      <4> QED BY <4>1, <4>2, <4>3
    <3> QED BY <3>1, <3>2
  <2> QED BY <2>1, <2>2, <2>3, <2>4 DEF History
<1> QED BY <1>1, <1>7, <1>9, <1>12 DEF IInv

LEMMA CommitTyped ==
  ASSUME TypeOK, NEW kind \in {"user", "snap", "phase"}, NEW staged \in SUBSET Marks,
         CommitOn(head, kind, staged)
  PROVE  /\ commits' \in Seq(Commit) /\ head' \in 1..Len(commits')
         /\ base \in 0..Len(commits') /\ commit \in 0..Len(commits')
         /\ snap \in [Labels -> 0..Len(commits')]
         /\ head' = Len(commits) + 1 /\ Len(commits) \in Nat
<1>1. head \in 1..Len(commits)
  BY DEF TypeOK
<1>2. /\ commits' \in Seq(Commit) /\ Len(commits') = Len(commits) + 1 /\ Len(commits) \in Nat
      /\ head' = Len(commits) + 1
  BY <1>1, CommitFacts
<1>3. /\ base \in 0..Len(commits) /\ commit \in 0..Len(commits)
      /\ snap \in [Labels -> 0..Len(commits)]
  BY DEF TypeOK
<1>4. 0..Len(commits) \subseteq 0..Len(commits')
  BY <1>2
<1> QED BY <1>2, <1>3, <1>4

LEMMA SnapCommitKeeps == IInv /\ Staging /\ SnapCommit => IInv'
<1> SUFFICES ASSUME IInv, Staging, SnapCommit PROVE IInv'
  OBVIOUS
<1>1. /\ CommitOn(head, "snap", index) /\ pc = "staged" /\ pc' = "ref"
      /\ UNCHANGED <<build, turn, label, then, result, commit, outcome, snap, base, index, tree,
                     transcript, target, written, acts>>
  BY DEF SnapCommit, call, rest
<1>2. /\ TypeOK /\ Control /\ index \in SUBSET Marks /\ index \subseteq tree
      /\ MarksOf(build) \subseteq index
  BY <1>1 DEF IInv, TypeOK, Staging, StagedAt
<1>3. TypeOK'
  BY <1>1, <1>2, CommitTyped DEF TypeOK, Busy
<1>4. Control'
  BY <1>1, <1>2 DEF Control, Busy
<1> QED BY <1>1, <1>2, <1>3, <1>4, CommitterKeeps DEF Busy

LEMMA CommitPhaseKeeps == IInv /\ Staging /\ CommitPhase => IInv'
<1> SUFFICES ASSUME IInv, Staging, CommitPhase PROVE IInv'
  OBVIOUS
<1>1. /\ CommitOn(head, "phase", index) /\ pc = "squashed" /\ pc' = "idle"
      /\ commit' = Len(commits) + 1 /\ outcome' = "passed"
      /\ UNCHANGED <<build, turn, label, then, result, snap, base, index, tree,
                     transcript, target, written, acts>>
  BY DEF CommitPhase, rest
<1>2. /\ TypeOK /\ Control /\ index \in SUBSET Marks /\ index \subseteq tree
      /\ MarksOf(build) \subseteq index
  BY <1>1 DEF IInv, TypeOK, Staging, StagedAt
<1>3. commit' = head' /\ commit' \in 0..Len(commits')
  BY <1>1, <1>2, CommitTyped
<1>4. TypeOK'
  BY <1>1, <1>2, <1>3, CommitTyped DEF TypeOK, Busy
<1>5. Control'
  BY <1>1, <1>2 DEF Control, Busy
<1> QED BY <1>1, <1>2, <1>3, <1>4, <1>5, CommitterKeeps DEF Busy

LEMMA UserCommitsKeeps == IInv /\ UserCommits => IInv'
<1> SUFFICES ASSUME IInv, UserCommits PROVE IInv'
  OBVIOUS
<1>1. /\ CommitOn(head, "user", tree) /\ index' = tree /\ acts < MaxUserActs /\ acts' = acts + 1
      /\ UNCHANGED <<pc, build, turn, label, then, result, commit, outcome, snap, base, tree,
                     transcript, target, written>>
  BY DEF UserCommits, call
<1>2. /\ TypeOK /\ Control /\ tree \in SUBSET Marks /\ pc' = pc /\ commit' = commit
      /\ pc \in Busy => MarksOf(build) \subseteq tree
  BY <1>1 DEF IInv, TypeOK, Writing
<1>3. acts' \in 0..MaxUserActs
  BY <1>1, <1>2, BuildAssumption DEF TypeOK
<1>4. TypeOK'
  BY <1>1, <1>2, <1>3, CommitTyped DEF TypeOK
<1>5. Control'
  BY <1>1, <1>2 DEF Control
<1> QED BY <1>1, <1>2, <1>4, <1>5, CommitterKeeps DEF Busy

-----------------------------------------------------------------------------
(* The label of a turn. *)

LEMMA SnapRefKeeps == IInv /\ SnapRef => IInv'
<1> SUFFICES ASSUME IInv, SnapRef PROVE IInv'
  OBVIOUS
<1>1. /\ pc = "ref" /\ pc' = then
      /\ snap' = [snap EXCEPT ![turn] = head] /\ label' = turn
      /\ turn' = IF then = "body" THEN turn + 1 ELSE turn
      /\ UNCHANGED <<build, then, result, commit, outcome, commits, head, index, tree, base,
                     transcript, target, written, acts>>
  BY DEF SnapRef, rest
<1>2. TypeOK /\ Control /\ Writing /\ Labelled /\ History
  BY DEF IInv
<1>3. /\ turn \in Labels /\ head \in 1..Len(commits) /\ Len(commits) \in Nat
      /\ turn \in Nat /\ turn <= MaxTurns /\ MaxTurns \in Nat
      /\ \A k \in Labels : k \in Nat
  BY <1>2, Types DEF TypeOK
<1>4. \/ then = "calling" /\ turn = 0
      \/ then = "body" /\ turn < MaxTurns
      \/ then = "transcript"
  <2>1. pc \in {"snap", "ref"}
    BY <1>1
  <2> QED BY <1>2, <2>1 DEF Control
<1>5. TypeOK'
  <2>1. turn' \in Labels
    BY <1>1, <1>3, <1>4 DEF Labels
  <2>2. snap' \in [Labels -> 0..Len(commits)]
    <3>1. snap \in [Labels -> 0..Len(commits)] /\ head \in 0..Len(commits)
      BY <1>2, <1>3 DEF TypeOK
    <3> QED BY <1>1, <3>1
  <2> QED BY <1>1, <1>2, <2>1, <2>2 DEF TypeOK, Busy
<1>6. Control'
  BY <1>1, <1>2, <1>3, <1>4 DEF Control, Busy
<1>7. Writing'
  <2>1. ASSUME NEW m \in written, m.build = build PROVE m.turn <= turn'
    <3>1. m \in Marks
      BY <1>2 DEF TypeOK
    <3>2. m.turn \in Nat /\ m.turn <= turn
      BY <1>2, <2>1, <3>1, BuildAssumption DEF Marks, Wrote, Edited, Labels, Writing
    <3> QED BY <1>1, <1>3, <3>2
  <2>2. pc \in Busy
    BY <1>1 DEF Busy
  <2> QED BY <1>1, <1>2, <2>1, <2>2 DEF Writing, MarksOf, TreeOf
<1> PICK t \in Labels : t = turn
  BY <1>3
<1>8. Holds(t)'
  <2>1. snap'[t] = head /\ snap'[t] # None
    BY <1>1, <1>2, <1>3 DEF TypeOK, None
  <2>2. TreeOf(snap[t])' = TreeOf(head) /\ MarksOf(build)' = MarksOf(build)
    BY <1>1, <2>1 DEF TreeOf, MarksOf
  <2>3. MarksOf(build) \subseteq TreeOf(head)
    BY <1>1, <1>2 DEF Labelled
  <2>4. \A m \in MarksOf(build) : m.by = "agent" /\ m.build = build /\ m.turn <= t
    BY <1>2 DEF MarksOf, Writing
  <2>5. \A m \in TreeOf(head) : m.by = "agent" /\ m.build = build => m \in MarksOf(build)
    BY <1>2, <1>3 DEF MarksOf, Writing
  <2>6. {m \in TreeOf(head) : m.by = "agent" /\ m.build = build}
          = {m \in MarksOf(build) : m.turn <= t}
    BY <2>3, <2>4, <2>5
  <2> QED BY <1>1, <2>1, <2>2, <2>6 DEF Holds
<1>9. ASSUME NEW k \in Labels, k < turn PROVE Holds(k)'
  <2>1. snap'[k] = snap[k] /\ Holds(k)
    BY <1>1, <1>2, <1>3, <1>9 DEF TypeOK, Labelled
  <2> QED BY <1>1, <1>2, <1>5, <2>1, HoldsStays
<1>10. Labelled'
  <2>1. outcome # "unfinished" /\ pc' # "ref"
    BY <1>1, <1>2, <1>4 DEF Control, Busy
  <2>2. ASSUME NEW k \in Labels, k < turn' PROVE Holds(k)'
    <3>1. k < turn \/ k = t
      BY <1>1, <1>3, <2>2
    <3> QED BY <1>8, <1>9, <3>1
  <2>3. pc' \in {"calling", "close"} /\ turn' = 0 => label' = 0 /\ Holds(0)'
    <3>1. pc' = "calling" => turn' = t
      BY <1>1
    <3>2. pc' # "close"
      BY <1>1, <1>4
    <3> QED BY <1>1, <1>8, <3>1, <3>2
  <2>4. pc' \in {"transcript", "score", "squash", "squashed"} => label' = t /\ turn' = t
    BY <1>1, <1>4
  <2> QED BY <1>1, <1>8, <2>1, <2>2, <2>3, <2>4 DEF Labelled
<1>11. History'
  BY <1>1, <1>2, <1>4 DEF History, NoTurnCommits, Past, TreeOf, MarksOf
<1> QED BY <1>5, <1>6, <1>7, <1>10, <1>11 DEF IInv

-----------------------------------------------------------------------------
(* Steps that move HEAD or the tree, and the begin of a build. *)

LEMMA SoftResetKeeps == IInv /\ SoftReset => IInv'
<1> SUFFICES ASSUME IInv, SoftReset PROVE IInv'
  OBVIOUS
<1>1. /\ pc = "squash" /\ pc' = "squashed" /\ head' = base
      /\ UNCHANGED <<build, turn, label, then, result, commit, outcome, commits, index, tree, snap, base,
                     transcript, target, written, acts>>
  BY DEF SoftReset, call, rest
<1>2. TypeOK /\ Control /\ Writing /\ Labelled /\ History
  BY DEF IInv
<1>3. base # None /\ base \in 1..Len(commits) /\ outcome = "none" /\ commit = None
  BY <1>1, <1>2, Types DEF Control, Busy
<1>4. TypeOK'
  BY <1>1, <1>2, <1>3 DEF TypeOK, Busy
<1>5. Control'
  BY <1>1, <1>2 DEF Control, Busy
<1>6. Writing'
  BY <1>1, <1>2 DEF Writing, Busy, MarksOf, TreeOf
<1>7. Labelled'
  <2>1. \A k \in Labels : Holds(k)' <=> Holds(k)
    BY <1>1, SameHolds
  <2>2. turn \in Labels
    BY <1>2 DEF TypeOK
  <2> QED BY <1>1, <1>2, <2>1, <2>2 DEF Labelled
<1>8. History'
  BY <1>1, <1>2, <1>3 DEF History, NoTurnCommits, Past
<1> QED BY <1>4, <1>5, <1>6, <1>7, <1>8 DEF IInv

LEMMA RewindResetKeeps == IInv /\ RewindReset => IInv'
<1> SUFFICES ASSUME IInv, RewindReset PROVE IInv'
  OBVIOUS
<1>1. /\ pc = "idle" /\ pc' = "trim" /\ acts < MaxUserActs /\ acts' = acts + 1
      /\ UNCHANGED <<build, turn, label, then, result, commit, outcome, commits, snap, base,
                     transcript, written>>
  BY DEF RewindReset, call
<1>2. PICK k \in Labels : /\ snap[k] # None /\ head' = snap[k] /\ target' = k
                               /\ index' = TreeOf(snap[k]) /\ tree' = TreeOf(snap[k])
  BY DEF RewindReset
<1>3. TypeOK /\ Control /\ Writing /\ Labelled /\ History
  BY DEF IInv
<1>4. snap[k] \in 1..Len(commits)
  BY <1>2, <1>3, Types
<1>5. TypeOK'
  <2>1. commits[snap[k]] \in Commit
    BY <1>3, <1>4 DEF TypeOK
  <2>2. tree' \subseteq Marks /\ index' \subseteq Marks
    BY <1>2, <2>1 DEF TreeOf, Commit
  <2>3. acts' \in 0..MaxUserActs
    BY <1>1, <1>3, BuildAssumption DEF TypeOK
  <2> QED BY <1>1, <1>2, <1>3, <1>4, <2>2, <2>3 DEF TypeOK
<1>6. Control'
  BY <1>1, <1>3 DEF Control, Busy
<1>7. Writing'
  BY <1>1, <1>2, <1>3, <1>4 DEF Writing, Busy, MarksOf, TreeOf
<1>8. Labelled'
  <2>1. \A j \in Labels : Holds(j)' <=> Holds(j)
    BY <1>1, SameHolds
  <2>2. turn \in Labels
    BY <1>3 DEF TypeOK
  <2> QED BY <1>1, <1>3, <2>1, <2>2 DEF Labelled
<1>9. History'
  BY <1>1, <1>3 DEF History, NoTurnCommits, Past, TreeOf, MarksOf
<1> QED BY <1>5, <1>6, <1>7, <1>8, <1>9 DEF IInv

LEMMA UserEditsKeeps == IInv /\ UserEdits => IInv'
<1> SUFFICES ASSUME IInv, UserEdits PROVE IInv'
  OBVIOUS
<1>1. /\ acts < MaxUserActs /\ acts' = acts + 1 /\ tree' = tree \cup {Edited(acts + 1)}
      /\ UNCHANGED <<pc, build, turn, label, then, result, commit, outcome, commits, head, index,
                     snap, base, transcript, target, written>>
  BY DEF UserEdits, call
<1>2. TypeOK /\ Control /\ Writing /\ Labelled /\ History
  BY DEF IInv
<1>3. acts + 1 \in 1..MaxUserActs
  BY <1>1, <1>2, BuildAssumption DEF TypeOK
<1>4. Edited(acts + 1) \in Marks /\ Edited(acts + 1).by # "agent"
  BY <1>3 DEF Marks, Edited
<1>5. TypeOK'
  <2>1. tree' \subseteq Marks /\ acts' \in 0..MaxUserActs
    BY <1>1, <1>2, <1>3, <1>4 DEF TypeOK
  <2> QED BY <1>1, <1>2, <2>1 DEF TypeOK
<1>6. Control'
  BY <1>1, <1>2 DEF Control
<1>7. Writing'
  BY <1>1, <1>2, <1>4 DEF Writing, MarksOf, TreeOf
<1>8. Labelled'
  <2>1. \A j \in Labels : Holds(j)' <=> Holds(j)
    BY <1>1, SameHolds
  <2>2. turn \in Labels /\ 0 \in Labels
    BY <1>2, BuildAssumption DEF TypeOK, Labels
  <2> QED BY <1>1, <1>2, <2>1, <2>2 DEF Labelled, TreeOf, MarksOf
<1>9. History'
  BY <1>1, <1>2 DEF History, NoTurnCommits, Past, TreeOf, MarksOf
<1> QED BY <1>5, <1>6, <1>7, <1>8, <1>9 DEF IInv

LEMMA BeginKeeps == IInv /\ Begin => IInv'
<1> SUFFICES ASSUME IInv, Begin PROVE IInv'
  OBVIOUS
<1>1. /\ pc = "idle" /\ pc' = "scaffold" /\ build < MaxBuilds /\ build' = build + 1 /\ base' = head
      /\ turn' = 0 /\ label' = 0 /\ then' = "calling" /\ result' = "none" /\ outcome' = "none"
      /\ commit' = None
      /\ UNCHANGED <<commits, head, index, tree, snap, transcript, target, written, acts>>
  BY DEF Begin, rest
<1>2. TypeOK /\ Control /\ Writing /\ Labelled /\ History
  BY DEF IInv
<1>3. /\ head \in 1..Len(commits) /\ Len(commits) \in Nat /\ build \in Nat /\ MaxBuilds \in Nat
      /\ head # None
  BY <1>2, Types DEF TypeOK, None
<1>4. TypeOK'
  <2>1. build' \in 0..MaxBuilds /\ 0 \in Labels /\ None \in 0..Len(commits)
    BY <1>1, <1>3, BuildAssumption DEF Labels, None
  <2> QED BY <1>1, <1>2, <1>3, <2>1 DEF TypeOK, Busy
<1>5. Control'
  BY <1>1, <1>3 DEF Control, Busy
<1>6. ASSUME NEW m \in written PROVE m.by = "agent" /\ m.build <= build /\ m.build \in Nat
  <2>1. m \in Marks
    BY <1>2 DEF TypeOK
  <2> QED BY <1>2, <2>1, BuildAssumption DEF Writing, Marks, Wrote, Edited
<1>7. Writing'
  <2>1. \A m \in written : m.build <= build' /\ m.build # build'
    BY <1>1, <1>3, <1>6
  <2>2. MarksOf(build)' = {}
    BY <1>1, <2>1 DEF MarksOf
  <2> QED BY <1>1, <1>2, <2>1, <2>2 DEF Writing, TreeOf
<1>8. Labelled'
  <2>1. \A k \in Labels : ~(k < 0)
    BY <1>2, Types
  <2> QED BY <1>1, <2>1 DEF Labelled
<1>9. History'
  <2>1. ASSUME NEW c \in 1..Len(commits) PROVE commits[c].build < build' /\ commits[c].build <= build'
    <3>1. commits[c].build \in Nat /\ build \in Nat
      BY <1>2, CommitBuilds
    <3>2. commits[c].build <= build
      BY <1>2 DEF History
    <3> QED BY <1>1, <1>3, <3>1, <3>2
  <2>2. Past(head) \subseteq 1..Len(commits)
    BY <1>2, <1>3 DEF History
  <2> QED BY <1>1, <1>2, <2>1, <2>2 DEF History, NoTurnCommits, Past
<1> QED BY <1>4, <1>5, <1>7, <1>8, <1>9 DEF IInv

-----------------------------------------------------------------------------
LEMMA InitHolds == Init => IInv
<1> SUFFICES ASSUME Init PROVE IInv
  OBVIOUS
<1> DEFINE first == [kind |-> "user", build |-> 0, past |-> {1}, tree |-> {}]
<1>1. first \in Commit
  BY BuildAssumption DEF Commit
<1>2. /\ commits = <<first>> /\ Len(commits) = 1 /\ commits[1] = first
      /\ commits \in Seq(Commit)
  BY <1>1 DEF Init
<1>3. 1..Len(commits) = {1}
  BY <1>2
<1>4. TypeOK
  BY <1>2, <1>3, BuildAssumption DEF Init, TypeOK, Labels, None, Busy
<1>5. Control
  BY DEF Init, Control, Busy
<1>6. Writing
  BY <1>2, <1>3 DEF Init, Writing, Busy, TreeOf
<1>7. Labelled
  BY <1>4, Types DEF Init, Labelled
<1>8. History
  BY <1>2, <1>3 DEF Init, History, Past
<1> QED BY <1>4, <1>5, <1>6, <1>7, <1>8 DEF IInv

LEMMA StepKeeps == IInv /\ Staging /\ [Next]_vars => IInv'
<1> SUFFICES ASSUME IInv, Staging, [Next]_vars PROVE IInv'
  OBVIOUS
<1>1. CASE Quiet
  BY <1>1, QuietKeeps
<1>2. CASE Scaffold \/ RunTools \/ Grade
  BY <1>2, WriterKeeps
<1>3. CASE SnapCommit \/ CommitPhase \/ UserCommits
  BY <1>3, SnapCommitKeeps, CommitPhaseKeeps, UserCommitsKeeps
<1>4. CASE SnapRef \/ SoftReset \/ RewindReset \/ UserEdits \/ Begin
  BY <1>4, SnapRefKeeps, SoftResetKeeps, RewindResetKeeps, UserEditsKeeps, BeginKeeps
<1>5. CASE UNCHANGED vars
  <2>1. UNCHANGED <<pc, build, turn, label, then, result, commit, outcome, commits, head,
                    index, tree, snap, base, transcript, target, written, acts>>
    BY <1>5 DEF vars, call, repo, rest
  <2>2. TypeOK' /\ Control' /\ Writing'
    BY <2>1 DEF IInv, TypeOK, Control, Writing, MarksOf, TreeOf
  <2>3. Labelled'
    BY <2>1 DEF IInv, Labelled, Holds, MarksOf, TreeOf
  <2>4. History'
    BY <2>1 DEF IInv, History, NoTurnCommits, Past, TreeOf, MarksOf
  <2> QED BY <2>2, <2>3, <2>4 DEF IInv
<1>6. CASE SnapAdd \/ GradeBegins
  BY <1>6, StagerKeeps
<1> QED BY <1>1, <1>2, <1>3, <1>4, <1>5, <1>6 DEF Next, BuildStep, UserStep, Quiet

-----------------------------------------------------------------------------
(* What is staged.  A commit of the build holds what was staged then or    *)
(* the whole tree, and the index only grows while the build runs.          *)

LEMMA StagingFrame ==
  ASSUME IInv, Staging, commits' = commits, build' = build, commit' = commit,
         written' = written, index' \subseteq tree',
         pc' \in Busy => pc \in Busy /\ index \subseteq index',
         pc' \in StagedAt \/ (pc' \in {"calling", "close"} /\ turn' = 0)
           => MarksOf(build) \subseteq index'
  PROVE  Staging'
<1> QED BY DEF Staging, TreeOf, MarksOf

LEMMA CommitStaged ==
  ASSUME IInv, Staging, NEW kind \in {"user", "snap", "phase"},
         NEW staged \in SUBSET Marks, CommitOn(head, kind, staged),
         index \subseteq staged, staged \subseteq index', index' \subseteq tree',
         UNCHANGED <<build, written, turn>>, pc' = pc \/ pc' \in {"ref", "idle"},
         pc' = "ref" => pc \in {"staged", "ref"}, pc' \in Busy => pc \in Busy,
         commit' = commit \/ (pc = "squashed" /\ commit' = head')
  PROVE  Staging'
<1>1. TypeOK /\ Control /\ History
  BY DEF IInv
<1>2. head \in 1..Len(commits) /\ Len(commits) \in Nat
  BY <1>1, Types DEF TypeOK
<1> PICK new \in Nat : new = Len(commits) + 1
  BY <1>2
<1>3. /\ Len(commits') = new /\ head' = new
      /\ \A d \in 1..Len(commits) : commits'[d] = commits[d]
      /\ commits'[new].tree = staged
  BY <1>1, <1>2, CommitFacts
<1>4. 1..new = (1..Len(commits)) \cup {new} /\ new \notin 1..Len(commits)
  BY <1>2
<1>5. /\ \A d \in 1..Len(commits) : TreeOf(d)' = TreeOf(d)
      /\ TreeOf(new)' = staged /\ MarksOf(build)' = MarksOf(build)
  BY <1>3 DEF TreeOf, MarksOf
<1>6. index \subseteq index'
  OBVIOUS
<1>7. (pc' \in StagedAt \/ (pc' \in {"calling", "close"} /\ turn' = 0))
        => MarksOf(build)' \subseteq index'
  BY <1>5, <1>6 DEF Staging, StagedAt
<1>8. pc' \in Busy =>
        \A c \in 1..Len(commits') : commits'[c].build = build' => TreeOf(c)' \subseteq index'
  BY <1>3, <1>4, <1>5, <1>6 DEF Staging
<1>9. commit' # None =>
        \A c \in 1..commit' : commits'[c].build = build' => TreeOf(c)' \subseteq TreeOf(commit)'
  <2>1. CASE pc = "squashed" /\ commit' = head'
    <3>1. TreeOf(commit)' = staged /\ commit' = new /\ pc \in Busy
      BY <1>3, <2>1 DEF TreeOf, Busy
    <3> QED BY <1>3, <1>4, <1>5, <3>1 DEF Staging
  <2>2. CASE commit' = commit /\ commit # None
    <3>1. commit \in 1..Len(commits)
      BY <1>1, <2>2, Types
    <3>2. 1..commit \subseteq 1..Len(commits)
      BY <1>2, <3>1
    <3>3. TreeOf(commit)' = TreeOf(commit)
      BY <1>3, <2>2, <3>1 DEF TreeOf
    <3> QED BY <1>3, <1>5, <2>2, <3>2, <3>3 DEF Staging
  <2> QED BY <2>1, <2>2
<1> QED BY <1>7, <1>8, <1>9 DEF Staging

LEMMA StagingStep == IInv /\ Staging /\ [Next]_vars => Staging'
<1> SUFFICES ASSUME IInv, Staging, [Next]_vars PROVE Staging'
  OBVIOUS
<1>0. /\ TypeOK /\ Control /\ Writing /\ index \subseteq tree
      /\ tree \in SUBSET Marks /\ index \in SUBSET Marks /\ turn \in Nat
  <2>1. TypeOK
    BY DEF IInv
  <2> QED BY <2>1, Types DEF IInv, Staging, TypeOK
<1>1. CASE Quiet
  <2>1. UNCHANGED <<build, commit, commits, index, tree, written>>
    BY <1>0, <1>1, QuietFrame
  <2>2. /\ pc' \in Busy => pc \in Busy
        /\ pc' \in StagedAt \/ (pc' \in {"calling", "close"} /\ turn' = 0)
              => pc \in StagedAt \/ (pc \in {"calling", "close"} /\ turn = 0)
    <3>1. CASE Reply
      BY <3>1, <1>0 DEF Reply, Busy, StagedAt
    <3>2. CASE Exhausted \/ Close
      BY <3>2, <1>0 DEF Exhausted, Close, Busy, StagedAt
    <3>3. CASE SayNothing
      BY <3>3, <1>0 DEF SayNothing, Control, Busy, StagedAt
    <3>4. CASE PersistTranscript \/ PersistScore
      BY <3>4 DEF PersistTranscript, PersistScore, Busy, StagedAt
    <3>5. CASE Abort \/ NewRun \/ RewindTrim
      BY <3>5 DEF Abort, NewRun, RewindTrim, Busy, StagedAt
    <3> QED BY <1>1, <3>1, <3>2, <3>3, <3>4, <3>5 DEF Quiet
  <2>3. MarksOf(build) \subseteq index
          \/ ~(pc' \in StagedAt \/ (pc' \in {"calling", "close"} /\ turn' = 0))
    BY <2>2 DEF Staging
  <2> QED BY <1>0, <2>1, <2>2, <2>3, StagingFrame
<1>2. CASE Scaffold \/ RunTools \/ Grade
  <2>1. /\ UNCHANGED <<build, turn, commit, commits>>
        /\ pc \in {"scaffold", "body", "grading"} /\ pc' \in {"snap", "calling", "close"}
        /\ pc = "scaffold" <=> pc' = "snap"
        /\ index' = index \/ index' = tree'
    BY <1>2, WriterFrame
  <2>2. tree \subseteq tree'
    BY <1>2, WriterFrame DEF Writes
  <2>3. commit = None /\ pc \in Busy /\ (pc # "scaffold" => turn # 0)
    BY <1>0, <2>1 DEF Control, Busy
  <2>4. index' \subseteq tree' /\ index \subseteq index'
    BY <1>0, <2>1, <2>2
  <2>5. \A c \in 1..Len(commits) : TreeOf(c)' = TreeOf(c)
    BY <2>1 DEF TreeOf
  <2> QED BY <2>1, <2>3, <2>4, <2>5 DEF Staging, StagedAt
<1>3. CASE SnapCommit \/ CommitPhase \/ UserCommits
  <2>1. CASE SnapCommit
    <3>1. /\ CommitOn(head, "snap", index) /\ pc = "staged" /\ pc' = "ref"
          /\ UNCHANGED <<build, written, turn, commit, index, tree>>
      BY <2>1 DEF SnapCommit, call, rest
    <3> QED BY <1>0, <3>1, CommitStaged DEF Busy
  <2>2. CASE CommitPhase
    <3>1. /\ CommitOn(head, "phase", index) /\ pc = "squashed" /\ pc' = "idle"
          /\ commit' = Len(commits) + 1
          /\ UNCHANGED <<build, written, turn, index, tree>>
      BY <2>2 DEF CommitPhase, rest
    <3>2. commit' = head'
      BY <1>0, <3>1, CommitTyped
    <3> QED BY <1>0, <3>1, <3>2, CommitStaged DEF Busy
  <2>3. CASE UserCommits
    <3>1. /\ CommitOn(head, "user", tree) /\ index' = tree
          /\ UNCHANGED <<pc, build, written, turn, commit, tree>>
      BY <2>3 DEF UserCommits, call
    <3> QED BY <1>0, <3>1, CommitStaged
  <2> QED BY <1>3, <2>1, <2>2, <2>3
<1>4. CASE SnapRef
  <2>1. /\ UNCHANGED <<build, commit, commits, index, tree, written>> /\ pc = "ref"
        /\ pc \in Busy /\ MarksOf(build) \subseteq index
    BY <1>4 DEF SnapRef, rest, Staging, StagedAt, Busy
  <2> QED BY <1>0, <2>1, StagingFrame
<1>5. CASE SoftReset
  <2>1. /\ UNCHANGED <<build, commit, commits, index, tree, written>> /\ pc = "squash"
        /\ pc \in Busy /\ MarksOf(build) \subseteq index
    BY <1>5 DEF SoftReset, rest, call, Staging, StagedAt, Busy
  <2> QED BY <1>0, <2>1, StagingFrame
<1>6. CASE SnapAdd \/ GradeBegins
  <2>1. /\ UNCHANGED <<build, commit, commits, tree, written, turn>> /\ index' = tree
        /\ pc \in Busy /\ MarksOf(build) \subseteq tree
    BY <1>0, <1>6 DEF SnapAdd, GradeBegins, rest, call, Busy, Writing
  <2> QED BY <1>0, <2>1, StagingFrame
<1>7. CASE RewindReset
  <2>1. /\ UNCHANGED <<build, commit, commits, written>> /\ index' = tree' /\ pc' = "trim"
    BY <1>7 DEF RewindReset, call
  <2> QED BY <2>1, StagingFrame DEF Busy, StagedAt
<1>8. CASE UserEdits
  <2>1. /\ UNCHANGED <<pc, build, turn, commit, commits, index, written>> /\ tree \subseteq tree'
    BY <1>8 DEF UserEdits, call
  <2>2. index' \subseteq tree'
    BY <1>0, <2>1
  <2>3. pc' \in StagedAt \/ (pc' \in {"calling", "close"} /\ turn' = 0)
          => MarksOf(build) \subseteq index'
    BY <2>1 DEF Staging
  <2> QED BY <2>1, <2>2, <2>3, StagingFrame
<1>9. CASE Begin
  <2>1. /\ build' = build + 1 /\ commit' = None /\ pc' = "scaffold"
        /\ UNCHANGED <<commits, index, tree, written>>
    BY <1>9 DEF Begin
  <2>2. ASSUME NEW c \in 1..Len(commits) PROVE commits[c].build # build'
    <3>1. commits[c].build \in Nat /\ build \in Nat
      BY <1>0, CommitBuilds
    <3>2. commits[c].build <= build
      BY DEF IInv, History
    <3> QED BY <2>1, <3>1, <3>2
  <2> QED BY <1>0, <2>1, <2>2 DEF Staging, StagedAt
<1>10. CASE UNCHANGED vars
  BY <1>10 DEF vars, call, repo, rest, Staging, TreeOf, MarksOf
<1> QED BY <1>1, <1>2, <1>3, <1>4, <1>5, <1>6, <1>7, <1>8, <1>9, <1>10
        DEF Next, BuildStep, UserStep, Quiet

LEMMA Inductive == Spec => [](IInv /\ Staging)
<1>1. Init => Staging
  <2> SUFFICES ASSUME Init PROVE Staging
    OBVIOUS
  <2>1. /\ pc = "idle" /\ commit = None /\ index = {}
    BY DEF Init
  <2> QED BY <2>1 DEF Staging, StagedAt, Busy
<1> QED BY <1>1, InitHolds, StepKeeps, StagingStep, PTL DEF Spec

-----------------------------------------------------------------------------
(***************************************************************************)
(* The theorems.                                                           *)
(***************************************************************************)

\* The build is type-correct, for every number of turns, builds and user actions.
THEOREM TypeCorrect == Spec => []TypeOK
<1>1. IInv => TypeOK
  BY DEF IInv
<1> QED BY <1>1, Inductive, PTL

\* Whatever the agent did on a turn, each earlier turn's tree can be had back (FR-BUILD-05),
\* wherever the process died.
THEOREM TurnsRevertible == Spec => []TurnsAreRevertible
<1>1. IInv => TurnsAreRevertible
  <2> SUFFICES ASSUME IInv, NEW m \in MarksOf(build), NEW k \in 0..(m.turn - 1)
               PROVE  Holds(k)
    BY DEF TurnsAreRevertible
  <2>1. m \in Marks /\ m \in written /\ m.build = build /\ turn \in Labels
    BY DEF MarksOf, IInv, TypeOK
  <2>2. m.turn \in Nat /\ m.turn <= turn
    BY <2>1, BuildAssumption DEF IInv, Writing, Marks, Wrote, Edited, Labels
  <2>3. k \in Labels /\ k < turn
    BY <2>1, <2>2, BuildAssumption DEF Labels
  <2> QED BY <2>3 DEF IInv, Labelled
<1> QED BY <1>1, Inductive, PTL

\* A build that ends without passing leaves a label that holds all of its work.
THEOREM UnfinishedIsLabelled == Spec => []LabelIsResumable
<1>1. IInv => LabelIsResumable
  <2> SUFFICES ASSUME IInv, outcome = "unfinished"
               PROVE  Holds(label) /\ MarksOf(build) \subseteq TreeOf(snap[label])
    BY DEF LabelIsResumable
  <2>1. label = turn /\ Holds(turn)
    BY DEF IInv, Labelled
  <2>2. \A m \in MarksOf(build) : m.turn <= turn
    BY DEF IInv, Writing, MarksOf
  <2> QED BY <2>1, <2>2 DEF Holds
<1> QED BY <1>1, Inductive, PTL

\* A build that passes is one commit on top of where it began (FR-WS-01), with everything
\* the agent wrote and everything that was committed meanwhile, though only what is staged
\* goes into it.
THEOREM PassedIsSquashed == Spec => []PassedIsOneCommit
<1>1. IInv /\ Staging => PassedIsOneCommit
  <2> SUFFICES ASSUME IInv, Staging, commit # None
               PROVE  /\ MarksOf(build) \subseteq TreeOf(commit)
                      /\ base \in Past(commit)
                      /\ \A c \in Past(commit) : commits[c].kind = "snap" => commits[c].build # build
                      /\ \A c \in 1..commit :
                           commits[c].build = build => TreeOf(c) \subseteq TreeOf(commit)
    BY DEF PassedIsOneCommit
  <2>1. /\ MarksOf(build) \subseteq TreeOf(commit)
        /\ base \in Past(commit) /\ NoTurnCommits(commit)
    BY DEF IInv, History
  <2>2. commit \in 1..Len(commits)
    BY Types DEF IInv
  <2>3. ASSUME NEW c \in Past(commit), commits[c].kind = "snap" PROVE commits[c].build # build
    <3>1. commits[c].build < build /\ c \in 1..Len(commits)
      BY <2>1, <2>2, <2>3 DEF NoTurnCommits, IInv, History
    <3>2. commits[c].build \in Nat /\ build \in Nat
      BY <3>1, CommitBuilds DEF IInv
    <3> QED BY <3>1, <3>2
  <2> QED BY <2>1, <2>3 DEF Staging
<1> QED BY <1>1, Inductive, PTL
=============================================================================
