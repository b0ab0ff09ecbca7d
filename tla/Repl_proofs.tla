---------------------------- MODULE Repl_proofs ----------------------------
(***************************************************************************)
(* Theorems about the session, for any directories, runs, turns and        *)
(* rejections.  The inductive invariant has four parts: the types, what    *)
(* ties the main thread to the run in front of it, what keeps front and    *)
(* back apart, and what a phase at work has found on disk.                 *)
(***************************************************************************)
EXTENDS Repl, WellFoundedInduction, TLAPS

\* The prompt waits for the run in front of it, and for nothing else there.
FrontTied == (job["fg"].at # "off") <=> pc = "fg"

\* Artifacts form a prefix in every run that may ever be one of Home's.
Prefixes ==
  \A r \in Ids : \A p \in arts[Home][r] : \A q \in Phases :
    q < p => q \in arts[Home][r]

\* A phase at work found the artifact before it.
Grounded ==
  \A w \in Workers :
    /\ job[w].at \in {"begin", "work", "built", "gate"} => job[w].run \in Ids
    /\ job[w].at \in {"work", "built"} /\ job[w].phase # Validate
         => job[w].phase - 1 \in arts[Home][job[w].run]

\* A job ends at its stop, and a resume at the build.
Sound == {j \in Jobs : j.phase <= j.stop /\ (j.kind = "given" => j.stop = Build)}

\* The rows of /resume are runs.
Listings ==
  {l \in [cmd : Lists \cup {"none"}, rows : SUBSET Nat, start : Phases] :
     l.cmd = "resume" => l.rows \subseteq Ids}

DiskTyped ==
  /\ runs \in [Dirs -> SUBSET Ids] /\ arts \in [Dirs -> [Ids -> SUBSET Phases]]
  /\ labels \in [Dirs -> SUBSET Labels] /\ tree \in Labels /\ dirty \in BOOLEAN
  /\ transcript \in [Ids -> {"none", "whole", "cut"}]

Types ==
  /\ DiskTyped
  /\ root \in Dirs /\ runId \in Ids \cup {NoRun}
  /\ job \in [Workers -> Sound]
  /\ pc \in {"prompt", "list", "confirm", "fg", "replay", "shell", "command",
             "compact", "exited"}
  /\ list \in Listings
  /\ why \in Reasons

\* What OneRunAtATime comes to, with the main thread tied to its run.
Apart == Alive => pc \notin {"fg", "replay", "list", "confirm"}

IInv == Types /\ FrontTied /\ Apart /\ Prefixes /\ Grounded

-----------------------------------------------------------------------------
(* The operators *)

\* Every set of numbers has a least one.
LEMMA LeastOf ==
  ASSUME NEW T \in SUBSET Nat, T # {}
  PROVE  \E m \in T : \A n \in T : m <= n
<1> DEFINE R == {ss \in Nat \X Nat : ss[1] < ss[2]}
<1>1. IsWellFoundedOn(R, Nat)
  BY NatLessThanWellFounded DEF OpToRel
<1>2. PICK m \in T : \A n \in T : <<n, m>> \notin R
  <2> HIDE DEF R
  <2> QED BY <1>1, WFMin
<1>3. ASSUME NEW n \in T, n < m
      PROVE  FALSE
  <2>1. n \in Nat /\ m \in Nat
    OBVIOUS
  <2>2. <<n, m>> \in R
    BY <1>3, <2>1
  <2> QED BY <2>2, <1>2
<1>4. m \in Nat /\ T \subseteq Nat
  OBVIOUS
<1> HIDE DEF R
<1> QED BY <1>3, <1>4

\* First takes the least phase there is.
LEMMA FirstIsLeast ==
  ASSUME NEW S \in SUBSET Phases, S # {}
  PROVE  /\ First(S) \in S /\ First(S) \in Phases
         /\ \A q \in S : First(S) <= q
<1>1. PICK p \in S : \A q \in S : p <= q
  BY LeastOf DEF Phases
<1> QED BY <1>1 DEF First, Phases

\* LatestOf takes the latest of any runs.
LEMMA LatestIsLast ==
  ASSUME NEW S \in SUBSET Ids
  PROVE  /\ LatestOf(S) \in Ids \cup {NoRun}
         /\ S # {} => LatestOf(S) \in S /\ \A q \in S : q <= LatestOf(S)
<1>1. CASE S = {}
  BY <1>1 DEF LatestOf, NoRun
<1>2. CASE S # {}
  <2> DEFINE T == {MaxRuns - r : r \in S}
  <2>1. T \in SUBSET Nat /\ T # {}
    <3>1. \A r \in S : MaxRuns - r \in Nat
      BY BoundAssumption DEF Ids
    <3> QED BY <3>1, <1>2
  <2>2. PICK m \in T : \A n \in T : m <= n
    <3> HIDE DEF T
    <3> QED BY <2>1, LeastOf
  <2>3. PICK r \in S : m = MaxRuns - r
    OBVIOUS
  <2>4. \A q \in S : q <= r
    <3> TAKE q \in S
    <3>1. MaxRuns - q \in T
      OBVIOUS
    <3> QED BY <3>1, <2>2, <2>3, BoundAssumption DEF Ids
  <2>5. LatestOf(S) \in S /\ \A q \in S : q <= LatestOf(S)
    BY <1>2, <2>3, <2>4 DEF LatestOf
  <2> QED BY <2>5
<1> QED BY <1>1, <1>2

LEMMA Numbers ==
  /\ Validate \in Phases /\ Build \in Phases /\ NoRun \notin Ids
  /\ Phases \subseteq Nat /\ Ids \subseteq Nat /\ Labels \subseteq Nat
  /\ \A p \in Phases : Validate <= p /\ p <= p /\ p <= Build
BY BoundAssumption DEF Validate, Build, Phases, NoRun, Ids, Labels

LEMMA OffTyped == Off \in Sound /\ Off.at = "off"
BY BoundAssumption, Numbers DEF Off, Jobs, Sound, Validate, Build, Phases

\* A job as it is handed over.
LEMMA JobTyped ==
  ASSUME NEW kind \in {"latest", "idea", "given"}, NEW run \in Ids \cup {NoRun},
         NEW start \in Phases, NEW stop \in Phases, NEW looked \in BOOLEAN,
         start <= stop, kind = "given" => stop = Build
  PROVE  /\ Job(kind, run, start, stop, looked) \in Sound
         /\ Job(kind, run, start, stop, looked).at = "start"
<1>1. 0 \in 0..MaxRejects
  BY BoundAssumption
<1> QED BY <1>1 DEF Job, Jobs, Sound

LEMMA HasTyped ==
  ASSUME Types, NEW d \in Dirs, NEW r \in Ids \cup {NoRun}
  PROVE  Has(d, r) \in SUBSET Phases
BY DEF Types, DiskTyped, Has

LEMMA NoListTyped == NoList \in Listings /\ NoList.cmd = "none"
BY Numbers DEF NoList, Listings

\* The type invariant follows.
LEMMA TypesAre == Types => TypeOK
<1> SUFFICES ASSUME Types PROVE TypeOK
  OBVIOUS
<1>1. Sound \subseteq Jobs
  BY DEF Sound
<1>2. job \in [Workers -> Jobs]
  BY <1>1 DEF Types
<1>3. list \in [cmd : Lists \cup {"none"}, rows : SUBSET Nat, start : Phases]
  BY DEF Types, Listings
<1> QED BY <1>2, <1>3 DEF Types, DiskTyped, TypeOK

\* What StartInFront leaves behind.
LEMMA Started ==
  ASSUME Types,
         NEW kind \in {"latest", "idea", "given"}, NEW run \in Ids \cup {NoRun},
         NEW start \in Phases, NEW stop \in Phases, NEW looked \in BOOLEAN,
         start <= stop, kind = "given" => stop = Build,
         StartInFront(kind, run, start, stop, looked)
  PROVE  /\ Types'
         /\ pc' = "fg" /\ job'["fg"].at = "start" /\ job'["bg"] = job["bg"]
         /\ UNCHANGED <<disk, root, runId>>
<1>1. PICK j \in Sound : j = Job(kind, run, start, stop, looked) /\ j.at = "start"
  BY JobTyped
<1>2. job' = [job EXCEPT !["fg"] = j] /\ job \in [Workers -> Sound]
  BY <1>1 DEF StartInFront, Types, DiskTyped
<1>3. job' \in [Workers -> Sound] /\ job'["fg"] = j /\ job'["bg"] = job["bg"]
  BY <1>2 DEF Workers
<1>4. list' = NoList /\ NoList \in Listings
  BY NoListTyped DEF StartInFront
<1>5. UNCHANGED <<disk, root, runId>> /\ pc' = "fg"
  BY DEF StartInFront
<1> QED BY <1>1, <1>3, <1>4, <1>5 DEF StartInFront, Types, DiskTyped, disk

-----------------------------------------------------------------------------
(* The types *)

LEMMA TypesInit == Init => Types
<1> SUFFICES ASSUME Init PROVE Types
  OBVIOUS
<1> USE DirAssumption, BoundAssumption DEF Init
<1>1. /\ runs \in [Dirs -> SUBSET Ids] /\ arts \in [Dirs -> [Ids -> SUBSET Phases]]
      /\ labels \in [Dirs -> SUBSET Labels] /\ tree \in Labels
  <2>1. runs \in [Dirs -> SUBSET Ids]
    <3>1. {} \in SUBSET Ids /\ {1} \in SUBSET Ids
      BY DEF Ids
    <3> QED BY <3>1
  <2>2. arts \in [Dirs -> [Ids -> SUBSET Phases]]
    BY DEF Phases
  <2>3. tree \in Labels /\ labels \in [Dirs -> SUBSET Labels]
    BY DEF Labels
  <2> QED BY <2>1, <2>2, <2>3
<1>2. job \in [Workers -> Sound]
  BY OffTyped
<1>3. list \in Listings
  BY NoListTyped
<1> QED BY <1>1, <1>2, <1>3 DEF Types, DiskTyped, Reasons

\* A run's own steps.
LEMMA TypesSteps ==
  ASSUME Types, NEW w \in Workers, Steps(w)
  PROVE  Types'
<1> USE DirAssumption, BoundAssumption
<1>1. job \in [Workers -> Sound] /\ job[w] \in Sound
  BY DEF Types, DiskTyped
<1>2. NoList \in Listings
  BY NoListTyped
<1>3. ASSUME Return(w)
      PROVE  /\ job' \in [Workers -> Sound] /\ why' = why
             /\ \/ list' = NoList /\ pc' = "prompt"
                \/ UNCHANGED <<pc, list>>
  BY <1>1, <1>3, OffTyped DEF Return, BackToPrompt
<1>4. ASSUME Return(w), UNCHANGED <<disk, still>>
      PROVE  Types'
  BY <1>2, <1>3, <1>4 DEF Types, DiskTyped, disk, still
<1>5. ASSUME EndSession("work"), UNCHANGED <<disk, still>>
      PROVE  Types'
  <2>1. job' \in [Workers -> Sound]
    BY <1>5, OffTyped DEF EndSession
  <2> QED BY <1>2, <1>5, <2>1 DEF EndSession, Types, DiskTyped, disk, still, Reasons
<1>6. ASSUME NEW place \in {"off", "start", "begin", "work", "built", "gate"}, Goes(w, place)
      PROVE  /\ job' \in [Workers -> Sound]
             /\ UNCHANGED <<pc, list, why>>
  BY <1>1, <1>6 DEF Goes, Jobs, Sound
<1>7. CASE JobStarts(w)
  <2>1. PICK r \in Ids :
          /\ runs' = [runs EXCEPT ![Home] = @ \cup {r}]
          /\ job' = [job EXCEPT ![w].at = "begin", ![w].run = r,
                       ![w].phase = IF job[w].kind = "given" THEN ResumeStart(r) ELSE @,
                       ![w].looked = @ /\ r = runId]
    BY <1>7 DEF JobStarts
  <2>2. ResumeStart(r) \in Phases /\ ResumeStart(r) <= Build
    <3>1. arts[Home][r] \in SUBSET Phases
      BY DEF Types, DiskTyped
    <3> QED BY <3>1, FirstIsLeast, Numbers DEF ResumeStart, Phases, Build
  <2>3. PICK ph \in Phases, lk \in BOOLEAN :
          /\ job' = [job EXCEPT ![w].at = "begin", ![w].run = r, ![w].phase = ph,
                       ![w].looked = lk]
          /\ IF job[w].kind = "given" THEN ph <= Build ELSE ph = job[w].phase
    <3>1. job[w].phase \in Phases /\ job[w].looked \in BOOLEAN
      BY <1>1 DEF Jobs, Sound
    <3>2. CASE job[w].kind = "given"
      BY <2>1, <2>2, <3>1, <3>2
    <3>3. CASE job[w].kind # "given"
      BY <2>1, <3>1, <3>3
    <3> QED BY <3>2, <3>3
  <2>5. job' \in [Workers -> Sound]
    <3> DEFINE begun == [at |-> "begin", kind |-> job[w].kind, run |-> r, phase |-> ph,
                         stop |-> job[w].stop, rejects |-> job[w].rejects,
                         looked |-> lk]
    <3>1. begun \in Sound
      BY <1>1, <2>3 DEF Jobs, Sound
    <3>2. job'[w] = begun
      BY <1>1, <2>3 DEF Jobs, Sound
    <3>3. /\ \A v \in Workers : v # w => job'[v] = job[v]
          /\ job' = [v \in Workers |-> job'[v]]
      BY <1>1, <2>3
    <3> HIDE DEF begun
    <3> QED BY <1>1, <3>1, <3>2, <3>3
  <2>4. runs' \in [Dirs -> SUBSET Ids]
    BY <2>1 DEF Types, DiskTyped
  <2> QED BY <1>7, <2>5, <2>4 DEF JobStarts, Types, DiskTyped, still
<1>8. CASE JobRefused(w)
  BY <1>4, <1>8 DEF JobRefused
<1>9. CASE InputMissing(w)
  BY <1>2, <1>3, <1>9, <1>1 DEF InputMissing, Types, DiskTyped, disk, still, Jobs, Sound
<1>10. CASE PhaseBegins(w)
  BY <1>6, <1>10 DEF PhaseBegins, Types, DiskTyped, disk, still
<1>11. CASE BuildBegins(w)
  <2>1. labels' \in [Dirs -> SUBSET Labels] /\ tree' \in Labels
    BY <1>11 DEF BuildBegins, Types, DiskTyped, Labels
  <2> QED BY <1>6, <1>11, <2>1 DEF BuildBegins, Types, DiskTyped, still
<1>12. CASE BuildRefused(w)
  BY <1>4, <1>5, <1>12 DEF BuildRefused, Raise
<1>13. CASE BuildWrites(w)
  BY <1>13 DEF BuildWrites, Types, DiskTyped, still
<1>14. CASE BuildSnapshot(w)
  <2>1. tree' \in Labels
    BY <1>14 DEF BuildSnapshot, Types, DiskTyped, Labels
  <2>2. labels' \in [Dirs -> SUBSET Labels]
    BY <1>14, <2>1 DEF BuildSnapshot, Types, DiskTyped
  <2> QED BY <1>14, <2>1, <2>2 DEF BuildSnapshot, Types, DiskTyped, still
<1>21. CASE BuildPersists(w)
  <2>1. transcript' \in [Ids -> {"none", "whole", "cut"}]
    BY <1>21 DEF BuildPersists, Types, DiskTyped
  <2> QED BY <1>6, <1>21, <2>1 DEF BuildPersists, Types, DiskTyped, still
<1>15. CASE PhaseProduces(w)
  <2>1. job[w].phase \in Phases
    BY <1>1 DEF Jobs, Sound
  <2>2. arts' \in [Dirs -> [Ids -> SUBSET Phases]]
    <3>1. CASE arts' = [arts EXCEPT ![Home][Run(w)] = @ \cup {Phase(w)}]
      <4>1. arts[Home] \in [Ids -> SUBSET Phases] /\ arts \in [Dirs -> [Ids -> SUBSET Phases]]
        BY DEF Types, DiskTyped
      <4>2. [arts[Home] EXCEPT ![Run(w)] = @ \cup {Phase(w)}] \in [Ids -> SUBSET Phases]
        BY <2>1, <4>1 DEF Phase
      <4> QED BY <3>1, <4>1, <4>2
    <3>2. CASE UNCHANGED arts
      BY <3>2 DEF Types, DiskTyped
    <3> QED BY <1>15, <3>1, <3>2 DEF PhaseProduces
  <2> QED BY <1>6, <1>15, <2>2 DEF PhaseProduces, Types, DiskTyped, still
<1>16. CASE PhaseFails(w)
  BY <1>4, <1>5, <1>16 DEF PhaseFails, Raise
<1>17. CASE GatePasses(w)
  <2>1. CASE Phase(w) = job[w].stop
    BY <1>4, <1>17, <2>1 DEF GatePasses
  <2>2. CASE Phase(w) # job[w].stop
    <3>1. job[w].phase + 1 \in Phases /\ job[w].phase + 1 <= job[w].stop
      BY <1>1, <2>2 DEF Phase, Sound, Jobs, Phases
    <3>2. 0 \in 0..MaxRejects
      OBVIOUS
    <3>3. job' \in [Workers -> Sound]
      BY <1>1, <1>17, <2>2, <3>1, <3>2 DEF GatePasses, Sound, Jobs
    <3> QED BY <1>17, <2>2, <3>3 DEF GatePasses, Types, DiskTyped, disk, still
  <2> QED BY <2>1, <2>2
<1>18. CASE GateRejects(w)
  <2>1. job[w].rejects + 1 \in 0..MaxRejects
    BY <1>1, <1>18 DEF GateRejects, Jobs, Sound
  <2>2. job' \in [Workers -> Sound]
    BY <1>1, <1>18, <2>1 DEF GateRejects, Jobs, Sound
  <2> QED BY <1>18, <2>2 DEF GateRejects, Types, DiskTyped, disk, still
<1>19. CASE GateEnds(w)
  BY <1>4, <1>19 DEF GateEnds
<1>20. CASE GateRaises(w)
  BY <1>4, <1>5, <1>20 DEF GateRaises, Raise
<1> QED
  BY <1>7, <1>8, <1>9, <1>10, <1>11, <1>12, <1>13, <1>14, <1>15, <1>16, <1>17, <1>18,
     <1>19, <1>20, <1>21 DEF Steps

LEMMA TypesNext == ASSUME Types, [Next]_vars PROVE Types'
<1> USE DirAssumption, BoundAssumption
<1>0. CASE UNCHANGED vars
  BY <1>0 DEF Types, DiskTyped, vars, disk, prompt
<1>1. CASE StartCommand
  BY <1>1, Started, Numbers DEF StartCommand
<1>2. CASE FreeText
  BY <1>2, Started, Numbers DEF FreeText
<1>3. CASE Background
  <2>1. PICK span \in Spans :
          job' = [job EXCEPT !["bg"] = Job("latest", NoRun, span[1], span[2], FALSE)]
    BY <1>3 DEF Background
  <2>0. PICK a \in Phases, b \in Phases : span = <<a, b>> /\ a <= b
    BY Numbers DEF Spans, Validate, Build, Phases
  <2>2. Job("latest", NoRun, a, b, FALSE) \in Sound
    BY <2>0, JobTyped
  <2>3. job' \in [Workers -> Sound]
    BY <2>0, <2>1, <2>2 DEF Types
  <2> QED BY <1>3, <2>3 DEF Background, Types, DiskTyped, disk, prompt
<1>4. ASSUME NEW cmd \in Lists, NEW rows, Open(cmd, rows), rows \subseteq Nat,
             cmd = "resume" => rows \subseteq Ids
      PROVE  Types'
  <2>1. list' \in Listings
    BY <1>4, Numbers DEF Open, Listings
  <2> QED BY <1>4, <2>1 DEF Open, Types, DiskTyped, disk
<1>5. CASE OpenPhases
  <2>1. Has(root, runId) \subseteq Phases
    BY HasTyped DEF Types, DiskTyped
  <2> QED BY <1>4, <1>5, <2>1, Numbers DEF OpenPhases, Lists
<1>6. CASE OpenRuns
  <2>1. runs[root] \subseteq Ids
    BY DEF Types, DiskTyped
  <2> QED BY <1>4, <1>6, <2>1, Numbers DEF OpenRuns, Lists
<1>7. CASE OpenArtifacts
  <2>1. Has(root, runId) \subseteq Phases
    BY HasTyped DEF Types, DiskTyped
  <2> QED BY <1>4, <1>7, <2>1, Numbers DEF OpenArtifacts, Lists
<1>8. CASE OpenRewind
  <2>1. labels[root] \subseteq Labels
    BY DEF Types, DiskTyped
  <2> QED BY <1>4, <1>8, <2>1, Numbers DEF OpenRewind, Lists
<1>9. CASE PhaseChosen
  <2>1. PICK target \in Phases :
          LET missing == MissingUpstream(target, list.rows)
          IN  IF missing = {}
                THEN StartInFront("latest", NoRun, target, Build, LooksAtItsRun)
                ELSE /\ pc' = "confirm"
                     /\ list' = [list EXCEPT !.rows = {}, !.start = First(missing)]
                     /\ UNCHANGED <<disk, root, runId, job, why>>
    BY <1>9 DEF PhaseChosen
  <2>2. CASE MissingUpstream(target, list.rows) = {}
    BY <2>1, <2>2, Started, Numbers DEF LooksAtItsRun
  <2>3. CASE MissingUpstream(target, list.rows) # {}
    <3>1. First(MissingUpstream(target, list.rows)) \in Phases
      BY <2>3, FirstIsLeast DEF MissingUpstream
    <3>2. list' \in Listings
      BY <2>1, <2>3, <3>1 DEF Types, Listings
    <3> QED BY <2>1, <2>3, <3>2 DEF Types, DiskTyped, disk
  <2> QED BY <2>2, <2>3
<1>10. CASE ResumeChosen
  <2>1. PICK r \in list.rows : StartInFront("given", r, Validate, Build, FALSE)
    BY <1>10 DEF ResumeChosen
  <2>2. r \in Ids
    BY <1>10, <2>1 DEF ResumeChosen, Types, Listings
  <2> QED BY <2>1, <2>2, Started, Numbers
<1>11. CASE OfferTaken
  <2>1. list.start \in Phases /\ LooksAtItsRun \in BOOLEAN
    BY DEF Types, Listings, LooksAtItsRun
  <2> QED BY <1>11, <2>1, Started, Numbers DEF OfferTaken
<1>12. ASSUME BackToPrompt
       PROVE  pc' = "prompt" /\ list' \in Listings
  BY <1>12, NoListTyped DEF BackToPrompt
<1>13. CASE ListCancelled
  BY <1>12, <1>13 DEF ListCancelled, Types, DiskTyped, disk
<1>14. CASE OfferDeclined
  BY <1>12, <1>14 DEF OfferDeclined, Types, DiskTyped, disk
<1>15. CASE ArtifactChosen
  BY <1>12, <1>15 DEF ArtifactChosen, Types, DiskTyped, disk
<1>16. CASE RewindChosen
  <2>1. /\ tree' \in Labels /\ dirty' \in BOOLEAN
        /\ transcript' \in [Ids -> {"none", "whole", "cut"}]
    BY <1>16 DEF RewindChosen, Types, DiskTyped
  <2> QED BY <1>12, <1>16, <2>1 DEF RewindChosen, Types, DiskTyped
<1>17. CASE Clear
  BY <1>17 DEF Clear, Types, DiskTyped, disk
<1>18. ASSUME NEW d \in Dirs, Reroot(d)
       PROVE  root' \in Dirs /\ runId' \in Ids \cup {NoRun}
  <2>1. runs[d] \in SUBSET Ids
    BY DEF Types, DiskTyped
  <2> QED BY <1>18, <2>1, LatestIsLast DEF Reroot, Latest
<1>19. CASE ChangeDir
  BY <1>18, <1>19 DEF ChangeDir, Types, DiskTyped, disk
<1>20. CASE ReplayCommand
  BY <1>20 DEF ReplayCommand, Types, DiskTyped, disk
<1>21. CASE Bang \/ Command \/ CompactReads
  BY <1>21 DEF Bang, Command, CompactReads, Types, DiskTyped, disk
<1>22. CASE BangEnds
  BY <1>12, <1>22 DEF BangEnds, Types, DiskTyped
<1>23. CASE ReplayEnds \/ CommandEnds
  BY <1>12, <1>23 DEF ReplayEnds, CommandEnds, Types, DiskTyped, disk
<1>29. CASE CompactWrites
  <2>1. transcript' \in [Ids -> {"none", "whole", "cut"}]
    BY <1>29 DEF CompactWrites, Types, DiskTyped
  <2> QED BY <1>12, <1>29, <2>1 DEF CompactWrites, Types, DiskTyped
<1>24. ASSUME NEW reason \in Reasons, EndSession(reason), UNCHANGED <<disk, root, runId>>
       PROVE  Types'
  <2>1. job' \in [Workers -> Sound]
    BY <1>24, OffTyped DEF EndSession
  <2>2. list' \in Listings
    BY <1>24, NoListTyped DEF EndSession
  <2> QED BY <1>24, <2>1, <2>2 DEF EndSession, Types, DiskTyped, disk
<1>25. CASE Ends
  <2>1. CASE CtrlCTwice
    BY <2>1, <1>24 DEF CtrlCTwice, Reasons
  <2>2. CASE CtrlD
    BY <2>2, <1>24 DEF CtrlD, Reasons
  <2>3. CASE CtrlCInHandler
    BY <2>3, <1>24 DEF CtrlCInHandler, Reasons
  <2>4. CASE Killed
    BY <2>4, <1>24 DEF Killed, Reasons
  <2>5. CASE ReplayRaises
    BY <2>5, <1>24 DEF ReplayRaises, Reasons
  <2>7. CASE HandlerRaises
    BY <2>7, <1>24 DEF HandlerRaises, Reasons
  <2>6. CASE CtrlCInFront
    <3>1. CASE At("fg", "start")
      BY <2>6, <3>1, <1>24 DEF CtrlCInFront, Reasons, still
    <3>2. CASE ~At("fg", "start")
      <4>1. job' = [job EXCEPT !["fg"] = Off] /\ BackToPrompt
        BY <2>6, <3>2 DEF CtrlCInFront, Return
      <4>2. job' \in [Workers -> Sound]
        BY <4>1, OffTyped DEF Types, DiskTyped
      <4> QED BY <2>6, <3>2, <4>1, <4>2, <1>12 DEF CtrlCInFront, Return, Types, DiskTyped, disk, still
    <3> QED BY <3>1, <3>2
  <2> QED BY <1>25, <2>1, <2>2, <2>3, <2>4, <2>5, <2>6, <2>7 DEF Ends
<1>26. CASE NextSession
  BY <1>18, <1>26 DEF NextSession, Reasons, Types, DiskTyped, disk
<1>27. CASE OtherProcess
  <2>1. runs' \in [Dirs -> SUBSET Ids]
    <3>1. CASE NewRun \in Ids /\ runs' = [runs EXCEPT ![Home] = @ \cup {NewRun}]
      BY <3>1 DEF Types, DiskTyped
    <3>2. CASE UNCHANGED runs
      BY <3>2 DEF Types, DiskTyped
    <3> QED BY <1>27, <3>1, <3>2 DEF OtherProcess
  <2>2. arts' \in [Dirs -> [Ids -> SUBSET Phases]]
    <3>1. CASE UNCHANGED arts
      BY <3>1 DEF Types, DiskTyped
    <3>2. CASE \E r \in runs[Home] :
                 /\ arts[Home][r] # Phases
                 /\ arts' = [arts EXCEPT ![Home][r] = @ \cup {First(Phases \ @)}]
      <4>1. PICK r \in runs[Home] :
              /\ arts[Home][r] # Phases
              /\ arts' = [arts EXCEPT ![Home][r] = @ \cup {First(Phases \ @)}]
        BY <3>2
      <4>2. r \in Ids /\ arts[Home][r] \in SUBSET Phases
        BY DEF Types, DiskTyped
      <4>3. First(Phases \ arts[Home][r]) \in Phases
        BY <4>1, <4>2, FirstIsLeast
      <4> QED BY <4>1, <4>2, <4>3 DEF Types, DiskTyped
    <3> QED BY <1>27, <3>1, <3>2 DEF OtherProcess
  <2>3. transcript' \in [Ids -> {"none", "whole", "cut"}]
    BY <1>27 DEF OtherProcess, Types, DiskTyped
  <2> QED BY <1>27, <2>1, <2>2, <2>3 DEF OtherProcess, Types, DiskTyped, prompt
<1>28. ASSUME NEW w \in Workers, Steps(w)
       PROVE  Types'
  BY <1>28, TypesSteps
<1> QED
  BY <1>0, <1>1, <1>2, <1>3, <1>5, <1>6, <1>7, <1>8, <1>9, <1>10, <1>11, <1>13, <1>14,
     <1>15, <1>16, <1>17, <1>19, <1>20, <1>21, <1>22, <1>23, <1>25, <1>26, <1>27, <1>28,
     <1>29 DEF Next, Lines, Handled

-----------------------------------------------------------------------------
(* Front and back *)

LEMMA ApartMeansOne == Types /\ FrontTied /\ Apart => OneRunAtATime
BY DEF Types, FrontTied, Apart, OneRunAtATime, InFront, At, Alive

\* A step of a run goes on with it, ends it, or ends the session with it.
LEMMA StepOfRun ==
  ASSUME Types, NEW w \in Workers, Steps(w)
  PROVE  /\ job[w].at # "off"
         /\ \/ /\ \A v \in Workers : v # w => job'[v] = job[v]
               /\ job'[w].at # "off" /\ UNCHANGED pc
            \/ /\ \A v \in Workers : v # w => job'[v] = job[v]
               /\ job'[w].at = "off" /\ pc' = IF w = "fg" THEN "prompt" ELSE pc
            \/ w = "fg" /\ pc' = "exited" /\ \A v \in Workers : job'[v].at = "off"
<1> DEFINE on   == /\ \A v \in Workers : v # w => job'[v] = job[v]
                   /\ job'[w].at # "off" /\ UNCHANGED pc
           over == /\ \A v \in Workers : v # w => job'[v] = job[v]
                   /\ job'[w].at = "off" /\ pc' = IF w = "fg" THEN "prompt" ELSE pc
           gone == w = "fg" /\ pc' = "exited" /\ \A v \in Workers : job'[v].at = "off"
<1>1. job \in [Workers -> Sound] /\ job[w] \in Sound
  BY DEF Types
<1>2. ASSUME Return(w) PROVE over
  BY <1>1, <1>2, OffTyped DEF Return, BackToPrompt
<1>3. ASSUME Raise(w) PROVE over \/ gone
  <2>1. CASE w = "fg"
    BY <1>3, <2>1, OffTyped DEF Raise, EndSession
  <2>2. CASE w # "fg"
    BY <1>2, <1>3, <2>2 DEF Raise
  <2> QED BY <2>1, <2>2
<1>4. ASSUME NEW place \in {"start", "begin", "work", "built", "gate"}, Goes(w, place)
      PROVE  on
  BY <1>1, <1>4 DEF Goes, Jobs, Sound
<1>5. CASE JobStarts(w)
  <2>1. PICK r, ph, lk :
          job' = [job EXCEPT ![w].at = "begin", ![w].run = r, ![w].phase = ph,
                       ![w].looked = lk]
    BY <1>1, <1>5 DEF JobStarts
  <2>2. job'[w].at = "begin" /\ \A v \in Workers : v # w => job'[v] = job[v]
    BY <1>1, <2>1 DEF Jobs, Sound
  <2> QED BY <1>5, <2>2 DEF JobStarts, At
<1>6. CASE PhaseBegins(w) \/ BuildBegins(w) \/ BuildPersists(w) \/ PhaseProduces(w)
  <2>1. on
    BY <1>4, <1>6 DEF PhaseBegins, BuildBegins, BuildPersists, PhaseProduces
  <2> QED
    BY <1>6, <2>1 DEF PhaseBegins, BuildBegins, BuildPersists, PhaseProduces, Ready, At
<1>7. CASE BuildWrites(w) \/ BuildSnapshot(w)
  BY <1>7 DEF BuildWrites, BuildSnapshot, At
<1>8. CASE JobRefused(w) \/ InputMissing(w) \/ GateEnds(w)
  <2>1. over
    BY <1>2, <1>8 DEF JobRefused, InputMissing, GateEnds
  <2> QED BY <1>8, <2>1 DEF JobRefused, InputMissing, GateEnds, At
<1>9. CASE BuildRefused(w) \/ PhaseFails(w) \/ GateRaises(w)
  <2>1. over \/ gone
    BY <1>2, <1>3, <1>9 DEF BuildRefused, PhaseFails, GateRaises
  <2> QED BY <1>9, <2>1 DEF BuildRefused, PhaseFails, GateRaises, At
<1>10. CASE GatePasses(w)
  <2>1. CASE Phase(w) = job[w].stop
    <3>1. over
      BY <1>2, <1>10, <2>1 DEF GatePasses
    <3> QED BY <1>10, <3>1 DEF GatePasses, At
  <2>2. CASE Phase(w) # job[w].stop
    <3>1. on
      BY <1>1, <1>10, <2>2 DEF GatePasses, Jobs, Sound
    <3> QED BY <1>10, <3>1 DEF GatePasses, At
  <2> QED BY <2>1, <2>2
<1>11. CASE GateRejects(w)
  <2>1. on
    BY <1>1, <1>11 DEF GateRejects, Jobs, Sound
  <2> QED BY <1>11, <2>1 DEF GateRejects, At
<1> QED
  BY <1>5, <1>6, <1>7, <1>8, <1>9, <1>10, <1>11 DEF Steps

\* Whatever is refused while a run works is not done then.
LEMMA RefusedWhileAlive ==
  ASSUME NEW cmd \in Refused, MayRun(cmd)
  PROVE  ~Alive
BY DEF MayRun, State

LEMMA ApartNext ==
  ASSUME Types, FrontTied, Apart, [Next]_vars
  PROVE  FrontTied' /\ Apart'
<1> USE DEF FrontTied, Apart, Alive
<1>0. CASE UNCHANGED vars
  BY <1>0 DEF vars, prompt
<1>1. ASSUME NEW kind \in {"latest", "idea", "given"}, NEW run \in Ids \cup {NoRun},
             NEW start \in Phases, NEW looked \in BOOLEAN, NEW stop \in Phases,
             StartInFront(kind, run, start, stop, looked), ~Alive
      PROVE  FrontTied' /\ Apart'
  <2>1. job \in [Workers -> Sound]
    BY DEF Types
  <2>2. job'["fg"].at = "start" /\ job'["bg"] = job["bg"] /\ pc' = "fg"
    BY <1>1, <2>1 DEF StartInFront, Job, Workers
  <2> QED BY <1>1, <2>2
<1>2. CASE StartCommand
  BY <1>1, <1>2, Numbers, RefusedWhileAlive DEF StartCommand, Refused
<1>3. CASE FreeText
  BY <1>1, <1>3, Numbers DEF FreeText, Route, State
<1>4. CASE Background
  <2>1. job'["fg"] = job["fg"] /\ pc = "prompt" /\ pc' = "prompt"
    <3>1. job \in [Workers -> Sound]
      BY DEF Types
    <3> QED BY <1>4, <3>1 DEF Background, prompt, Workers
  <2> QED BY <2>1
<1>5. CASE OpenPhases \/ OpenRuns \/ OpenArtifacts \/ OpenRewind
  BY <1>5, RefusedWhileAlive
  DEF OpenPhases, OpenRuns, OpenArtifacts, OpenRewind, Open, Refused
<1>6. CASE ListCancelled \/ OfferDeclined \/ ArtifactChosen \/ RewindChosen
  BY <1>6
  DEF ListCancelled, OfferDeclined, ArtifactChosen, RewindChosen, BackToPrompt
<1>7. CASE PhaseChosen
  <2>1. PICK target \in Phases :
          IF MissingUpstream(target, list.rows) = {}
            THEN StartInFront("latest", NoRun, target, Build, LooksAtItsRun)
            ELSE pc' = "confirm" /\ UNCHANGED job
    BY <1>7 DEF PhaseChosen
  <2>2. LooksAtItsRun \in BOOLEAN /\ pc = "list"
    BY <1>7 DEF LooksAtItsRun, PhaseChosen
  <2>3. CASE MissingUpstream(target, list.rows) = {}
    BY <1>1, <2>1, <2>2, <2>3, Numbers
  <2>4. CASE MissingUpstream(target, list.rows) # {}
    BY <2>1, <2>2, <2>4
  <2> QED BY <2>3, <2>4
<1>8. CASE OfferTaken
  <2>1. list.start \in Phases /\ LooksAtItsRun \in BOOLEAN
    BY DEF Types, Listings, LooksAtItsRun
  <2> QED BY <1>1, <1>8, <2>1, Numbers DEF OfferTaken
<1>9. CASE ResumeChosen
  <2>1. PICK r \in list.rows : StartInFront("given", r, Validate, Build, FALSE)
    BY <1>9 DEF ResumeChosen
  <2>2. r \in Ids /\ pc = "list"
    BY <1>9, <2>1 DEF ResumeChosen, Types, Listings
  <2> QED BY <1>1, <2>1, <2>2, Numbers
<1>10. CASE Clear \/ ChangeDir \/ Bang \/ Command \/ CompactReads
  BY <1>10 DEF Clear, ChangeDir, Bang, Command, CompactReads
<1>11. CASE ReplayCommand
  BY <1>11, RefusedWhileAlive DEF ReplayCommand, Refused
<1>12. CASE Handled
  BY <1>12 DEF Handled, ReplayEnds, BangEnds, CommandEnds, CompactWrites, BackToPrompt
<1>13. ASSUME NEW reason \in Reasons, EndSession(reason)
       PROVE  FrontTied' /\ Apart'
  BY <1>13, OffTyped DEF EndSession, Workers
<1>14. CASE CtrlCTwice \/ CtrlD \/ Killed \/ ReplayRaises \/ HandlerRaises
  BY <1>13, <1>14 DEF CtrlCTwice, CtrlD, Killed, ReplayRaises, HandlerRaises, Reasons
<1>15. CASE CtrlCInHandler
  BY <1>13, <1>15 DEF CtrlCInHandler, Reasons
<1>16. CASE CtrlCInFront
  <2>1. CASE At("fg", "start")
    BY <1>13, <1>16, <2>1 DEF CtrlCInFront, Reasons
  <2>2. CASE ~At("fg", "start")
    <3>1. job' = [job EXCEPT !["fg"] = Off] /\ pc' = "prompt"
      BY <1>16, <2>2 DEF CtrlCInFront, Return, BackToPrompt
    <3>2. job \in [Workers -> Sound]
      BY DEF Types
    <3> QED BY <3>1, <3>2, OffTyped DEF Workers
  <2> QED BY <2>1, <2>2
<1>17. CASE NextSession
  BY <1>17 DEF NextSession
<1>18. CASE OtherProcess
  BY <1>18 DEF OtherProcess, prompt
<1>19. ASSUME NEW w \in Workers, Steps(w)
       PROVE  FrontTied' /\ Apart'
  <2>1. CASE w = "fg"
    BY <1>19, <2>1, StepOfRun DEF Workers
  <2>2. CASE w = "bg"
    BY <1>19, <2>2, StepOfRun DEF Workers
  <2> QED BY <2>1, <2>2 DEF Workers
<1> QED
  BY <1>0, <1>2, <1>3, <1>4, <1>5, <1>6, <1>7, <1>8, <1>9, <1>10, <1>11, <1>12, <1>14,
     <1>15, <1>16, <1>17, <1>18, <1>19 DEF Next, Lines, Ends

-----------------------------------------------------------------------------
(* Artifacts *)

\* Only a phase that ends and another process write artifacts.
ArtsStay == arts' = arts

LEMMA StepsOnArts ==
  ASSUME NEW w \in Workers, Steps(w), ~PhaseProduces(w)
  PROVE  ArtsStay
BY DEF Steps, JobStarts, JobRefused, InputMissing, PhaseBegins, BuildBegins,
   BuildRefused, BuildWrites, BuildSnapshot, BuildPersists, PhaseFails, GatePasses, GateRejects,
   GateEnds, GateRaises, disk, ArtsStay

LEMMA OthersOnArts ==
  ASSUME [Next]_vars, ~OtherProcess, ~(\E w \in Workers : Steps(w))
  PROVE  ArtsStay
BY DEF Next, Lines, Ends, StartCommand, FreeText, Background, OpenPhases, OpenRuns,
   OpenArtifacts, OpenRewind, Open, ListCancelled, PhaseChosen, OfferTaken,
   OfferDeclined, ResumeChosen, ArtifactChosen, RewindChosen, Clear, ChangeDir,
   ReplayCommand, Bang, Command, CompactReads, Handled, ReplayEnds, BangEnds, CommandEnds,
   CompactWrites, CtrlCTwice, CtrlD, CtrlCInHandler, CtrlCInFront, Killed, ReplayRaises,
   HandlerRaises, NextSession, StartInFront, ArtsStay, disk, vars

\* The steps that change artifacts add one whose predecessor is there.
LEMMA PrefixesNext ==
  ASSUME Types, Prefixes, Grounded, [Next]_vars
  PROVE  /\ Prefixes'
         /\ \A r \in Ids : arts[Home][r] \subseteq arts'[Home][r]
<1>1. arts \in [Dirs -> [Ids -> SUBSET Phases]] /\ arts[Home] \in [Ids -> SUBSET Phases]
  BY DirAssumption DEF Types, DiskTyped
<1>2. CASE ArtsStay
  BY <1>2 DEF Prefixes, ArtsStay
<1>3. ASSUME NEW r \in Ids, NEW p \in Phases,
             arts' = [arts EXCEPT ![Home][r] = @ \cup {p}],
             \A q \in Phases : q < p => q \in arts[Home][r]
      PROVE  /\ Prefixes'
             /\ \A s \in Ids : arts[Home][s] \subseteq arts'[Home][s]
  <2>1. \A s \in Ids : arts'[Home][s] =
          IF s = r THEN arts[Home][r] \cup {p} ELSE arts[Home][s]
    BY <1>1, <1>3, DirAssumption
  <2> QED BY <1>3, <2>1 DEF Prefixes
<1>4. ASSUME NEW w \in Workers, PhaseProduces(w)
      PROVE  /\ Prefixes'
             /\ \A s \in Ids : arts[Home][s] \subseteq arts'[Home][s]
  <2>1. job[w] \in Sound /\ job[w].phase \in Phases
    BY DEF Types, Sound, Jobs
  <2>2. /\ job[w].run \in Ids
        /\ job[w].phase # Validate => job[w].phase - 1 \in arts[Home][job[w].run]
    BY <1>4 DEF PhaseProduces, Ready, At, Grounded
  <2>3. \A q \in Phases : q < job[w].phase => q \in arts[Home][job[w].run]
    <3> SUFFICES ASSUME NEW q \in Phases, q < job[w].phase
                 PROVE  q \in arts[Home][job[w].run]
      OBVIOUS
    <3>1. job[w].phase # Validate
      BY <2>1, Numbers
    <3>2. q = job[w].phase - 1 \/ q < job[w].phase - 1
      BY <2>1 DEF Phases
    <3> QED BY <2>2, <3>1, <3>2 DEF Prefixes
  <2>4. arts' = [arts EXCEPT ![Home][job[w].run] = @ \cup {job[w].phase}] \/ ArtsStay
    BY <1>4 DEF PhaseProduces, Run, Phase, ArtsStay
  <2> QED BY <1>2, <1>3, <2>1, <2>2, <2>3, <2>4
<1>5. CASE OtherProcess /\ ~ArtsStay
  <2>1. PICK r \in runs[Home] :
          /\ arts[Home][r] # Phases
          /\ arts' = [arts EXCEPT ![Home][r] = @ \cup {First(Phases \ @)}]
    BY <1>5 DEF OtherProcess, ArtsStay
  <2>2. r \in Ids /\ arts[Home][r] \in SUBSET Phases
    BY <1>1, DirAssumption DEF Types, DiskTyped
  <2> DEFINE rest == Phases \ arts[Home][r]
  <2>3. First(rest) \in Phases /\ \A q \in rest : First(rest) <= q
    BY <2>1, <2>2, FirstIsLeast
  <2>4. arts' = [arts EXCEPT ![Home][r] = @ \cup {First(rest)}]
    BY <1>1, <2>1, <2>2, DirAssumption
  <2>5. \A q \in Phases : q < First(rest) => q \in arts[Home][r]
    <3>1. \A m, n \in Phases : n <= m => ~(m < n)
      BY DEF Phases
    <3> QED BY <2>3, <3>1
  <2> HIDE DEF rest
  <2> QED BY <1>3, <2>2, <2>3, <2>4, <2>5
<1> QED
  BY <1>2, <1>4, <1>5, StepsOnArts, OthersOnArts

\* A run's steps keep what its phases stand on.
LEMMA GroundedSteps ==
  ASSUME Types, Grounded, NEW w \in Workers, Steps(w),
         \A r \in Ids : arts[Home][r] \subseteq arts'[Home][r]
  PROVE  Grounded'
<1> DEFINE Holds(j) ==
      /\ j.at \in {"begin", "work", "built", "gate"} => j.run \in Ids
      /\ j.at \in {"work", "built"} /\ j.phase # Validate => j.phase - 1 \in arts'[Home][j.run]
<1>1. job \in [Workers -> Sound] /\ job[w] \in Sound /\ job[w] \in Jobs
  BY DEF Types, Sound
<1>2. \A v \in Workers : Holds(job[v])
  BY DEF Grounded
<1>3. ASSUME \A v \in Workers : v # w => job'[v] = job[v], Holds(job'[w])
      PROVE  Grounded'
  <2>1. \A v \in Workers : Holds(job'[v])
    BY <1>2, <1>3
  <2> QED BY <2>1 DEF Grounded
<1>4. ASSUME \A v \in Workers : v # w => job'[v] = job[v], job'[w].at = "off"
      PROVE  Grounded'
  BY <1>3, <1>4
<1>5. ASSUME \A v \in Workers : job'[v].at = "off"
      PROVE  Grounded'
  BY <1>5 DEF Grounded
<1>6. ASSUME Return(w) PROVE Grounded'
  BY <1>1, <1>4, <1>6, OffTyped DEF Return
<1>7. ASSUME Raise(w) PROVE Grounded'
  <2>1. CASE w = "fg"
    BY <1>5, <1>7, <2>1, OffTyped DEF Raise, EndSession
  <2>2. CASE w # "fg"
    BY <1>6, <1>7, <2>2 DEF Raise
  <2> QED BY <2>1, <2>2
<1>8. ASSUME NEW place \in {"work", "built", "gate"}, Goes(w, place)
      PROVE  /\ \A v \in Workers : v # w => job'[v] = job[v]
             /\ job'[w].at = place /\ job'[w].run = job[w].run
             /\ job'[w].phase = job[w].phase
  BY <1>1, <1>8 DEF Goes, Jobs
<1>9. CASE JobStarts(w)
  <2>1. PICK r \in Ids : \E ph, lk :
          job' = [job EXCEPT ![w].at = "begin", ![w].run = r, ![w].phase = ph,
                       ![w].looked = lk]
    BY <1>1, <1>9 DEF JobStarts
  <2>2. /\ job'[w].at = "begin" /\ job'[w].run = r
        /\ \A v \in Workers : v # w => job'[v] = job[v]
    BY <1>1, <2>1 DEF Jobs
  <2> QED BY <1>3, <2>2
<1>10. CASE PhaseBegins(w) \/ BuildBegins(w)
  <2>1. Goes(w, "work") /\ At(w, "begin") /\ HasInput(w)
    BY <1>10 DEF PhaseBegins, BuildBegins
  <2>2. job[w].run \in Ids /\ (job[w].phase # Validate
                               => job[w].phase - 1 \in arts[Home][job[w].run])
    BY <1>2, <2>1 DEF HasInput, At, Phase, Run
  <2> QED BY <1>3, <1>8, <2>1, <2>2
<1>11. CASE BuildPersists(w) \/ PhaseProduces(w)
  <2>1. PICK place \in {"built", "gate"} : Goes(w, place)
    BY <1>11 DEF BuildPersists, PhaseProduces
  <2>2. /\ job[w].run \in Ids
        /\ job[w].phase # Validate => job[w].phase - 1 \in arts'[Home][job[w].run]
    BY <1>2, <1>11 DEF BuildPersists, PhaseProduces, Ready, At
  <2> QED BY <1>3, <1>8, <2>1, <2>2
<1>12. CASE BuildWrites(w) \/ BuildSnapshot(w)
  <2>1. job' = job
    BY <1>12 DEF BuildWrites, BuildSnapshot
  <2> QED BY <1>2, <1>3, <2>1
<1>13. CASE JobRefused(w) \/ InputMissing(w) \/ GateEnds(w)
  BY <1>6, <1>13 DEF JobRefused, InputMissing, GateEnds
<1>14. CASE BuildRefused(w) \/ PhaseFails(w) \/ GateRaises(w)
  BY <1>6, <1>7, <1>14 DEF BuildRefused, PhaseFails, GateRaises
<1>15. CASE GatePasses(w)
  <2>1. CASE Phase(w) = job[w].stop
    BY <1>6, <1>15, <2>1 DEF GatePasses
  <2>2. CASE Phase(w) # job[w].stop
    <3>1. /\ job'[w].at = "begin" /\ job'[w].run = job[w].run
          /\ \A v \in Workers : v # w => job'[v] = job[v]
      BY <1>1, <1>15, <2>2 DEF GatePasses, Jobs
    <3>2. job[w].run \in Ids
      BY <1>2, <1>15 DEF GatePasses, At
    <3> QED BY <1>3, <3>1, <3>2
  <2> QED BY <2>1, <2>2
<1>16. CASE GateRejects(w)
  <2>1. /\ job'[w].at = "begin" /\ job'[w].run = job[w].run
        /\ \A v \in Workers : v # w => job'[v] = job[v]
    BY <1>1, <1>16 DEF GateRejects, Jobs
  <2>2. job[w].run \in Ids
    BY <1>2, <1>16 DEF GateRejects, At
  <2> QED BY <1>3, <2>1, <2>2
<1> QED
  BY <1>9, <1>10, <1>11, <1>12, <1>13, <1>14, <1>15, <1>16 DEF Steps

\* What is not a run's own step hands a job over at its start, ends it, or
\* leaves it alone.
LEMMA GroundedOthers ==
  ASSUME Types, Grounded, [Next]_vars, ~(\E w \in Workers : Steps(w)),
         \A r \in Ids : arts[Home][r] \subseteq arts'[Home][r]
  PROVE  Grounded'
<1>1. job \in [Workers -> Sound]
  BY DEF Types
<1>2. ASSUME \A v \in Workers : job'[v] = job[v] \/ job'[v].at \in {"off", "start"}
      PROVE  Grounded'
  BY <1>2 DEF Grounded
<1>3. ASSUME NEW kind, NEW run, NEW start, NEW stop, NEW looked, NEW w \in Workers,
             job' = [job EXCEPT ![w] = Job(kind, run, start, stop, looked)]
      PROVE  Grounded'
  <2>1. Job(kind, run, start, stop, looked).at = "start"
    BY DEF Job
  <2> QED BY <1>1, <1>2, <1>3, <2>1
<1>4. ASSUME NEW kind, NEW run, NEW start, NEW stop, NEW looked,
             StartInFront(kind, run, start, stop, looked)
      PROVE  Grounded'
  BY <1>3, <1>4 DEF StartInFront, Workers
<1>5. ASSUME UNCHANGED job PROVE Grounded'
  BY <1>2, <1>5
<1>6. ASSUME NEW reason, EndSession(reason) PROVE Grounded'
  BY <1>2, <1>6, OffTyped DEF EndSession
<1>7. CASE StartCommand \/ FreeText \/ OfferTaken \/ ResumeChosen
  BY <1>4, <1>7 DEF StartCommand, FreeText, OfferTaken, ResumeChosen
<1>8. CASE PhaseChosen
  <2>1. \/ \E target : StartInFront("latest", NoRun, target, Build, LooksAtItsRun)
        \/ UNCHANGED job
    BY <1>8 DEF PhaseChosen
  <2> QED BY <1>4, <1>5, <2>1
<1>9. CASE Background
  BY <1>3, <1>9 DEF Background, Workers
<1>10. CASE \/ OpenPhases \/ OpenRuns \/ OpenArtifacts \/ OpenRewind \/ ListCancelled
            \/ OfferDeclined \/ ArtifactChosen \/ RewindChosen \/ Clear \/ ChangeDir
            \/ ReplayCommand \/ Bang \/ Command \/ CompactReads \/ Handled
            \/ NextSession \/ OtherProcess \/ UNCHANGED vars
  <2>1. UNCHANGED job
    BY <1>10
    DEF OpenPhases, OpenRuns, OpenArtifacts, OpenRewind, Open, ListCancelled,
        OfferDeclined, ArtifactChosen, RewindChosen, Clear, ChangeDir, ReplayCommand,
        Bang, Command, CompactReads, Handled, ReplayEnds, BangEnds, CommandEnds,
        CompactWrites, NextSession, OtherProcess, vars
  <2> QED BY <1>5, <2>1
<1>11. CASE CtrlCTwice \/ CtrlD \/ CtrlCInHandler \/ Killed \/ ReplayRaises \/ HandlerRaises
  BY <1>6, <1>11
  DEF CtrlCTwice, CtrlD, CtrlCInHandler, Killed, ReplayRaises, HandlerRaises
<1>12. CASE CtrlCInFront
  <2>1. CASE At("fg", "start")
    BY <1>6, <1>12, <2>1 DEF CtrlCInFront
  <2>2. CASE ~At("fg", "start")
    BY <1>1, <1>2, <1>12, <2>2, OffTyped DEF CtrlCInFront, Return, Workers
  <2> QED BY <2>1, <2>2
<1> QED
  BY <1>7, <1>8, <1>9, <1>10, <1>11, <1>12 DEF Next, Lines, Ends

-----------------------------------------------------------------------------
(* The invariant and what it shows *)

LEMMA InitIInv == Init => IInv
<1> SUFFICES ASSUME Init PROVE IInv
  OBVIOUS
<1>1. Types
  BY TypesInit
<1>2. \A w \in Workers : job[w].at = "off"
  BY OffTyped DEF Init
<1>3. FrontTied /\ Apart /\ Grounded
  BY <1>2 DEF Init, FrontTied, Apart, Alive, Grounded, Workers
<1>4. Prefixes
  <2>1. arts[Home] = [r \in Ids |-> {}]
    BY DirAssumption DEF Init
  <2> QED BY <2>1 DEF Prefixes
<1> QED BY <1>1, <1>3, <1>4 DEF IInv

LEMMA NextIInv == IInv /\ [Next]_vars => IInv'
<1> SUFFICES ASSUME IInv, [Next]_vars PROVE IInv'
  OBVIOUS
<1> USE DEF IInv
<1>1. Types'
  BY TypesNext
<1>2. FrontTied' /\ Apart'
  BY ApartNext
<1>3. Prefixes' /\ \A r \in Ids : arts[Home][r] \subseteq arts'[Home][r]
  BY PrefixesNext
<1>4. Grounded'
  BY <1>3, GroundedSteps, GroundedOthers
<1> QED BY <1>1, <1>2, <1>3, <1>4

LEMMA Invariant == Spec => []IInv
BY InitIInv, NextIInv, PTL DEF Spec

(***************************************************************************)
(* Every variable keeps its type: above all the run ids, phases and rows a *)
(* job is handed are ones that exist.                                      *)
(***************************************************************************)
THEOREM TypeCorrect == Spec => []TypeOK
<1>1. IInv => TypeOK
  BY TypesAre DEF IInv
<1> QED BY <1>1, Invariant, PTL

(***************************************************************************)
(* At most one run works in the workspace, though the session's state is   *)
(* read once, before a command's handler (commands.py, dispatch): while a  *)
(* run is behind the prompt the main thread is at the prompt or in a shell *)
(* command, and nothing it may do there brings it elsewhere.               *)
(***************************************************************************)
THEOREM OneAtATime == Spec => []OneRunAtATime
<1>1. IInv => OneRunAtATime
  BY ApartMeansOne DEF IInv
<1> QED BY <1>1, Invariant, PTL

(***************************************************************************)
(* A run's artifacts are those of its first phases, from whatever old rows *)
(* a run was started and whatever other processes add: a phase reads its   *)
(* input from the run it writes to, and artifacts are never removed.       *)
(***************************************************************************)
THEOREM Ordered == Spec => []ArtifactsInOrder
<1>1. IInv => ArtifactsInOrder
  <2> SUFFICES ASSUME IInv PROVE ArtifactsInOrder
    OBVIOUS
  <2>1. runs[Home] \subseteq Ids
    BY DirAssumption DEF IInv, Types, DiskTyped
  <2> QED BY <2>1 DEF IInv, Prefixes, ArtifactsInOrder
<1> QED BY <1>1, Invariant, PTL

(***************************************************************************)
(* What the main thread does while a run works behind it leaves the runs,  *)
(* their artifacts, the snapshots and what the prompt is on as they are:   *)
(* what would not is refused, and no list can be open from before.  The    *)
(* commands that are not refused include two that write, a shell command   *)
(* and /compact, and these write no more than the property says.           *)
(***************************************************************************)
THEOREM Quiet == Spec => QuietWhileRunning
<1> DEFINE quiet == /\ UNCHANGED <<runs, arts, labels, tree, root, runId>>
                    /\ dirty' # dirty => pc = "shell"
                    /\ \A r \in Ids : transcript'[r] # transcript[r]
                                       => pc = "compact" /\ r = runId
<1>1. ASSUME IInv, Alive, Lines
      PROVE  UNCHANGED <<disk, root, runId>>
  <2>1. pc \notin {"list", "confirm"}
    BY <1>1 DEF IInv, Apart
  <2>2. CASE StartCommand \/ OpenPhases \/ OpenRuns \/ OpenArtifacts \/ OpenRewind
             \/ Clear \/ ChangeDir \/ ReplayCommand
    BY <1>1, <2>2, RefusedWhileAlive
    DEF StartCommand, OpenPhases, OpenRuns, OpenArtifacts, OpenRewind, Open, Clear,
        ChangeDir, ReplayCommand, Refused
  <2>3. ~FreeText
    BY <1>1 DEF FreeText, Route, State
  <2>4. CASE Background \/ Bang \/ Command \/ CompactReads
    BY <2>4 DEF Background, Bang, Command, CompactReads, prompt
  <2>5. ~(ListCancelled \/ PhaseChosen \/ OfferTaken \/ OfferDeclined \/ ResumeChosen
          \/ ArtifactChosen \/ RewindChosen)
    BY <2>1 DEF ListCancelled, PhaseChosen, OfferTaken, OfferDeclined, ResumeChosen,
       ArtifactChosen, RewindChosen
  <2> QED BY <1>1, <2>2, <2>3, <2>4, <2>5 DEF Lines
<1>2. ASSUME IInv, Handled
      PROVE  quiet
  <2>1. CASE ReplayEnds \/ CommandEnds
    BY <2>1 DEF ReplayEnds, CommandEnds, disk
  <2>2. CASE BangEnds
    BY <2>2 DEF BangEnds
  <2>3. CASE CompactWrites
    <3>1. transcript \in [Ids -> {"none", "whole", "cut"}]
      BY <1>2 DEF IInv, Types, DiskTyped
    <3> QED BY <2>3, <3>1 DEF CompactWrites
  <2> QED BY <1>2, <2>1, <2>2, <2>3 DEF Handled
<1>3. ASSUME IInv, Alive, Lines \/ Handled
      PROVE  quiet
  BY <1>1, <1>2, <1>3 DEF disk
<1>4. IInv => [Alive /\ (Lines \/ Handled) => quiet]_vars
  BY <1>3
<1> QED BY <1>4, Invariant, PTL DEF QuietWhileRunning

(***************************************************************************)
(* No run and no replay that raises ends the session while a run works     *)
(* behind the prompt: in front there is none, and the thread ends alone.   *)
(***************************************************************************)
THEOREM Outlives == Spec => OutlivesThePrompt
<1>1. ASSUME IInv, Next, Alive, pc # "exited", pc' = "exited"
      PROVE  why' \in {"eof", "interrupts", "killed", "shell", "command"}
  <2>1. pc \notin {"fg", "replay", "list", "confirm"} /\ job["fg"].at = "off" /\ Types
    BY <1>1 DEF IInv, Apart, FrontTied
  <2>2. \A w \in Workers : ~Steps(w)
    BY <1>1, <2>1, StepOfRun
  <2>3. ~Lines
    BY <1>1, <2>1 DEF Lines, StartCommand, FreeText, Background, OpenPhases, OpenRuns,
       OpenArtifacts, OpenRewind, Open, ListCancelled, PhaseChosen, OfferTaken,
       OfferDeclined, ResumeChosen, ArtifactChosen, RewindChosen, Clear, ChangeDir,
       ReplayCommand, Bang, Command, CompactReads, StartInFront, prompt
  <2>4. ~(Handled \/ ReplayRaises \/ NextSession \/ OtherProcess \/ CtrlCInFront)
    BY <1>1, <2>1 DEF Handled, ReplayEnds, BangEnds, CommandEnds, CompactWrites,
       ReplayRaises, BackToPrompt, NextSession, OtherProcess, prompt, CtrlCInFront
  <2>5. CtrlCTwice \/ CtrlD \/ CtrlCInHandler \/ Killed \/ HandlerRaises
    BY <1>1, <2>2, <2>3, <2>4 DEF Next, Ends
  <2> QED
    BY <2>1, <2>5 DEF CtrlCTwice, CtrlD, CtrlCInHandler, Killed, HandlerRaises, EndSession
<1>2. IInv /\ [Next]_vars =>
        [Alive /\ pc # "exited" /\ pc' = "exited"
           => why' \in {"eof", "interrupts", "killed", "shell", "command"}]_vars
  BY <1>1
<1> QED BY <1>2, Invariant, PTL DEF Spec, OutlivesThePrompt

-----------------------------------------------------------------------------
(***************************************************************************)
(* The offer of /phase.  What the rows showed of the run is still there    *)
(* when it is worked on, since artifacts are never removed; from there on  *)
(* each phase leaves the input of the next.                                *)
(***************************************************************************)
Upstream(p) == {q \in Phases : q < p}

\* A run of /phase on the run that was shown stands on its artifacts.
Stands(j) ==
  /\ j.kind = "latest"
  /\ j.at = "start" => Upstream(j.phase) \subseteq Has(Home, runId)
  /\ j.at \in {"begin", "work", "built", "gate"} => Upstream(j.phase) \subseteq arts[Home][j.run]
  /\ j.at = "gate" /\ j.phase # Build => j.phase \in arts[Home][j.run]

\* An open list or question shows no more than there is.
Shown ==
  /\ pc = "list" /\ list.cmd = "phase" => list.rows \subseteq Has(root, runId)
  /\ pc = "confirm" => Upstream(list.start) \subseteq Has(root, runId)

\* Only a run in front was looked at.
Looked == ~job["bg"].looked /\ (job["fg"].looked => Stands(job["fg"]))

Offer == IInv /\ Shown /\ Looked

LEMMA ArtsGrow ==
  ASSUME Types, [Next]_vars
  PROVE  \A d \in Dirs : \A r \in Ids : arts[d][r] \subseteq arts'[d][r]
<1>1. arts \in [Dirs -> [Ids -> SUBSET Phases]] /\ Home \in Dirs
  BY DirAssumption DEF Types, DiskTyped
<1>2. CASE ArtsStay
  BY <1>2 DEF ArtsStay
<1>3. ASSUME NEW r, NEW more, arts' = [arts EXCEPT ![Home][r] = @ \cup more]
      PROVE  \A d \in Dirs : \A s \in Ids : arts[d][s] \subseteq arts'[d][s]
  BY <1>1, <1>3
<1>4. ASSUME NEW w \in Workers, PhaseProduces(w)
      PROVE  \A d \in Dirs : \A s \in Ids : arts[d][s] \subseteq arts'[d][s]
  BY <1>2, <1>3, <1>4 DEF PhaseProduces, ArtsStay
<1>5. CASE OtherProcess
  <2>1. ArtsStay \/ \E r \in runs[Home] : arts' = [arts EXCEPT ![Home][r] = @ \cup {First(Phases \ @)}]
    BY <1>5 DEF OtherProcess, ArtsStay
  <2>2. ASSUME NEW r \in runs[Home], arts' = [arts EXCEPT ![Home][r] = @ \cup {First(Phases \ @)}]
        PROVE  \A d \in Dirs : \A s \in Ids : arts[d][s] \subseteq arts'[d][s]
    <3>1. arts' = [arts EXCEPT ![Home][r] = @ \cup {First(Phases \ arts[Home][r])}]
      BY <2>2
    <3> QED BY <1>3, <3>1
  <2> QED BY <1>2, <2>1, <2>2
<1> QED BY <1>2, <1>4, <1>5, StepsOnArts, OthersOnArts

LEMMA HasGrows ==
  ASSUME Types, [Next]_vars, NEW d \in Dirs, NEW r \in Ids \cup {NoRun}
  PROVE  Has(d, r) \subseteq Has(d, r)'
BY ArtsGrow DEF Has

LEMMA ShownGrows ==
  ASSUME Types, Shown, [Next]_vars, UNCHANGED <<root, runId, pc, list>>
  PROVE  Shown'
<1>1. PICK d \in Dirs, r \in Ids \cup {NoRun} : d = root /\ r = runId
  BY DEF Types
<1>2. Has(d, r) \subseteq Has(d, r)'
  BY HasGrows
<1>3. Has(d, r) = Has(root, runId) /\ Has(d, r)' = Has(root, runId)'
  BY <1>1
<1> QED BY <1>2, <1>3 DEF Shown, Upstream

LEMMA StandsGrow ==
  ASSUME Types, [Next]_vars, NEW j, Stands(j), j.at \in {"begin", "work", "built", "gate"} => j.run \in Ids,
         UNCHANGED runId \/ j.at # "start"
  PROVE  Stands(j)'
<1>1. Home \in Dirs /\ runId \in Ids \cup {NoRun}
  BY DirAssumption DEF Types
<1>2. PICK r \in Ids \cup {NoRun} : r = runId
  BY <1>1
<1>3. Has(Home, r) \subseteq Has(Home, r)'
  BY <1>1, HasGrows
<1>4. j.at = "start" => Upstream(j.phase) \subseteq Has(Home, runId)'
  <2>1. j.at = "start" => Has(Home, runId)' = Has(Home, r)' /\ Has(Home, runId) = Has(Home, r)
    BY <1>2
  <2> QED BY <1>3, <2>1 DEF Stands
<1>5. j.run \in Ids => arts[Home][j.run] \subseteq arts'[Home][j.run]
  BY <1>1, ArtsGrow
<1> QED BY <1>4, <1>5 DEF Stands, Upstream

LEMMA JobFields ==
  ASSUME Types, NEW w \in Workers
  PROVE  /\ job \in [Workers -> Sound] /\ job[w] \in Sound /\ job[w] \in Jobs
         /\ job[w].phase \in Phases /\ job[w].stop \in Phases /\ job[w].phase <= job[w].stop
         /\ job[w].looked \in BOOLEAN
BY DEF Types, Sound, Jobs

\* A run's own step keeps what it stands on.
LEMMA LookedSteps ==
  ASSUME IInv, NEW w \in Workers, Steps(w), [Next]_vars,
         job[w].looked => Stands(job[w])
  PROVE  /\ job'[w].looked => job[w].looked /\ Stands(job[w])'
         /\ \A v \in Workers : v # w => job'[v] = job[v] \/ ~job'[v].looked
         /\ UNCHANGED still
         /\ UNCHANGED <<pc, list>> \/ pc' \in {"prompt", "exited"}
<1> DEFINE good == /\ job'[w].looked => job[w].looked /\ Stands(job[w])'
                   /\ \A v \in Workers : v # w => job'[v] = job[v] \/ ~job'[v].looked
                   /\ UNCHANGED still
                   /\ UNCHANGED <<pc, list>> \/ pc' \in {"prompt", "exited"}
<1>1. /\ job \in [Workers -> Sound] /\ job[w] \in Sound /\ job[w] \in Jobs
      /\ job[w].phase \in Phases /\ job[w].stop \in Phases /\ job[w].phase <= job[w].stop
  BY JobFields DEF IInv
<1>2. /\ ~Off.looked /\ Home \in Dirs /\ Types
  BY DirAssumption DEF Off, IInv
<1>3. ASSUME Return(w), UNCHANGED still PROVE good
  BY <1>1, <1>2, <1>3 DEF Return, BackToPrompt
<1>4. ASSUME Raise(w), UNCHANGED still PROVE good
  <2>1. CASE w = "fg"
    BY <1>2, <1>4, <2>1 DEF Raise, EndSession
  <2>2. CASE w # "fg"
    BY <1>3, <1>4, <2>2 DEF Raise
  <2> QED BY <2>1, <2>2
\* From begin to work, to the gate, and back.
<1>5. ASSUME NEW place \in {"begin", "work", "built", "gate"}, NEW p \in Phases,
             \A v \in Workers : v # w => job'[v] = job[v],
             job'[w].at = place, job'[w].run = job[w].run, job'[w].kind = job[w].kind,
             job'[w].phase = p, job'[w].looked = job[w].looked,
             job[w].at \in {"begin", "work", "built", "gate"},
             job[w].looked => Upstream(p) \subseteq arts'[Home][job[w].run],
             job[w].looked /\ place = "gate" /\ p # Build => p \in arts'[Home][job[w].run],
             UNCHANGED <<pc, list, still>>
      PROVE  good
  BY <1>5 DEF Stands
<1>6. job[w].at \in {"begin", "work", "built", "gate"} =>
        /\ job[w].run \in Ids
        /\ job[w].looked => Upstream(job[w].phase) \subseteq arts'[Home][job[w].run]
        /\ job[w].looked => Upstream(job[w].phase) \subseteq arts[Home][job[w].run]
  <2>1. job[w].at \in {"begin", "work", "built", "gate"} => job[w].run \in Ids
    BY DEF IInv, Grounded
  <2> QED BY <1>2, <2>1, ArtsGrow DEF Stands
<1>7. ASSUME NEW place \in {"work", "built", "gate"}, Goes(w, place)
      PROVE  /\ \A v \in Workers : v # w => job'[v] = job[v]
             /\ job'[w].at = place /\ job'[w].run = job[w].run /\ job'[w].kind = job[w].kind
             /\ job'[w].phase = job[w].phase /\ job'[w].looked = job[w].looked
             /\ UNCHANGED <<pc, list>>
  BY <1>1, <1>7 DEF Goes, Jobs
<1>8. CASE JobStarts(w)
  <2>1. PICK r, ph, lk :
          /\ r \in Ids
          /\ job' = [job EXCEPT ![w].at = "begin", ![w].run = r, ![w].phase = ph,
                       ![w].looked = lk]
          /\ lk = (job[w].looked /\ r = runId)
          /\ job[w].kind # "given" => ph = job[w].phase
    <3>1. PICK r \in Ids :
            job' = [job EXCEPT ![w].at = "begin", ![w].run = r,
                      ![w].phase = IF job[w].kind = "given" THEN ResumeStart(r) ELSE @,
                      ![w].looked = @ /\ r = runId]
      BY <1>8 DEF JobStarts
    <3>2. PICK ph, lk : /\ ph = IF job[w].kind = "given" THEN ResumeStart(r) ELSE job[w].phase
                        /\ lk = (job[w].looked /\ r = runId)
      OBVIOUS
    <3>3. job' = [job EXCEPT ![w].at = "begin", ![w].run = r, ![w].phase = ph, ![w].looked = lk]
      BY <1>1, <3>1, <3>2
    <3> QED BY <3>2, <3>3
  <2>2. /\ \A v \in Workers : v # w => job'[v] = job[v]
        /\ job'[w].at = "begin" /\ job'[w].run = r /\ job'[w].phase = ph
        /\ job'[w].looked = lk /\ job'[w].kind = job[w].kind
    BY <1>1, <2>1 DEF Jobs
  <2>3. ASSUME lk PROVE Stands(job[w])'
    <3>1. /\ Stands(job[w]) /\ job[w].at = "start" /\ r = runId /\ job[w].kind = "latest"
          /\ ph = job[w].phase
      BY <1>8, <2>1, <2>3 DEF JobStarts, At, Stands
    <3>2. Has(Home, runId) = arts[Home][r] /\ arts' = arts
      BY <1>8, <2>1, <3>1, Numbers DEF Has, JobStarts
    <3> QED BY <2>2, <3>1, <3>2 DEF Stands
  <2>4. ASSUME job'[w].looked PROVE job[w].looked /\ lk
    BY <2>1, <2>2, <2>4
  <2>5. UNCHANGED <<pc, list, still>>
    BY <1>8 DEF JobStarts
  <2> QED BY <1>2, <2>2, <2>3, <2>4, <2>5
<1>10. CASE PhaseBegins(w) \/ BuildBegins(w)
  <2>1. Goes(w, "work") /\ job[w].at = "begin" /\ UNCHANGED still
    BY <1>10 DEF PhaseBegins, BuildBegins, At
  <2> QED BY <1>1, <1>5, <1>6, <1>7, <2>1
<1>9. CASE BuildPersists(w)
  <2>1. /\ Goes(w, "built") /\ job[w].at = "work" /\ UNCHANGED still
    BY <1>9 DEF BuildPersists, At
  <2> QED BY <1>1, <1>5, <1>6, <1>7, <2>1
<1>11. CASE PhaseProduces(w)
  <2>1. Goes(w, "gate") /\ job[w].at \in {"work", "built"} /\ UNCHANGED still
    BY <1>11 DEF PhaseProduces, Ready, At
  <2>2. job[w].phase # Build => job[w].phase \in arts'[Home][job[w].run]
    <3>1. job[w].run \in Ids
      BY <1>6, <2>1
    <3>2. job[w].phase # Build =>
            arts' = [arts EXCEPT ![Home][job[w].run] = @ \cup {job[w].phase}]
      BY <1>11 DEF PhaseProduces, Phase, Run
    <3> QED BY <1>2, <3>1, <3>2 DEF Types, DiskTyped
  <2> QED BY <1>1, <1>5, <1>6, <1>7, <2>1, <2>2
<1>12. CASE BuildWrites(w) \/ BuildSnapshot(w)
  <2>1. job' = job /\ job[w].at = "work" /\ UNCHANGED <<pc, list, still, arts>>
    BY <1>12 DEF BuildWrites, BuildSnapshot, At
  <2> QED BY <1>1, <1>5, <1>6, <2>1
<1>13. CASE JobRefused(w) \/ InputMissing(w) \/ GateEnds(w)
  BY <1>3, <1>13 DEF JobRefused, InputMissing, GateEnds, still
<1>14. CASE BuildRefused(w) \/ PhaseFails(w) \/ GateRaises(w)
  BY <1>3, <1>4, <1>14 DEF BuildRefused, PhaseFails, GateRaises, still
<1>15. CASE GatePasses(w)
  <2>1. CASE Phase(w) = job[w].stop
    BY <1>3, <1>15, <2>1 DEF GatePasses, still
  <2>2. CASE Phase(w) # job[w].stop
    <3>1. /\ job'[w].at = "begin" /\ job'[w].run = job[w].run /\ job'[w].kind = job[w].kind
          /\ job'[w].phase = job[w].phase + 1 /\ job'[w].looked = job[w].looked
          /\ \A v \in Workers : v # w => job'[v] = job[v]
          /\ UNCHANGED <<pc, list, still, arts>>
      BY <1>1, <1>15, <2>2 DEF GatePasses, Jobs, disk
    <3>2. job[w].at = "gate" /\ job[w].phase # Build /\ job[w].phase + 1 \in Phases
      BY <1>1, <1>15, <2>2 DEF GatePasses, At, Phase, Phases, Build
    <3>3. job[w].looked => Upstream(job[w].phase + 1) \subseteq arts'[Home][job[w].run]
      <4>1. \A q \in Upstream(job[w].phase + 1) : q \in Upstream(job[w].phase) \/ q = job[w].phase
        BY <1>1 DEF Upstream, Phases
      <4> QED BY <1>6, <3>1, <3>2, <4>1 DEF Stands
    <3> QED BY <1>5, <3>1, <3>2, <3>3
  <2> QED BY <2>1, <2>2
<1>16. CASE GateRejects(w)
  <2>1. /\ job'[w].at = "begin" /\ job'[w].run = job[w].run /\ job'[w].kind = job[w].kind
        /\ job'[w].phase = job[w].phase /\ job'[w].looked = job[w].looked
        /\ \A v \in Workers : v # w => job'[v] = job[v]
        /\ UNCHANGED <<pc, list, still>> /\ job[w].at = "gate"
    BY <1>1, <1>16 DEF GateRejects, Jobs, At
  <2> QED BY <1>1, <1>5, <1>6, <2>1
<1> QED
  BY <1>8, <1>9, <1>10, <1>11, <1>12, <1>13, <1>14, <1>15, <1>16 DEF Steps

LEMMA LookedRuns ==
  ASSUME Offer, NEW w \in Workers, Steps(w), [Next]_vars
  PROVE  (Shown /\ Looked)'
<1>1. job[w].looked => Stands(job[w])
  BY DEF Offer, Looked, Workers
<1>2. /\ job'[w].looked => job[w].looked /\ Stands(job[w])'
      /\ \A v \in Workers : v # w => job'[v] = job[v] \/ ~job'[v].looked
      /\ UNCHANGED <<root, runId>>
      /\ UNCHANGED <<pc, list>> \/ pc' \in {"prompt", "exited"}
  BY <1>1, LookedSteps DEF Offer, still
<1>3. Shown'
  <2>1. CASE UNCHANGED <<pc, list>>
    BY <1>2, <2>1, ShownGrows DEF Offer, IInv
  <2>2. CASE pc' \in {"prompt", "exited"}
    BY <2>2 DEF Shown
  <2> QED BY <1>2, <2>1, <2>2
<1>4. Looked'
  <2>1. CASE w = "fg"
    BY <1>2, <2>1 DEF Offer, Looked, Workers
  <2>2. CASE w = "bg"
    <3>1. ~job'["bg"].looked
      BY <1>2, <2>2 DEF Offer, Looked
    <3>2. CASE job'["fg"] = job["fg"] /\ job["fg"].looked
      <4>1. PICK j : j = job["fg"]
        OBVIOUS
      <4>2. j.at \in {"begin", "work", "built", "gate"} => j.run \in Ids
        BY <4>1 DEF Offer, IInv, Grounded, Workers
      <4>3. Stands(j)'
        BY <1>2, <3>2, <4>1, <4>2, StandsGrow DEF Offer, IInv, Looked
      <4> QED BY <3>1, <3>2, <4>1, <4>3 DEF Looked
    <3> QED BY <1>2, <2>2, <3>1, <3>2 DEF Looked, Workers
  <2> QED BY <2>1, <2>2 DEF Workers
<1> QED BY <1>2, <1>3, <1>4


LEMMA LookedOthers ==
  ASSUME Offer, [Next]_vars, ~(\E w \in Workers : Steps(w))
  PROVE  (Shown /\ Looked)'
<1>1. /\ job \in [Workers -> Sound] /\ ~Off.looked /\ Off.kind = "latest"
      /\ IInv /\ Types /\ Shown /\ Looked
  BY DEF Offer, IInv, Types, Off
<1>2. ASSUME \A v \in Workers : job'[v] = job[v] \/ ~job'[v].looked,
             UNCHANGED runId \/ job["fg"].at # "start"
      PROVE  Looked'
  <2>1. PICK j : j = job["fg"]
    OBVIOUS
  <2>2. j.at \in {"begin", "work", "built", "gate"} => j.run \in Ids
    BY <1>1, <2>1 DEF IInv, Grounded, Workers
  <2>3. j.looked => Stands(j)'
    BY <1>1, <1>2, <2>1, <2>2, StandsGrow DEF Looked
  <2> QED BY <1>1, <1>2, <2>1, <2>3 DEF Looked, Workers
<1>3. ASSUME NEW kind, NEW run, NEW start, NEW stop, NEW looked \in BOOLEAN,
             StartInFront(kind, run, start, stop, looked),
             looked => kind = "latest" /\ Upstream(start) \subseteq Has(Home, runId)
      PROVE  (Shown /\ Looked)'
  <2>1. /\ job'["fg"] = Job(kind, run, start, stop, looked) /\ job'["bg"] = job["bg"]
        /\ pc' = "fg" /\ UNCHANGED <<disk, root, runId>>
    BY <1>1, <1>3 DEF StartInFront, Workers
  <2>2. /\ job'["fg"].looked = looked /\ job'["fg"].kind = kind /\ job'["fg"].at = "start"
        /\ job'["fg"].phase = start
    BY <2>1 DEF Job
  <2>3. looked => Stands(job["fg"])'
    BY <1>3, <2>1, <2>2 DEF Stands, Has, disk
  <2> QED BY <1>1, <2>1, <2>2, <2>3 DEF Shown, Looked
<1>4. CASE StartCommand \/ FreeText \/ ResumeChosen
  BY <1>3, <1>4 DEF StartCommand, FreeText, ResumeChosen
<1>5. CASE PhaseChosen
  <2>1. pc = "list" /\ list.rows \subseteq Has(root, runId) /\ list \in Listings
    BY <1>1, <1>5 DEF PhaseChosen, Shown, Types
  <2>2. PICK target \in Phases :
          IF MissingUpstream(target, list.rows) = {}
            THEN StartInFront("latest", NoRun, target, Build, LooksAtItsRun)
            ELSE /\ pc' = "confirm"
                 /\ list' = [list EXCEPT !.rows = {},
                                !.start = First(MissingUpstream(target, list.rows))]
                 /\ UNCHANGED <<disk, root, runId, job, why>>
    BY <1>5 DEF PhaseChosen
  <2>3. CASE MissingUpstream(target, list.rows) = {}
    <3>1. Upstream(target) \subseteq Has(root, runId)
      BY <2>1, <2>3 DEF MissingUpstream, Upstream
    <3>2. LooksAtItsRun \in BOOLEAN /\ (LooksAtItsRun => Upstream(target) \subseteq Has(Home, runId))
      BY <3>1 DEF LooksAtItsRun
    <3> QED BY <1>3, <2>2, <2>3, <3>2
  <2>4. CASE MissingUpstream(target, list.rows) # {}
    <3> DEFINE missing == MissingUpstream(target, list.rows)
    <3>1. missing \in SUBSET Phases /\ missing # {} /\ missing = {p \in Phases : p < target} \ list.rows
      BY <2>4 DEF MissingUpstream
    <3>2. PICK p \in Phases : p = First(missing) /\ p \in missing /\ \A q \in missing : p <= q
      BY <3>1, FirstIsLeast
    <3>3. Upstream(p) \subseteq list.rows
      <4> SUFFICES ASSUME NEW q \in Phases, q < p, q \notin list.rows PROVE FALSE
        BY DEF Upstream
      <4>1. p < target
        BY <3>1, <3>2
      <4>2. q \in missing
        BY <3>1, <4>1 DEF Phases
      <4> QED BY <3>2, <4>2 DEF Phases
    <3>4. list'.start = p /\ pc' = "confirm" /\ UNCHANGED <<disk, root, runId, job>>
      BY <2>1, <2>2, <2>4, <3>2 DEF Listings
    <3>5. Shown'
      BY <2>1, <3>3, <3>4 DEF Shown, Has, disk
    <3>6. Looked'
      BY <1>2, <3>4
    <3> QED BY <1>1, <3>4, <3>5, <3>6
  <2> QED BY <2>3, <2>4
<1>6. CASE OfferTaken
  <2>1. Upstream(list.start) \subseteq Has(root, runId)
    BY <1>1, <1>6 DEF OfferTaken, Shown
  <2>2. LooksAtItsRun \in BOOLEAN /\ (LooksAtItsRun => Upstream(list.start) \subseteq Has(Home, runId))
    BY <2>1 DEF LooksAtItsRun
  <2> QED BY <1>3, <1>6, <2>2 DEF OfferTaken
<1>7. CASE Background
  <2>1. PICK span : job' = [job EXCEPT !["bg"] = Job("latest", NoRun, span[1], span[2], FALSE)]
    BY <1>7 DEF Background
  <2>2. job'["fg"] = job["fg"] /\ ~job'["bg"].looked
    BY <1>1, <2>1 DEF Workers, Job
  <2>3. UNCHANGED <<root, runId, pc, list>>
    BY <1>7 DEF Background, prompt
  <2> QED BY <1>1, <1>2, <2>2, <2>3, ShownGrows DEF Workers
<1>8. CASE OpenPhases \/ OpenRuns \/ OpenArtifacts \/ OpenRewind
  <2>1. UNCHANGED <<disk, root, runId, job>> /\ pc' = "list"
    BY <1>8 DEF OpenPhases, OpenRuns, OpenArtifacts, OpenRewind, Open
  <2>2. list'.cmd = "phase" => list'.rows = Has(root, runId)
    BY <1>8 DEF OpenPhases, OpenRuns, OpenArtifacts, OpenRewind, Open
  <2>3. Shown'
    BY <2>1, <2>2 DEF Shown, Has, disk
  <2> QED BY <1>1, <1>2, <2>1, <2>3
\* The job in front is off wherever the run or directory shown may change.
<1>9. CASE Clear \/ ChangeDir \/ NextSession
  <2>1. /\ UNCHANGED <<job>> /\ pc' = "prompt" /\ pc # "fg"
    BY <1>9 DEF Clear, ChangeDir, NextSession
  <2>2. job["fg"].at = "off"
    BY <1>1, <2>1 DEF IInv, FrontTied
  <2> QED BY <1>1, <1>2, <2>1, <2>2 DEF Shown
<1>10. CASE \/ ListCancelled \/ OfferDeclined \/ ArtifactChosen \/ RewindChosen
            \/ ReplayCommand \/ Bang \/ Command \/ CompactReads \/ Handled
  <2>1. UNCHANGED <<runId, job>> /\ pc' \notin {"list", "confirm"}
    BY <1>10 DEF ListCancelled, OfferDeclined, ArtifactChosen, RewindChosen, ReplayCommand,
       Bang, Command, CompactReads, Handled, ReplayEnds, BangEnds, CommandEnds,
       CompactWrites, BackToPrompt
  <2> QED BY <1>1, <1>2, <2>1 DEF Shown
<1>11. ASSUME NEW reason, EndSession(reason), UNCHANGED <<runId>>
       PROVE  (Shown /\ Looked)'
  BY <1>1, <1>2, <1>11 DEF EndSession, Shown
<1>12. CASE CtrlCTwice \/ CtrlD \/ CtrlCInHandler \/ Killed \/ ReplayRaises \/ HandlerRaises
  BY <1>11, <1>12
  DEF CtrlCTwice, CtrlD, CtrlCInHandler, Killed, ReplayRaises, HandlerRaises
<1>13. CASE CtrlCInFront
  <2>1. CASE At("fg", "start")
    BY <1>11, <1>13, <2>1 DEF CtrlCInFront, still
  <2>2. CASE ~At("fg", "start")
    <3>1. /\ job' = [job EXCEPT !["fg"] = Off] /\ pc' = "prompt" /\ UNCHANGED <<runId>>
      BY <1>13, <2>2 DEF CtrlCInFront, Return, BackToPrompt, still
    <3> QED BY <1>1, <1>2, <3>1 DEF Shown, Workers
  <2> QED BY <2>1, <2>2
<1>14. CASE OtherProcess \/ UNCHANGED vars
  <2>1. UNCHANGED <<root, runId, pc, list, job>>
    BY <1>14 DEF OtherProcess, vars, prompt
  <2> QED BY <1>1, <1>2, <2>1, ShownGrows
<1> QED
  BY <1>4, <1>5, <1>6, <1>7, <1>8, <1>9, <1>10, <1>12, <1>13, <1>14 DEF Next, Lines, Ends

(***************************************************************************)
(* A run of /phase on the run that the prompt showed finds the input of    *)
(* every phase after Validate: no step between the list and the run, by    *)
(* whichever process, takes away an artifact that was shown.               *)
(***************************************************************************)
THEOREM OfferIsKept == Spec => []OfferHolds
<1>1. Init => Offer
  BY InitIInv DEF Init, Offer, Shown, Looked, Off, Workers
<1>2. Offer /\ [Next]_vars => Offer'
  <2> SUFFICES ASSUME Offer, [Next]_vars PROVE Offer'
    OBVIOUS
  <2>1. IInv'
    BY NextIInv DEF Offer
  <2>2. (Shown /\ Looked)'
    BY LookedRuns, LookedOthers
  <2> QED BY <2>1, <2>2 DEF Offer
<1>3. Offer => OfferHolds
  <2> SUFFICES ASSUME Offer, NEW w \in Workers,
                      job[w].looked, At(w, "begin"), Phase(w) # Validate
               PROVE  HasInput(w)
    BY DEF OfferHolds
  <2>1. Stands(job[w]) /\ job[w].phase \in Phases
    BY JobFields DEF Offer, IInv, Looked, Workers
  <2>2. job[w].phase - 1 \in Upstream(job[w].phase)
    BY <2>1 DEF Phase, Upstream, Phases, Validate
  <2> QED BY <2>1, <2>2 DEF Stands, At, HasInput, Phase, Run
<1> QED BY <1>1, <1>2, <1>3, PTL DEF Spec
=============================================================================
