----------------------------- MODULE PhaseExec -----------------------------
(***************************************************************************)
(* Phase.execute (src/loom/phases/base.py) with the phase cache            *)
(* (src/loom/cache.py), run by several processes on one project directory. *)
(* They share the cache and the user's notes; each has a run of its own.   *)
(*                                                                         *)
(* What a phase is asked is its task, reviewer feedback included, and the  *)
(* notes its prompt was built with.  An artifact is known by what it was   *)
(* made for.  The agent loop is one step: module AgentLoop shows it ends,  *)
(* and what it may spend.                                                  *)
(***************************************************************************)
EXTENDS Integers

CONSTANTS
  Procs, Tasks,
  MaxAttempts,  \* MAX_ATTEMPTS
  MaxUsd,       \* the argument max_usd
  MaxCost,      \* the dearest provider call
  MaxNotes,     \* bound: notes the user adds
  MaxStarts,    \* bound: phases begun
  Nothing, Bad

ASSUME PhaseAssumption ==
  /\ MaxAttempts \in Nat \ {0} /\ MaxUsd \in Nat \ {0} /\ MaxCost \in Nat
  /\ MaxNotes \in Nat /\ MaxStarts \in Nat

Asks == [task : Tasks, notes : 0..MaxNotes]

ASSUME ValuesAreDistinct ==
  Nothing \notin Asks /\ Bad \notin Asks

\* The loop checks its ceiling before each call (theorem UsdHolds of Agent_proofs).
LoopUsd  == 0..(MaxUsd + MaxCost - 1)
PhaseUsd == 0..(MaxUsd + MaxAttempts * MaxCost - 1)

VARIABLES
  pc,       \* where execute is in each process
  ask,      \* what it was asked: the task and the notes in its prompt
  caching,  \* FALSE under --no-cache
  hit,      \* the artifact comes from the cache
  out,      \* LoopResult.status is "budget_exhausted"
  reply,    \* the last text of the model: an artifact, or Bad
  usd, attempt,
  cache,    \* .loom/cache: for each key an artifact, or Nothing no model can read
  disk,     \* the phase's artifact in each process's run
  notes,    \* the user's notes so far
  starts,
  warm      \* history: what an artifact was stored for, with the cache left alone since

proc == <<ask, caching, hit, out, reply, usd, attempt>>
vars == <<pc, proc, cache, disk, notes, starts, warm>>

TypeOK ==
  /\ pc \in [Procs -> {"idle", "lookup", "loop", "check", "repair", "persist", "put"}]
  /\ ask \in [Procs -> Asks \cup {Nothing}]
  /\ \A p \in Procs : pc[p] # "idle" => ask[p] \in Asks
  /\ caching \in [Procs -> BOOLEAN] /\ hit \in [Procs -> BOOLEAN] /\ out \in [Procs -> BOOLEAN]
  /\ reply \in [Procs -> Asks \cup {Bad}]
  /\ usd \in [Procs -> PhaseUsd] /\ attempt \in [Procs -> 0..MaxAttempts]
  /\ cache \in [Asks -> Asks \cup {Nothing}]
  /\ disk \in [Procs -> Asks \cup {Nothing}]
  /\ notes \in 0..MaxNotes /\ starts \in 0..MaxStarts /\ warm \subseteq Asks

Init ==
  /\ pc = [p \in Procs |-> "idle"]
  /\ ask = [p \in Procs |-> Nothing]
  /\ caching = [p \in Procs |-> TRUE] /\ hit = [p \in Procs |-> FALSE]
  /\ out = [p \in Procs |-> FALSE] /\ reply = [p \in Procs |-> Bad]
  /\ usd = [p \in Procs |-> 0] /\ attempt = [p \in Procs |-> 0]
  /\ cache = [a \in Asks |-> Nothing] /\ disk = [p \in Procs |-> Nothing]
  /\ notes = 0 /\ starts = 0 /\ warm = {}

Goto(p, where) == pc' = [pc EXCEPT ![p] = where]

\* execute returns or raises, and its locals are gone.
Over(p) ==
  /\ Goto(p, "idle")
  /\ ask' = [ask EXCEPT ![p] = Nothing] /\ caching' = [caching EXCEPT ![p] = TRUE]
  /\ hit' = [hit EXCEPT ![p] = FALSE] /\ out' = [out EXCEPT ![p] = FALSE]
  /\ reply' = [reply EXCEPT ![p] = Bad]
  /\ usd' = [usd EXCEPT ![p] = 0] /\ attempt' = [attempt EXCEPT ![p] = 0]

-----------------------------------------------------------------------------
(***************************************************************************)
(* The cache.                                                              *)
(***************************************************************************)
\* Mutant: the notes are added to the prompt after the key is taken.
CacheKeyNoNotes(a) == [a EXCEPT !.notes = 0]

\* sha256 over phase, prompt, task, model and config: what was asked, no more and no less.
CacheKey(a) == a

Get(a) == cache[CacheKey(a)]

-----------------------------------------------------------------------------
(***************************************************************************)
(* execute, before the first provider call.                                *)
(***************************************************************************)
Start(p) ==
  /\ pc[p] = "idle" /\ starts < MaxStarts
  /\ starts' = starts + 1
  /\ \E t \in Tasks : ask' = [ask EXCEPT ![p] = [task |-> t, notes |-> notes]]
  /\ \E c \in BOOLEAN : caching' = [caching EXCEPT ![p] = c]
  /\ Goto(p, "lookup")
  /\ UNCHANGED <<hit, out, reply, usd, attempt, cache, disk, notes, warm>>

Usable(p) == caching[p] /\ Get(ask[p]) \in Asks

Hit(p) ==
  /\ pc[p] = "lookup" /\ Usable(p)
  /\ hit' = [hit EXCEPT ![p] = TRUE]
  /\ reply' = [reply EXCEPT ![p] = Get(ask[p])]
  /\ Goto(p, "persist")
  /\ UNCHANGED <<ask, caching, out, usd, attempt, cache, disk, notes, starts, warm>>

\* --no-cache, no file, an unreadable one, or an entry of an older contract.
Miss(p) ==
  /\ pc[p] = "lookup" /\ ~Usable(p)
  /\ Goto(p, "loop")
  /\ UNCHANGED <<proc, cache, disk, notes, starts, warm>>

-----------------------------------------------------------------------------
(***************************************************************************)
(* The loop, then the repairs.                                             *)
(***************************************************************************)
\* A turn limit is "budget_exhausted" too, with money left.
LoopEnds(p) ==
  /\ pc[p] = "loop"
  /\ \E u \in LoopUsd : usd' = [usd EXCEPT ![p] = u]
  /\ \E o \in BOOLEAN : out' = [out EXCEPT ![p] = o]
  /\ \E r \in {ask[p], Bad} : reply' = [reply EXCEPT ![p] = r]
  /\ attempt' = [attempt EXCEPT ![p] = 1]
  /\ Goto(p, "check")
  /\ UNCHANGED <<ask, caching, hit, cache, disk, notes, starts, warm>>

Accept(p) ==
  /\ pc[p] = "check" /\ reply[p] # Bad
  /\ Goto(p, "persist")
  /\ UNCHANGED <<proc, cache, disk, notes, starts, warm>>

\* Mutant: MAX_ATTEMPTS counts the repairs, not the attempts.
LastAttemptOneMore(p) == attempt[p] > MaxAttempts \/ (out[p] /\ usd[p] >= MaxUsd)

LastAttempt(p) == attempt[p] = MaxAttempts \/ (out[p] /\ usd[p] >= MaxUsd)

\* PhaseError: nothing was written.
GiveUp(p) ==
  /\ pc[p] = "check" /\ reply[p] = Bad /\ LastAttempt(p)
  /\ Over(p)
  /\ UNCHANGED <<cache, disk, notes, starts, warm>>

AskRepair(p) ==
  /\ pc[p] = "check" /\ reply[p] = Bad /\ ~LastAttempt(p)
  /\ Goto(p, "repair")
  /\ UNCHANGED <<proc, cache, disk, notes, starts, warm>>

\* Mutant: the attempt is not counted.
RepairUncounted(p) ==
  /\ pc[p] = "repair"
  /\ \E r \in {ask[p], Bad} : reply' = [reply EXCEPT ![p] = r]
  /\ Goto(p, "check")
  /\ UNCHANGED <<ask, caching, hit, out, usd, attempt, cache, disk, notes, starts, warm>>

Repair(p) ==
  /\ pc[p] = "repair"
  /\ \E c \in 0..MaxCost : usd' = [usd EXCEPT ![p] = @ + c]
  /\ \E r \in {ask[p], Bad} : reply' = [reply EXCEPT ![p] = r]
  /\ attempt' = [attempt EXCEPT ![p] = @ + 1]
  /\ Goto(p, "check")
  /\ UNCHANGED <<ask, caching, hit, out, cache, disk, notes, starts, warm>>

-----------------------------------------------------------------------------
(***************************************************************************)
(* The artifact: on disk first, then in the cache.                         *)
(***************************************************************************)
Persist(p) ==
  /\ pc[p] = "persist"
  /\ disk' = [disk EXCEPT ![p] = reply[p]]
  /\ IF hit[p] \/ ~caching[p] THEN Over(p) ELSE Goto(p, "put") /\ UNCHANGED proc
  /\ UNCHANGED <<cache, notes, starts, warm>>

\* Mutant: the key is taken again when the artifact is stored.
PutRehashed(p) ==
  /\ pc[p] = "put"
  /\ cache' = [cache EXCEPT ![[ask[p] EXCEPT !.notes = notes]] = reply[p]]
  /\ warm' = warm \cup {ask[p]}
  /\ Over(p)
  /\ UNCHANGED <<disk, notes, starts>>

Put(p) ==
  /\ pc[p] = "put"
  /\ cache' = [cache EXCEPT ![CacheKey(ask[p])] = reply[p]]
  /\ warm' = warm \cup {ask[p]}
  /\ Over(p)
  /\ UNCHANGED <<disk, notes, starts>>

\* A provider error, the run's budget, a signal or a crash, anywhere.
Leave(p) ==
  /\ pc[p] # "idle"
  /\ Over(p)
  /\ UNCHANGED <<cache, disk, notes, starts, warm>>

-----------------------------------------------------------------------------
(***************************************************************************)
(* The user: # notes, and a cache that is always safe to delete.  An entry *)
(* that an upgrade makes unreadable is as good as deleted.                 *)
(***************************************************************************)
AddNote ==
  /\ notes < MaxNotes
  /\ notes' = notes + 1
  /\ UNCHANGED <<pc, proc, cache, disk, starts, warm>>

DeleteEntry ==
  \E a \in Asks :
    /\ cache[a] # Nothing
    /\ cache' = [cache EXCEPT ![a] = Nothing]
    /\ warm' = {w \in warm : CacheKey(w) # a}
    /\ UNCHANGED <<pc, proc, disk, notes, starts>>

Step(p) ==
  \/ Hit(p) \/ Miss(p)
  \/ LoopEnds(p) \/ Accept(p) \/ GiveUp(p) \/ AskRepair(p) \/ Repair(p)
  \/ Persist(p) \/ Put(p)

Next ==
  \/ \E p \in Procs : Start(p) \/ Step(p) \/ Leave(p)
  \/ AddNote \/ DeleteEntry

Spec == Init /\ [][Next]_vars

\* asyncio runs on, and every provider call returns or raises; nothing makes a process
\* begin, die, or a user act.
FairSpec == Spec /\ \A p \in Procs : WF_vars(Step(p))

-----------------------------------------------------------------------------
(***************************************************************************)
(* Properties.                                                             *)
(***************************************************************************)
\* A phase waits from its start until its artifact is on disk.
Waiting(p) == pc[p] \notin {"idle", "put"}

Contract == INSTANCE PhaseContract WITH
  Callers <- Procs,
  asked   <- [p \in Procs |-> IF Waiting(p) THEN ask[p] ELSE Nothing]

\* Whatever the cache, the notes, other processes and crashes do: execute puts an artifact
\* made for what it was asked on disk, or leaves the disk alone.
ContractKept == Contract!Spec

\* A phase overspends its ceiling by less than one call for each attempt.
SpendBound == \A p \in Procs : usd[p] < MaxUsd + MaxAttempts * MaxCost

\* Asked again for what some process was already given, with the cache on and left alone
\* since, a phase makes no provider call (FR-PIPE-05).
AskedAgainIsFree ==
  [][\A p \in Procs : pc[p] = "lookup" /\ pc'[p] = "loop" /\ caching[p] => ask[p] \notin warm]_vars

\* Every phase ends.
PhaseEnds == \A p \in Procs : pc[p] # "idle" ~> pc[p] = "idle"
=============================================================================
