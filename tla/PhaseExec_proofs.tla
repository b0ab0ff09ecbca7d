-------------------------- MODULE PhaseExec_proofs --------------------------
(***************************************************************************)
(* Theorems about Phase.execute and its cache, for any number of           *)
(* processes, any tasks, prices and attempts.  The invariant says of one   *)
(* process what its locals hold at each step of execute, and of the cache  *)
(* that every entry was made for the key it is stored under.               *)
(***************************************************************************)
EXTENDS PhaseExec, TLAPS

\* What the locals of process p hold, step by step.
Locals(p) ==
  /\ pc[p] = "idle" => ask[p] = Nothing
  /\ pc[p] \in {"idle", "lookup", "loop"} => attempt[p] = 0
  /\ pc[p] = "repair" => attempt[p] < MaxAttempts
  /\ reply[p] \in {ask[p], Bad}
  /\ pc[p] \in {"persist", "put"} => reply[p] # Bad
  /\ usd[p] < MaxUsd + attempt[p] * MaxCost

\* Every entry was made for its key, and what a phase stored is still there.
CacheHonest ==
  /\ \A a \in Asks : cache[a] \in {a, Nothing}
  /\ \A a \in warm : cache[a] = a

IInv == TypeOK /\ (\A p \in Procs : Locals(p)) /\ CacheHonest

-----------------------------------------------------------------------------
(* Attempts bound spending. *)

LEMMA Spent ==
  ASSUME NEW u \in Nat, NEW n \in 0..MaxAttempts, u < MaxUsd + n * MaxCost
  PROVE  u \in PhaseUsd
<1>1. n * MaxCost <= MaxAttempts * MaxCost
  <2>1. /\ MaxAttempts \in Nat /\ MaxCost \in Nat
        /\ n \in Nat /\ MaxAttempts - n \in Nat
    BY PhaseAssumption
  <2>2. (MaxAttempts - n) * MaxCost \in Nat
    BY <2>1
  <2>3. MaxAttempts * MaxCost = n * MaxCost + (MaxAttempts - n) * MaxCost
    BY <2>1
  <2>4. n * MaxCost \in Nat /\ MaxAttempts * MaxCost \in Nat
    BY <2>1
  <2> QED BY <2>2, <2>3, <2>4
<1>2. n * MaxCost \in Nat /\ MaxAttempts * MaxCost \in Nat /\ MaxUsd \in Nat
  BY PhaseAssumption
<1> QED BY <1>1, <1>2 DEF PhaseUsd

LEMMA OneCallMore ==
  ASSUME NEW u \in Nat, NEW n \in Nat, NEW c \in 0..MaxCost, u < MaxUsd + n * MaxCost
  PROVE  u + c < MaxUsd + (n + 1) * MaxCost
<1>1. (n + 1) * MaxCost = n * MaxCost + MaxCost /\ n * MaxCost \in Nat
  BY PhaseAssumption
<1> QED BY <1>1, PhaseAssumption

-----------------------------------------------------------------------------
(* A process that returns leaves clean locals. *)

LEMMA OverIsClean ==
  ASSUME IInv, NEW p \in Procs, Over(p)
  PROVE  /\ (\A q \in Procs : Locals(q))'
         /\ pc' \in [Procs -> {"idle", "lookup", "loop", "check", "repair", "persist", "put"}]
         /\ ask' \in [Procs -> Asks \cup {Nothing}]
         /\ \A q \in Procs : pc'[q] # "idle" => ask'[q] \in Asks
         /\ caching' \in [Procs -> BOOLEAN] /\ hit' \in [Procs -> BOOLEAN]
         /\ out' \in [Procs -> BOOLEAN] /\ reply' \in [Procs -> Asks \cup {Bad}]
         /\ usd' \in [Procs -> PhaseUsd] /\ attempt' \in [Procs -> 0..MaxAttempts]
<1>1. 0 \in PhaseUsd /\ 0 \in 0..MaxAttempts
  BY Spent, PhaseAssumption
<1>2. ASSUME NEW q \in Procs PROVE Locals(q)'
  <2>1. CASE q = p
    BY <2>1, PhaseAssumption DEF Over, Goto, Locals, IInv, TypeOK
  <2>2. CASE q # p
    BY <2>2 DEF Over, Goto, Locals, IInv, TypeOK
  <2> QED BY <2>1, <2>2
<1>3. caching' \in [Procs -> BOOLEAN] /\ hit' \in [Procs -> BOOLEAN] /\ out' \in [Procs -> BOOLEAN]
  BY DEF Over, IInv, TypeOK
<1>4. /\ pc' \in [Procs -> {"idle", "lookup", "loop", "check", "repair", "persist", "put"}]
      /\ ask' \in [Procs -> Asks \cup {Nothing}]
      /\ \A q \in Procs : pc'[q] # "idle" => ask'[q] \in Asks
      /\ reply' \in [Procs -> Asks \cup {Bad}]
  BY DEF Over, Goto, IInv, TypeOK
<1>5. usd' \in [Procs -> PhaseUsd] /\ attempt' \in [Procs -> 0..MaxAttempts]
  BY <1>1 DEF Over, IInv, TypeOK
<1> QED BY <1>2, <1>3, <1>4, <1>5

LEMMA InitHolds == Init => IInv
<1>1. 0 \in PhaseUsd /\ 0 \in 0..MaxAttempts /\ 0 \in 0..MaxNotes /\ 0 \in 0..MaxStarts
  BY Spent, PhaseAssumption
<1>2. Init => TypeOK
  BY <1>1 DEF Init, TypeOK
<1>3. 0 < MaxUsd + 0 * MaxCost
  BY PhaseAssumption
<1>4. Init => \A p \in Procs : Locals(p)
  BY <1>3 DEF Init, Locals
<1>5. Init => CacheHonest
  BY DEF Init, CacheHonest
<1> QED BY <1>2, <1>4, <1>5 DEF IInv

-----------------------------------------------------------------------------
(* One lemma for each action of a process. *)

LEMMA StartKeeps ==
  ASSUME IInv, NEW p \in Procs, Start(p)
  PROVE  IInv'
<1>1. PICK t \in Tasks : ask' = [ask EXCEPT ![p] = [task |-> t, notes |-> notes]]
  BY DEF Start
<1>2. [task |-> t, notes |-> notes] \in Asks
  BY DEF IInv, TypeOK, Asks
<1>3. caching' \in [Procs -> BOOLEAN]
  BY DEF Start, IInv, TypeOK
<1>4. starts' \in 0..MaxStarts
  BY PhaseAssumption DEF Start, IInv, TypeOK
<1>5. TypeOK'
  BY <1>1, <1>2, <1>3, <1>4 DEF Start, Goto, IInv, TypeOK
<1>6. ASSUME NEW q \in Procs PROVE Locals(q)'
  <2>1. Locals(p) /\ Locals(q)
    BY DEF IInv
  <2>2. reply[p] = Bad
    BY <2>1, ValuesAreDistinct DEF Start, Locals, IInv, TypeOK
  <2>3. CASE q = p
    BY <1>1, <2>1, <2>2, <2>3 DEF Start, Goto, Locals, IInv, TypeOK
  <2>4. CASE q # p
    BY <1>1, <2>1, <2>4 DEF Start, Goto, Locals, IInv, TypeOK
  <2> QED BY <2>3, <2>4
<1>7. CacheHonest'
  BY DEF Start, CacheHonest, IInv
<1> QED BY <1>5, <1>6, <1>7 DEF IInv

LEMMA HitKeeps ==
  ASSUME IInv, NEW p \in Procs, Hit(p)
  PROVE  IInv'
<1>1. ask[p] \in Asks /\ reply' = [reply EXCEPT ![p] = ask[p]]
  BY ValuesAreDistinct, ZenonT(30) DEF Hit, Usable, Get, CacheKey, IInv, TypeOK, CacheHonest
<1>2. TypeOK'
  BY <1>1 DEF Hit, Goto, IInv, TypeOK
<1>3. ASSUME NEW q \in Procs PROVE Locals(q)'
  BY <1>1, ValuesAreDistinct DEF Hit, Goto, Locals, IInv, TypeOK
<1>4. CacheHonest'
  BY DEF Hit, CacheHonest, IInv
<1> QED BY <1>2, <1>3, <1>4 DEF IInv

LEMMA MissKeeps ==
  ASSUME IInv, NEW p \in Procs, Miss(p)
  PROVE  IInv'
<1>1. TypeOK'
  BY DEF Miss, Goto, proc, IInv, TypeOK
<1>2. ASSUME NEW q \in Procs PROVE Locals(q)'
  BY DEF Miss, Goto, proc, Locals, IInv, TypeOK
<1>3. CacheHonest'
  BY DEF Miss, proc, CacheHonest, IInv
<1> QED BY <1>1, <1>2, <1>3 DEF IInv

LEMMA LoopEndsKeeps ==
  ASSUME IInv, NEW p \in Procs, LoopEnds(p)
  PROVE  IInv'
<1>1. PICK u \in LoopUsd, r \in {ask[p], Bad} :
        usd' = [usd EXCEPT ![p] = u] /\ reply' = [reply EXCEPT ![p] = r]
  BY DEF LoopEnds
<1>2. u \in Nat /\ u < MaxUsd + 1 * MaxCost /\ 1 \in 0..MaxAttempts
  BY PhaseAssumption DEF LoopUsd
<1>3. u \in PhaseUsd
  BY <1>2, Spent
<1>4. ask[p] \in Asks /\ r \in Asks \cup {Bad}
  BY DEF LoopEnds, IInv, TypeOK
<1>5. out' \in [Procs -> BOOLEAN]
  BY DEF LoopEnds, IInv, TypeOK
<1>6. TypeOK'
  BY <1>1, <1>2, <1>3, <1>4, <1>5 DEF LoopEnds, Goto, IInv, TypeOK
<1>7. ASSUME NEW q \in Procs PROVE Locals(q)'
  BY <1>1, <1>2 DEF LoopEnds, Goto, Locals, IInv, TypeOK
<1>8. CacheHonest'
  BY DEF LoopEnds, CacheHonest, IInv
<1> QED BY <1>6, <1>7, <1>8 DEF IInv

LEMMA CheckKeeps ==
  ASSUME IInv, NEW p \in Procs, Accept(p) \/ AskRepair(p)
  PROVE  IInv'
<1>1. TypeOK'
  BY DEF Accept, AskRepair, Goto, proc, IInv, TypeOK
<1>2. ASSUME NEW q \in Procs PROVE Locals(q)'
  <2>1. Locals(q)
    BY DEF IInv
  <2>2. CASE Accept(p)
    BY <2>1, <2>2 DEF Accept, Goto, proc, Locals, IInv, TypeOK
  <2>3. CASE AskRepair(p)
    <3>1. attempt[p] \in 0..MaxAttempts /\ attempt[p] # MaxAttempts
      BY <2>3 DEF AskRepair, LastAttempt, IInv, TypeOK
    <3>2. attempt[p] < MaxAttempts
      BY <3>1, PhaseAssumption
    <3> QED BY <2>1, <2>3, <3>2 DEF AskRepair, Goto, proc, Locals, IInv, TypeOK
  <2> QED BY <2>2, <2>3
<1>3. CacheHonest'
  BY DEF Accept, AskRepair, CacheHonest, IInv
<1> QED BY <1>1, <1>2, <1>3 DEF IInv

LEMMA RepairKeeps ==
  ASSUME IInv, NEW p \in Procs, Repair(p)
  PROVE  IInv'
<1>1. PICK c \in 0..MaxCost, r \in {ask[p], Bad} :
        usd' = [usd EXCEPT ![p] = usd[p] + c] /\ reply' = [reply EXCEPT ![p] = r]
  BY DEF Repair
<1> DEFINE u == usd[p] + c
           n == attempt[p] + 1
<1>2. Locals(p) /\ usd[p] \in Nat /\ attempt[p] \in Nat
  BY DEF IInv, TypeOK, PhaseUsd
<1>3. n \in 0..MaxAttempts
  BY <1>2, PhaseAssumption DEF Repair, Locals
<1>4. u \in Nat /\ u < MaxUsd + n * MaxCost
  <2>1. usd[p] < MaxUsd + attempt[p] * MaxCost
    BY <1>2 DEF Locals
  <2>2. u \in Nat
    BY <1>2, PhaseAssumption
  <2> QED BY <1>2, <2>1, <2>2, OneCallMore
<1>5. u \in PhaseUsd
  BY <1>3, <1>4, Spent
<1>6. ask[p] \in Asks /\ r \in Asks \cup {Bad}
  BY DEF Repair, IInv, TypeOK
<1>7. usd' = [usd EXCEPT ![p] = u] /\ attempt' = [attempt EXCEPT ![p] = n]
  BY <1>1 DEF Repair
<1> HIDE DEF u, n
<1>8. TypeOK'
  BY <1>1, <1>3, <1>5, <1>6, <1>7 DEF Repair, Goto, IInv, TypeOK
<1>9. ASSUME NEW q \in Procs PROVE Locals(q)'
  BY <1>1, <1>4, <1>7 DEF Repair, Goto, Locals, IInv, TypeOK
<1>10. CacheHonest'
  BY DEF Repair, CacheHonest, IInv
<1> QED BY <1>8, <1>9, <1>10 DEF IInv

LEMMA PersistKeeps ==
  ASSUME IInv, NEW p \in Procs, Persist(p)
  PROVE  IInv'
<1>1. reply[p] = ask[p] /\ ask[p] \in Asks
  BY DEF Persist, IInv, Locals, TypeOK
<1>2. disk' \in [Procs -> Asks \cup {Nothing}]
  BY <1>1 DEF Persist, IInv, TypeOK
<1>3. CacheHonest'
  BY DEF Persist, CacheHonest, IInv
<1>4. CASE Over(p)
  BY <1>2, <1>3, <1>4, OverIsClean DEF Persist, IInv, TypeOK
<1>5. CASE Goto(p, "put") /\ UNCHANGED proc
  <2>1. TypeOK'
    BY <1>2, <1>5 DEF Persist, Goto, proc, IInv, TypeOK
  <2>2. ASSUME NEW q \in Procs PROVE Locals(q)'
    BY <1>5 DEF Persist, Goto, proc, Locals, IInv, TypeOK
  <2> QED BY <1>3, <2>1, <2>2 DEF IInv
<1> QED BY <1>4, <1>5 DEF Persist

LEMMA PutKeeps ==
  ASSUME IInv, NEW p \in Procs, Put(p)
  PROVE  IInv'
<1>1. reply[p] = ask[p] /\ ask[p] \in Asks
  BY DEF Put, IInv, Locals, TypeOK
<1>2. cache' = [cache EXCEPT ![ask[p]] = ask[p]]
  BY <1>1 DEF Put, CacheKey
<1>3. CacheHonest'
  BY <1>1, <1>2 DEF Put, CacheHonest, IInv, TypeOK
<1>4. cache' \in [Asks -> Asks \cup {Nothing}] /\ warm' \subseteq Asks
  BY <1>1, <1>2 DEF Put, IInv, TypeOK
<1> QED BY <1>3, <1>4, OverIsClean DEF Put, IInv, TypeOK

LEMMA EndKeeps ==
  ASSUME IInv, NEW p \in Procs, GiveUp(p) \/ Leave(p)
  PROVE  IInv'
<1>1. Over(p) /\ UNCHANGED <<cache, disk, notes, starts, warm>>
  BY DEF GiveUp, Leave
<1>2. CacheHonest'
  BY <1>1 DEF CacheHonest, IInv
<1> QED BY <1>1, <1>2, OverIsClean DEF IInv, TypeOK

LEMMA UserKeeps ==
  ASSUME IInv, AddNote \/ DeleteEntry
  PROVE  IInv'
<1>1. ASSUME NEW q \in Procs PROVE Locals(q)'
  BY DEF AddNote, DeleteEntry, proc, Locals, IInv
<1>2. CASE AddNote
  BY <1>1, <1>2, PhaseAssumption DEF AddNote, proc, CacheHonest, IInv, TypeOK
<1>3. CASE DeleteEntry
  <2>1. PICK a \in Asks : /\ cache' = [cache EXCEPT ![a] = Nothing]
                          /\ warm' = {w \in warm : CacheKey(w) # a}
    BY <1>3 DEF DeleteEntry
  <2>2. CacheHonest'
    BY <2>1 DEF CacheKey, CacheHonest, IInv, TypeOK
  <2>3. TypeOK'
    BY <1>3, <2>1 DEF DeleteEntry, proc, IInv, TypeOK
  <2> QED BY <1>1, <2>2, <2>3 DEF IInv
<1> QED BY <1>2, <1>3

LEMMA StepKeeps == IInv /\ [Next]_vars => IInv'
<1> SUFFICES ASSUME IInv, [Next]_vars PROVE IInv'
  OBVIOUS
<1>1. ASSUME NEW p \in Procs, Start(p) PROVE IInv'
  BY <1>1, StartKeeps
<1>2. ASSUME NEW p \in Procs, Step(p) PROVE IInv'
  BY <1>2, HitKeeps, MissKeeps, LoopEndsKeeps, CheckKeeps, EndKeeps, RepairKeeps,
     PersistKeeps, PutKeeps DEF Step
<1>3. ASSUME NEW p \in Procs, Leave(p) PROVE IInv'
  BY <1>3, EndKeeps
<1>4. CASE AddNote \/ DeleteEntry
  BY <1>4, UserKeeps
<1>5. CASE UNCHANGED vars
  BY <1>5 DEF vars, proc, IInv, TypeOK, Locals, CacheHonest
<1> QED BY <1>1, <1>2, <1>3, <1>4, <1>5 DEF Next

LEMMA Inductive == Spec => []IInv
<1> QED BY InitHolds, StepKeeps, PTL DEF Spec

-----------------------------------------------------------------------------
(***************************************************************************)
(* The theorems.                                                           *)
(***************************************************************************)

\* Phase.execute is type-correct, whatever processes share the cache.
THEOREM TypeCorrect == Spec => []TypeOK
<1>1. IInv => TypeOK
  BY DEF IInv
<1> QED BY <1>1, Inductive, PTL

\* A phase overspends its ceiling by less than one call for each attempt.
THEOREM SpendHolds == Spec => []SpendBound
<1>1. IInv => SpendBound
  <2> SUFFICES ASSUME IInv, NEW p \in Procs
               PROVE  usd[p] < MaxUsd + MaxAttempts * MaxCost
    BY DEF SpendBound
  <2> DEFINE repairs == MaxAttempts * MaxCost
  <2>1. usd[p] \in 0..(MaxUsd + repairs - 1)
    BY DEF IInv, TypeOK, PhaseUsd
  <2>2. MaxUsd \in Nat /\ repairs \in Nat
    BY PhaseAssumption
  <2>3. ASSUME NEW u \in 0..(MaxUsd + repairs - 1) PROVE u < MaxUsd + repairs
    <3> HIDE DEF repairs
    <3> QED BY <2>2
  <2> QED BY <2>1, <2>3
<1> QED BY <1>1, Inductive, PTL

\* What was stored and not deleted is never paid for again.
THEOREM FreeAgain == Spec => AskedAgainIsFree
<1>1. IInv /\ [Next]_vars =>
        [\A p \in Procs :
           pc[p] = "lookup" /\ pc'[p] = "loop" /\ caching[p] => ask[p] \notin warm]_vars
  <2> SUFFICES ASSUME IInv, Next, NEW p \in Procs,
                      pc[p] = "lookup", pc'[p] = "loop", caching[p], ask[p] \in warm
               PROVE  FALSE
    OBVIOUS
  <2>1. ask[p] \in Asks /\ Get(ask[p]) = ask[p]
    BY DEF IInv, TypeOK, CacheHonest, Get, CacheKey
  <2>2. Usable(p)
    BY <2>1 DEF Usable
  <2>3. ASSUME NEW q \in Procs, q # p, Start(q) \/ Step(q) \/ Leave(q)
        PROVE  pc'[p] = pc[p]
    BY <2>3 DEF IInv, TypeOK, Start, Step, Leave, Hit, Miss, LoopEnds, Accept, GiveUp, AskRepair,
       Repair, Persist, Put, Over, Goto
  <2>4. ~ Miss(p)
    BY <2>2 DEF Miss
  <2>5. ASSUME Start(p) \/ Step(p) \/ Leave(p)
        PROVE  Hit(p) \/ Leave(p)
    BY <2>4, <2>5 DEF Start, Step, Leave, LoopEnds, Accept, GiveUp, AskRepair, Repair, Persist, Put
  <2>6. ASSUME Hit(p) \/ Leave(p)
        PROVE  FALSE
    BY <2>6 DEF Hit, Leave, Over, Goto, IInv, TypeOK
  <2>7. CASE AddNote \/ DeleteEntry
    BY <2>7 DEF AddNote, DeleteEntry
  <2> QED BY <2>3, <2>5, <2>6, <2>7 DEF Next
<1> QED BY <1>1, Inductive, PTL DEF Spec, AskedAgainIsFree

\* Phase.execute implements what the pipeline is promised: an artifact made for what was
\* asked, or an untouched disk.
THEOREM Implements == Spec => ContractKept
<1>1. Init => Contract!Init
  BY DEF Init, Contract!Init, Waiting
<1>2. IInv /\ [Next]_vars => [Contract!Next]_(Contract!vars)
  <2> SUFFICES ASSUME IInv, [Next]_vars PROVE [Contract!Next]_(Contract!vars)
    OBVIOUS
  <2> DEFINE Asked == [q \in Procs |-> IF Waiting(q) THEN ask[q] ELSE Nothing]
  <2>1. ASSUME NEW p \in Procs, Start(p) PROVE Contract!Ask(p)
    <3>1. PICK t \in Tasks : ask' = [ask EXCEPT ![p] = [task |-> t, notes |-> notes]]
      BY <2>1 DEF Start
    <3> DEFINE a == [task |-> t, notes |-> notes]
    <3>2. a \in Asks
      BY DEF IInv, TypeOK, Asks
    <3>3. ~ Waiting(p) /\ pc' = [pc EXCEPT ![p] = "lookup"] /\ UNCHANGED disk
      BY <2>1 DEF Start, Goto, Waiting
    <3> HIDE DEF a
    <3>4. Asked' = [Asked EXCEPT ![p] = a]
      BY <3>1, <3>3 DEF Waiting, IInv, TypeOK, a
    <3> QED BY <3>2, <3>3, <3>4 DEF Contract!Ask
  <2>2. ASSUME NEW p \in Procs, GiveUp(p) \/ Leave(p)
        PROVE  [Contract!Next]_(Contract!vars)
    <3>1. Asked' = [Asked EXCEPT ![p] = Nothing] /\ UNCHANGED disk
      BY <2>2 DEF GiveUp, Leave, Over, Goto, Waiting, IInv, TypeOK
    <3>2. CASE Waiting(p)
      <4>1. Asked[p] # Nothing
        BY <3>2, ValuesAreDistinct DEF Waiting, IInv, TypeOK
      <4>2. Contract!Fail(p)
        BY <3>1, <4>1 DEF Contract!Fail
      <4> QED BY <4>2 DEF Contract!Next
    <3>3. CASE ~ Waiting(p)
      <4>1. Asked' = Asked
        BY <3>1, <3>3
      <4> QED BY <3>1, <4>1 DEF Contract!vars
    <3> QED BY <3>2, <3>3
  <2>3. ASSUME NEW p \in Procs, Persist(p) PROVE Contract!Deliver(p)
    <3>1. Waiting(p) /\ ask[p] \in Asks /\ reply[p] = ask[p]
      BY <2>3 DEF Persist, Waiting, IInv, TypeOK, Locals
    <3>2. disk' = [disk EXCEPT ![p] = Asked[p]]
      BY <2>3, <3>1 DEF Persist
    <3>3. Asked' = [Asked EXCEPT ![p] = Nothing]
      <4>1. CASE Over(p)
        BY <4>1 DEF Over, Goto, Waiting, IInv, TypeOK
      <4>2. CASE Goto(p, "put") /\ UNCHANGED proc
        BY <4>2 DEF Goto, proc, Waiting, IInv, TypeOK
      <4> QED BY <2>3, <4>1, <4>2 DEF Persist
    <3>4. Asked[p] # Nothing
      BY <3>1, ValuesAreDistinct
    <3> QED BY <3>2, <3>3, <3>4 DEF Contract!Deliver
  <2>4. ASSUME NEW p \in Procs,
               \/ Hit(p) \/ Miss(p) \/ LoopEnds(p) \/ Accept(p)
               \/ AskRepair(p) \/ Repair(p) \/ Put(p)
        PROVE  UNCHANGED Contract!vars
    <3>1. Asked' = Asked
      <4>1. CASE Put(p)
        BY <4>1 DEF Put, Over, Goto, Waiting, IInv, TypeOK
      <4>2. CASE ~ Put(p)
        BY <2>4, <4>2 DEF Hit, Miss, LoopEnds, Accept, AskRepair, Repair, Goto, proc, Waiting,
           IInv, TypeOK
      <4> QED BY <4>1, <4>2
    <3>2. UNCHANGED disk
      BY <2>4 DEF Hit, Miss, LoopEnds, Accept, AskRepair, Repair, Put
    <3> QED BY <3>1, <3>2 DEF Contract!vars
  <2>5. CASE AddNote \/ DeleteEntry \/ UNCHANGED vars
    BY <2>5 DEF AddNote, DeleteEntry, vars, proc, Waiting, Contract!vars
  <2> QED BY <2>1, <2>2, <2>3, <2>4, <2>5 DEF Next, Step, Contract!Next
<1> QED BY <1>1, <1>2, Inductive, PTL DEF Spec, ContractKept, Contract!Spec
=============================================================================
