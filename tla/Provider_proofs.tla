--------------------------- MODULE Provider_proofs --------------------------
(***************************************************************************)
(* Proofs about Provider, for any callers, chains and number of retries.   *)
(* The invariant speaks of one caller at a time: a step of another leaves  *)
(* all it mentions alone.                                                  *)
(***************************************************************************)
EXTENDS Provider, Integers, TLAPS

USE ProviderAssumption

\* How often one link is worth an attempt.
Worth(c) == IF c \in Streams THEN 1 ELSE MaxRetries

\* What a link leaves behind when it is given up.
GivenUp(c, s) ==
  /\ s # <<>>
  /\ \A n \in 1..(Len(s) - 1) : s[n] = "overloaded"
  /\ s[Len(s)] = "overloaded" /\ c \notin Streams => Len(s) = MaxRetries

Waiting(c) ==
  /\ c \in Streams => attempt[c] = 1 /\ pc[c] # "sleeping"
  /\ pc[c] = "sleeping" => attempt[c] < MaxRetries

Telling(c) ==
  c \notin Silent =>
    /\ pc[c] \in {"calling", "raised", "exhausted"} => tried[c] = told[c] + 1
    /\ pc[c] = "sleeping" => tried[c] = told[c]

Faulty(c) ==
  /\ pc[c] \in {"calling", "sleeping"} => \A n \in 1..Len(faults[c]) : faults[c][n] = "overloaded"
  /\ pc[c] = "calling" => Len(faults[c]) = attempt[c] - 1
  /\ pc[c] = "sleeping" => Len(faults[c]) = attempt[c]
  /\ pc[c] = "raised" => GivenUp(c, faults[c])

Trailing(c) ==
  /\ pc[c] \in InFlight => Len(trail[c]) = link[c] - 1
  /\ pc[c] = "exhausted" => Len(trail[c]) = Len(Chain[c])
  /\ \A l \in 1..Len(trail[c]) : GivenUp(c, trail[c][l])

Counting(c) == tried[c] <= (link[c] - 1) * Worth(c) + attempt[c]

Showing(c) ==
  /\ c \notin Streams => screen[c] = {}
  /\ pc[c] \in {"sleeping", "raised"} => screen[c] = {}
  /\ pc[c] = "calling" => screen[c] \subseteq {link[c]}

CInv(c) ==
  Waiting(c) /\ Telling(c) /\ Faulty(c) /\ Trailing(c) /\ Counting(c) /\ Showing(c)

Inv == TypeOK /\ \A c \in Callers : CInv(c)

Acts(c) == Ask(c) \/ Delta(c) \/ Cancel(c) \/ Step(c)

-----------------------------------------------------------------------------
\* A sequence is not empty exactly when it has a length.
LEMMA ChainLength ==
  ASSUME NEW c \in Callers
  PROVE  Chain[c] \in Seq(Models) /\ Len(Chain[c]) \in Nat \ {0} /\ Links(c) = 1..Len(Chain[c])
  BY DEF Links

LEMMA InitInv == Init => Inv
<1> SUFFICES ASSUME Init PROVE Inv
  OBVIOUS
<1>1. TypeOK
  BY ChainLength DEF Init, TypeOK, InFlight
<1>2. ASSUME NEW c \in Callers PROVE CInv(c)
  BY DEF Init, CInv, Waiting, Telling, Faulty, Trailing, Counting, Showing, InFlight, Worth
<1> QED
  BY <1>1, <1>2 DEF Inv

States == InFlight \cup {"idle", "answered", "failed", "exhausted"}

LEMMA EnterTypes ==
  ASSUME TypeOK, NEW c \in Callers, NEW l \in Links(c), Enter(c, l)
  PROVE  /\ pc' \in [Callers -> States]
         /\ link' \in [Callers -> Nat] /\ \A d \in Callers : link'[d] \in Links(d)
         /\ attempt' \in [Callers -> 1..MaxRetries]
         /\ faults' \in [Callers -> Seq(Failures)]
<1>1. l \in Nat /\ 1 \in 1..MaxRetries
  BY ChainLength
<1>2. pc' \in [Callers -> States]
  BY DEF Enter, States, TypeOK, InFlight
<1>3. link' \in [Callers -> Nat] /\ \A d \in Callers : link'[d] \in Links(d)
  BY <1>1 DEF Enter, TypeOK
<1>4. attempt' \in [Callers -> 1..MaxRetries]
  BY <1>1 DEF Enter, TypeOK
<1>5. <<>> \in Seq(Failures) /\ <<"refused">> \in Seq(Failures)
  BY DEF Failures
<1>6. faults' \in [Callers -> Seq(Failures)]
  BY <1>5 DEF Enter, TypeOK
<1> QED
  BY <1>2, <1>3, <1>4, <1>6

\* A caller's step keeps the types.
LEMMA TypeStep ==
  ASSUME TypeOK, NEW c \in Callers, CInv(c), Acts(c)
  PROVE  TypeOK'
<1>0. Links(c) = 1..Len(Chain[c]) /\ Len(Chain[c]) \in Nat \ {0}
  BY ChainLength
<1>a. faults[c] \in Seq(Failures) /\ trail[c] \in Seq(Seq(Failures))
  BY DEF TypeOK
<1>b. ASSUME LinkOver(c) PROVE trail' \in [Callers -> Seq(Seq(Failures))]
  BY <1>a, <1>b DEF LinkOver, TypeOK
<1>c. ASSUME NEW f \in Failures, Fault(c, f) PROVE faults' \in [Callers -> Seq(Failures)]
  BY <1>a, <1>c DEF Fault, TypeOK
<1>d. ASSUME Tell(c) PROVE told' \in [Callers -> Nat]
  BY <1>d DEF Tell, TypeOK
<1>1. CASE Ask(c)
  <2>1. 1 \in Links(c)
    BY <1>0
  <2>2. asks' \in 0..MaxAsks /\ screen' \in [Callers -> SUBSET Nat] /\ rows' \in [Callers -> Seq(Models)]
    BY <1>1 DEF Ask, TypeOK
  <2>3. /\ tried' \in [Callers -> Nat] /\ told' \in [Callers -> Nat]
        /\ trail' \in [Callers -> Seq(Seq(Failures))]
    BY <1>1 DEF Ask, TypeOK
  <2> QED
    BY <1>1, <2>1, <2>2, <2>3, EnterTypes DEF Ask, TypeOK, States
<1>2. CASE Delta(c)
  <2>1. screen' \in [Callers -> SUBSET Nat]
    BY <1>2 DEF Delta, TypeOK
  <2> QED
    BY <1>2, <2>1 DEF Delta, place, TypeOK
<1>3. CASE Cancel(c)
  BY <1>3 DEF Cancel, TypeOK
<1>4. CASE StreamFails(c)
  <2>1. faults' \in [Callers -> Seq(Failures)]
    BY <1>4, <1>c DEF StreamFails
  <2> QED
    BY <1>4, <2>1 DEF StreamFails, TypeOK, InFlight
<1>5. CASE CallFails(c)
  <2>1. faults' \in [Callers -> Seq(Failures)]
    BY <1>5, <1>c DEF CallFails
  <2>2. told' \in [Callers -> Nat] /\ pc' \in [Callers -> States]
    BY <1>5, <1>d DEF CallFails, TypeOK, States, InFlight
  <2> QED
    BY <1>5, <2>1, <2>2 DEF CallFails, TypeOK, States
<1>6. CASE Wake(c)
  <2>1. attempt[c] + 1 \in 1..MaxRetries
    BY <1>6 DEF Wake, CInv, Waiting, TypeOK
  <2> QED
    BY <1>6, <2>1, SMTT(20) DEF Wake, InFlight, TypeOK
<1>7. CASE Switch(c)
  <2>1. link[c] + 1 \in Links(c)
    BY <1>7, <1>0 DEF Switch, TypeOK
  <2>2. tried' \in [Callers -> Nat]
    BY <1>7 DEF Switch, TypeOK
  <2> QED
    BY <1>7, <1>b, <1>d, <2>1, <2>2, EnterTypes DEF Switch, TypeOK, States
<1>8. CASE Exhausted(c)
  BY <1>8, <1>b DEF Exhausted, TypeOK
<1>9. CASE Answer(c)
  <2>1. Model(c) \in Models /\ rows[c] \in Seq(Models)
    BY <1>0, ChainLength DEF Model, TypeOK
  <2> QED
    BY <1>9, <2>1, SMTT(20) DEF Answer, TypeOK
<1>10. CASE LedgerFails(c)
  BY <1>10 DEF LedgerFails, TypeOK
<1> QED
  BY <1>1, <1>2, <1>3, <1>4, <1>5, <1>6, <1>7, <1>8, <1>9, <1>10 DEF Acts, Step

-----------------------------------------------------------------------------
\* Nothing the invariant says of d changes.
Alone(d) ==
  /\ pc'[d] = pc[d] /\ link'[d] = link[d] /\ attempt'[d] = attempt[d] /\ faults'[d] = faults[d]
  /\ screen'[d] = screen[d] /\ rows'[d] = rows[d] /\ tried'[d] = tried[d] /\ told'[d] = told[d]
  /\ trail'[d] = trail[d]

LEMMA OthersAlone ==
  ASSUME TypeOK, NEW c \in Callers, Acts(c), NEW d \in Callers, d # c
  PROVE  Alone(d)
<1>1. CASE Ask(c)
  BY <1>1 DEF Ask, Enter, Alone, TypeOK
<1>2. CASE Delta(c) \/ Cancel(c)
  BY <1>2 DEF Delta, Cancel, place, Alone, TypeOK
<1>3. CASE StreamFails(c)
  BY <1>3 DEF StreamFails, Fault, Alone, TypeOK
<1>4. CASE CallFails(c)
  <2>1. told'[d] = told[d] /\ pc'[d] = pc[d] /\ faults'[d] = faults[d]
    BY <1>4 DEF CallFails, Fault, Tell, TypeOK
  <2> QED
    BY <1>4, <2>1 DEF CallFails, Alone
<1>5. CASE Wake(c)
  BY <1>5 DEF Wake, Alone, TypeOK
<1>6. CASE Switch(c)
  <2>1. told'[d] = told[d] /\ trail'[d] = trail[d] /\ tried'[d] = tried[d]
    BY <1>6 DEF Switch, LinkOver, Tell, TypeOK
  <2> QED
    BY <1>6, <2>1 DEF Switch, Enter, Alone, TypeOK
<1>7. CASE Exhausted(c)
  BY <1>7 DEF Exhausted, LinkOver, Alone, TypeOK
<1>8. CASE Answer(c) \/ LedgerFails(c)
  BY <1>8 DEF Answer, LedgerFails, Alone, TypeOK
<1> QED
  BY <1>1, <1>2, <1>3, <1>4, <1>5, <1>6, <1>7, <1>8 DEF Acts, Step

LEMMA AloneKeeps ==
  ASSUME NEW d \in Callers, CInv(d), Alone(d)
  PROVE  CInv(d)'
BY DEF Alone, CInv, Waiting, Telling, Faulty, Trailing, Counting, Showing, GivenUp, Worth, InFlight

-----------------------------------------------------------------------------
\* A link that is given up leaves an entry in the trail.
LEMMA TrailGrows ==
  ASSUME TypeOK, NEW c \in Callers, pc[c] = "raised", CInv(c), LinkOver(c)
  PROVE  /\ Len(trail'[c]) = link[c]
         /\ \A l \in 1..Len(trail'[c]) : GivenUp(c, trail'[c][l])
<1>1. trail[c] \in Seq(Seq(Failures)) /\ faults[c] \in Seq(Failures) /\ link[c] \in Nat
  BY DEF TypeOK
<1>2. trail'[c] = Append(trail[c], faults[c])
  BY DEF LinkOver, TypeOK
<1>3. Len(trail[c]) = link[c] - 1
  BY DEF CInv, Trailing, InFlight
<1>4. GivenUp(c, faults[c]) /\ \A l \in 1..Len(trail[c]) : GivenUp(c, trail[c][l])
  BY DEF CInv, Faulty, Trailing
<1>5. Len(trail'[c]) = link[c] /\ trail'[c][link[c]] = faults[c]
  BY <1>1, <1>2, <1>3, SMTT(20)
<1>6. ASSUME NEW l \in 1..Len(trail[c]) PROVE trail'[c][l] = trail[c][l]
  BY <1>1, <1>2
<1>7. ASSUME NEW l \in 1..Len(trail'[c]) PROVE GivenUp(c, trail'[c][l])
  <2>1. CASE l = link[c]
    BY <1>4, <1>5, <2>1
  <2>2. CASE l # link[c]
    <3>1. l \in 1..Len(trail[c])
      BY <1>1, <1>3, <1>5, <2>2
    <3> QED
      BY <1>4, <1>6, <3>1
  <2> QED
    BY <2>1, <2>2
<1> QED
  BY <1>5, <1>7

\* What the invariant says of the link just entered.
LEMMA EnterLocal ==
  ASSUME TypeOK, NEW c \in Callers, NEW l \in Links(c), Enter(c, l)
  PROVE  /\ link'[c] = l /\ attempt'[c] = 1 /\ pc'[c] \in {"raised", "calling"}
         /\ pc'[c] = "raised" => faults'[c] = <<"refused">>
         /\ pc'[c] = "calling" => faults'[c] = <<>>
BY DEF Enter, TypeOK

\* One link's worth of attempts more.
LEMMA OneLinkMore ==
  ASSUME NEW l \in Nat \ {0}, NEW w \in Nat, NEW n \in Nat, n <= (l - 1) * w + w
  PROVE  n <= l * w
BY (l - 1) * w + w = l * w

LEMMA RefusedIsGivenUp == ASSUME NEW c PROVE GivenUp(c, <<"refused">>)
<1> DEFINE s == <<"refused">>
<1>1. Len(s) = 1 /\ s[1] = "refused" /\ s # <<>>
  OBVIOUS
<1> HIDE DEF s
<1>2. GivenUp(c, s)
  BY <1>1 DEF GivenUp
<1> QED
  BY <1>2 DEF s

LEMMA AskInv ==
  ASSUME TypeOK, NEW c \in Callers, Ask(c)
  PROVE  CInv(c)'
<1>1. 1 \in Links(c)
  BY ChainLength
<1>2. /\ link'[c] = 1 /\ attempt'[c] = 1 /\ pc'[c] \in {"raised", "calling"}
      /\ pc'[c] = "raised" => faults'[c] = <<"refused">>
      /\ pc'[c] = "calling" => faults'[c] = <<>>
  BY <1>1, EnterLocal DEF Ask
<1>3. screen'[c] = {} /\ tried'[c] = 1 /\ told'[c] = 0 /\ trail'[c] = <<>>
  BY DEF Ask, TypeOK
<1>4. Waiting(c)'
  BY <1>2 DEF Waiting
<1>a. pc'[c] = "raised" => GivenUp(c, faults'[c])
  BY <1>2, RefusedIsGivenUp
<1>b. Faulty(c)'
  BY <1>2, <1>a DEF Faulty, GivenUp
<1>5. Telling(c)' /\ Showing(c)'
  BY <1>2, <1>3 DEF Telling, Showing
<1>6. Trailing(c)' /\ Counting(c)'
  BY <1>2, <1>3 DEF Trailing, Counting, InFlight, Worth
<1> QED
  BY <1>4, <1>5, <1>6, <1>b DEF CInv

LEMMA SwitchInv ==
  ASSUME TypeOK, NEW c \in Callers, CInv(c), Switch(c)
  PROVE  CInv(c)'
<1>0. link[c] \in Nat \ {0} /\ link[c] + 1 \in Links(c) /\ tried[c] \in Nat /\ attempt[c] \in 1..MaxRetries
  <2>1. link[c] \in Links(c) /\ tried[c] \in Nat /\ attempt[c] \in 1..MaxRetries
    BY DEF TypeOK
  <2>2. link[c] < Len(Chain[c])
    BY DEF Switch
  <2> QED
    BY <2>1, <2>2, ChainLength
<1>1. pc[c] = "raised" /\ Enter(c, link[c] + 1) /\ LinkOver(c)
  BY DEF Switch
<1>2. /\ link'[c] = link[c] + 1 /\ attempt'[c] = 1 /\ pc'[c] \in {"raised", "calling"}
      /\ pc'[c] = "raised" => faults'[c] = <<"refused">>
      /\ pc'[c] = "calling" => faults'[c] = <<>>
  BY <1>0, <1>1, EnterLocal
<1>3. /\ screen'[c] = screen[c] /\ tried'[c] = tried[c] + 1
      /\ c \notin Silent => told'[c] = told[c] + 1
  BY DEF Switch, Tell, TypeOK
<1>4. Waiting(c)'
  BY <1>2 DEF Waiting
<1>5. pc'[c] = "raised" => GivenUp(c, faults'[c])
  BY <1>2, RefusedIsGivenUp
<1>6. Faulty(c)'
  BY <1>2, <1>5 DEF Faulty, GivenUp
<1>7. Telling(c)'
  BY <1>1, <1>2, <1>3 DEF CInv, Telling, TypeOK
<1>8. Showing(c)'
  BY <1>1, <1>2, <1>3 DEF CInv, Showing
<1>9. Trailing(c)'
  <2>1. Len(trail'[c]) = link'[c] - 1 /\ \A l \in 1..Len(trail'[c]) : GivenUp(c, trail'[c][l])
    BY <1>0, <1>1, <1>2, TrailGrows
  <2> QED
    BY <1>2, <2>1 DEF Trailing, GivenUp
<1>10. Counting(c)'
  <2>1. tried[c] <= (link[c] - 1) * Worth(c) + Worth(c)
    BY <1>0 DEF CInv, Counting, Waiting, Worth
  <2>2. tried[c] <= link[c] * Worth(c)
    BY <1>0, <2>1, OneLinkMore DEF Worth
  <2>3. Worth(c)' = Worth(c) /\ link'[c] - 1 = link[c]
    BY <1>0, <1>2 DEF Worth
  <2> QED
    BY <1>0, <1>2, <1>3, <2>2, <2>3 DEF Counting, Worth
<1> QED
  BY <1>4, <1>6, <1>7, <1>8, <1>9, <1>10 DEF CInv

\* A failure leads to a back-off, to the end of the link, or, in a stream that has begun, of
\* the call.
LEMMA FaultGrows ==
  ASSUME TypeOK, NEW c \in Callers, pc[c] = "calling", CInv(c), NEW f \in Failures, Fault(c, f)
  PROVE  /\ Len(faults'[c]) = attempt[c] /\ faults'[c] # <<>>
         /\ \A n \in 1..(attempt[c] - 1) : faults'[c][n] = "overloaded"
         /\ faults'[c][attempt[c]] = f
<1>1. faults[c] \in Seq(Failures) /\ attempt[c] \in Nat \ {0}
  BY DEF TypeOK
<1>2. faults'[c] = Append(faults[c], f)
  BY DEF Fault, TypeOK
<1>3. /\ Len(faults[c]) = attempt[c] - 1
      /\ \A n \in 1..Len(faults[c]) : faults[c][n] = "overloaded"
  BY DEF CInv, Faulty
<1>4. \A n \in 1..Len(faults[c]) : faults'[c][n] = faults[c][n]
  BY <1>1, <1>2
<1>5. Len(faults'[c]) = attempt[c] /\ faults'[c][attempt[c]] = f
  BY <1>1, <1>2, <1>3
<1>6. faults'[c] # <<>>
  BY <1>1, <1>5
<1> QED
  BY <1>3, <1>4, <1>5, <1>6

LEMMA StreamFailsInv ==
  ASSUME TypeOK, NEW c \in Callers, CInv(c), StreamFails(c)
  PROVE  CInv(c)'
<1>1. PICK f \in Failures : Fault(c, f)
  BY DEF StreamFails
<1>2. /\ c \in Streams /\ pc[c] = "calling" /\ attempt[c] = 1
      /\ pc'[c] = (IF link[c] \in screen[c] THEN "failed" ELSE "raised")
      /\ UNCHANGED <<link, attempt, screen, rows, tried, told, trail>>
  BY DEF StreamFails, TypeOK, CInv, Waiting
<1>3. GivenUp(c, faults'[c])
  BY <1>1, <1>2, FaultGrows DEF GivenUp
<1>4. Waiting(c)' /\ Telling(c)' /\ Counting(c)'
  BY <1>2 DEF CInv, Waiting, Telling, Counting, Worth
<1>5. Faulty(c)'
  BY <1>2, <1>3 DEF Faulty, GivenUp
<1>6. Trailing(c)'
  BY <1>2 DEF CInv, Trailing, GivenUp, InFlight
<1>7. Showing(c)'
  BY <1>2 DEF CInv, Showing
<1> QED
  BY <1>4, <1>5, <1>6, <1>7 DEF CInv

LEMMA CallFailsInv ==
  ASSUME TypeOK, NEW c \in Callers, CInv(c), CallFails(c)
  PROVE  CInv(c)'
<1>1. PICK f \in Failures :
        /\ Fault(c, f)
        /\ IF Retried(c, f)
             THEN pc' = [pc EXCEPT ![c] = "sleeping"] /\ Tell(c)
             ELSE pc' = [pc EXCEPT ![c] = "raised"] /\ UNCHANGED told
  BY DEF CallFails
<1>2. /\ c \notin Streams /\ pc[c] = "calling"
      /\ UNCHANGED <<link, attempt, screen, rows, tried, trail>>
  BY DEF CallFails
<1>3. /\ Len(faults'[c]) = attempt[c] /\ faults'[c] # <<>>
      /\ \A n \in 1..(attempt[c] - 1) : faults'[c][n] = "overloaded"
      /\ faults'[c][attempt[c]] = f
  BY <1>1, <1>2, FaultGrows
<1>4. attempt[c] \in 1..MaxRetries /\ tried[c] \in Nat /\ told[c] \in Nat
  BY DEF TypeOK
<1>5. Counting(c)'
  BY <1>2 DEF CInv, Counting, Worth
<1>6. CASE Retried(c, f)
  <2>1. pc'[c] = "sleeping" /\ (c \notin Silent => told'[c] = told[c] + 1)
    BY <1>1, <1>6 DEF Tell, TypeOK
  <2>2. Waiting(c)'
    BY <1>2, <1>6, <2>1 DEF Waiting, Retried
  <2>3. Telling(c)'
    BY <1>2, <1>4, <2>1 DEF CInv, Telling
  <2>4. \A n \in 1..attempt[c] : faults'[c][n] = "overloaded"
    BY <1>3, <1>4, <1>6 DEF Retried
  <2>5. Faulty(c)'
    BY <1>2, <1>3, <2>1, <2>4 DEF Faulty
  <2>6. Trailing(c)'
    BY <1>2, <2>1 DEF CInv, Trailing, GivenUp, InFlight
  <2>7. Showing(c)'
    BY <1>2, <2>1 DEF CInv, Showing
  <2> QED
    BY <1>5, <2>2, <2>3, <2>5, <2>6, <2>7 DEF CInv
<1>7. CASE ~Retried(c, f)
  <2>1. pc'[c] = "raised" /\ told'[c] = told[c]
    BY <1>1, <1>7 DEF TypeOK
  <2>2. Waiting(c)' /\ Telling(c)'
    BY <1>2, <2>1 DEF CInv, Waiting, Telling
  <2>3. f = "overloaded" => attempt[c] = MaxRetries
    BY <1>4, <1>7 DEF Retried
  <2>4. GivenUp(c, faults'[c])
    BY <1>3, <2>3 DEF GivenUp
  <2>5. Faulty(c)'
    BY <2>1, <2>4 DEF Faulty, GivenUp
  <2>6. Trailing(c)'
    BY <1>2, <2>1 DEF CInv, Trailing, GivenUp, InFlight
  <2>7. Showing(c)'
    BY <1>2, <2>1 DEF CInv, Showing
  <2> QED
    BY <1>5, <2>2, <2>5, <2>6, <2>7 DEF CInv
<1> QED
  BY <1>6, <1>7

LEMMA WakeInv ==
  ASSUME TypeOK, NEW c \in Callers, CInv(c), Wake(c)
  PROVE  CInv(c)'
<1>1. /\ pc[c] = "sleeping" /\ pc'[c] = "calling"
      /\ attempt'[c] = attempt[c] + 1 /\ tried'[c] = tried[c] + 1
      /\ UNCHANGED <<link, faults, screen, told, trail>>
  BY DEF Wake, TypeOK
<1>2. attempt[c] \in Nat /\ tried[c] \in Nat /\ told[c] \in Nat /\ link[c] \in Nat
  BY DEF TypeOK
<1>3. Waiting(c)' /\ Showing(c)'
  BY <1>1 DEF CInv, Waiting, Showing
<1>4. Telling(c)'
  BY <1>1, <1>2 DEF CInv, Telling
<1>5. Faulty(c)'
  BY <1>1, <1>2 DEF CInv, Faulty
<1>6. Trailing(c)'
  BY <1>1 DEF CInv, Trailing, GivenUp, InFlight
<1>7. Counting(c)'
  <2>1. (link[c] - 1) * Worth(c) \in Int
    <3>1. link[c] - 1 \in Int /\ Worth(c) \in Int
      BY <1>2 DEF Worth
    <3> QED
      BY <3>1
  <2>2. tried[c] <= (link[c] - 1) * Worth(c) + attempt[c]
    BY DEF CInv, Counting
  <2>3. tried[c] + 1 <= (link[c] - 1) * Worth(c) + (attempt[c] + 1)
    BY <1>2, <2>1, <2>2
  <2> QED
    BY <1>1, <2>3 DEF Counting, Worth
<1> QED
  BY <1>3, <1>4, <1>5, <1>6, <1>7 DEF CInv

LEMMA ExhaustedInv ==
  ASSUME TypeOK, NEW c \in Callers, CInv(c), Exhausted(c)
  PROVE  CInv(c)'
<1>1. /\ pc[c] = "raised" /\ link[c] = Len(Chain[c]) /\ pc'[c] = "exhausted" /\ LinkOver(c)
      /\ UNCHANGED <<link, attempt, faults, screen, tried, told>>
  BY DEF Exhausted, TypeOK
<1>2. Waiting(c)' /\ Telling(c)' /\ Showing(c)' /\ Counting(c)'
  BY <1>1 DEF CInv, Waiting, Telling, Showing, Counting, Worth
<1>3. Faulty(c)'
  BY <1>1 DEF Faulty
<1>4. Len(trail'[c]) = Len(Chain[c]) /\ \A l \in 1..Len(trail'[c]) : GivenUp(c, trail'[c][l])
  BY <1>1, TrailGrows
<1>5. Trailing(c)'
  BY <1>1, <1>4 DEF Trailing, GivenUp, InFlight
<1> QED
  BY <1>2, <1>3, <1>5 DEF CInv

LEMMA ReturnInv ==
  ASSUME TypeOK, NEW c \in Callers, CInv(c), Answer(c) \/ LedgerFails(c) \/ Cancel(c)
  PROVE  CInv(c)'
<1>1. /\ pc[c] \in {"calling", "sleeping"} /\ pc'[c] \in {"answered", "failed"}
      /\ UNCHANGED <<link, attempt, faults, screen, tried, told, trail>>
  BY DEF Answer, LedgerFails, Cancel, TypeOK
<1>2. Waiting(c)' /\ Telling(c)' /\ Counting(c)' /\ Faulty(c)' /\ Showing(c)'
  BY <1>1 DEF CInv, Waiting, Telling, Counting, Worth, Faulty, Showing
<1>3. Trailing(c)'
  BY <1>1 DEF CInv, Trailing, GivenUp, InFlight
<1> QED
  BY <1>2, <1>3 DEF CInv

LEMMA DeltaInv ==
  ASSUME TypeOK, NEW c \in Callers, CInv(c), Delta(c)
  PROVE  CInv(c)'
<1>1. /\ c \in Streams /\ pc[c] = "calling" /\ screen'[c] = screen[c] \cup {link[c]}
      /\ UNCHANGED <<pc, link, attempt, faults, tried, told, trail>>
  BY DEF Delta, place, TypeOK
<1>2. Waiting(c)' /\ Telling(c)' /\ Counting(c)' /\ Faulty(c)' /\ Trailing(c)'
  BY <1>1 DEF CInv, Waiting, Telling, Counting, Worth, Faulty, GivenUp, Trailing
<1>3. Showing(c)'
  BY <1>1 DEF CInv, Showing
<1> QED
  BY <1>2, <1>3 DEF CInv

-----------------------------------------------------------------------------
LEMMA StepInv == Inv /\ [Next]_vars => Inv'
<1> SUFFICES ASSUME Inv, [Next]_vars PROVE Inv'
  OBVIOUS
<1>1. TypeOK /\ \A c \in Callers : CInv(c)
  BY DEF Inv
<1>2. ASSUME NEW c \in Callers, Acts(c) PROVE Inv'
  <2>1. TypeOK'
    BY <1>1, <1>2, TypeStep
  <2>2. CInv(c)'
    BY <1>1, <1>2, AskInv, DeltaInv, ReturnInv, StreamFailsInv, CallFailsInv, WakeInv,
       SwitchInv, ExhaustedInv DEF Acts, Step
  <2>3. ASSUME NEW d \in Callers, d # c PROVE CInv(d)'
    BY <1>1, <1>2, <2>3, OthersAlone, AloneKeeps
  <2> QED
    BY <2>1, <2>2, <2>3 DEF Inv
<1>3. CASE UNCHANGED vars
  <2>1. TypeOK'
    BY <1>1, <1>3 DEF vars, place, TypeOK
  <2>2. ASSUME NEW d \in Callers PROVE CInv(d)'
    <3>1. Alone(d)
      BY <1>3 DEF vars, place, Alone
    <3> QED
      BY <1>1, <3>1, AloneKeeps
  <2> QED
    BY <2>1, <2>2 DEF Inv
<1> QED
  BY <1>2, <1>3 DEF Next, Acts

LEMMA Invariance == Spec => []Inv
BY InitInv, StepInv, PTL DEF Spec

\* The state of every caller stays typed (LiteLLMProvider's locals and the ledger's rows).
THEOREM TypeCorrect == Spec => []TypeOK
<1>1. Inv => TypeOK
  BY DEF Inv
<1> QED
  BY <1>1, Invariance, PTL

\* Each retry and each switch of model is reported once, before the attempt it announces.
THEOREM AttemptsTold == Spec => []EveryAttemptIsTold
<1>1. Inv => EveryAttemptIsTold
  BY DEF Inv, CInv, Telling, EveryAttemptIsTold
<1> QED
  BY <1>1, Invariance, PTL

\* A chain that is exhausted was walked to its end, each link given up when it should be.
THEOREM GivenUpInTime == Spec => []GivesUpInTime
<1>1. Inv => GivesUpInTime
  <2> SUFFICES ASSUME Inv, NEW c \in Callers, pc[c] = "exhausted"
               PROVE  /\ Len(trail[c]) = Len(Chain[c])
                      /\ \A l \in Links(c) : GivenUp(c, trail[c][l])
    BY DEF GivesUpInTime, GivenUp
  <2>1. Trailing(c)
    BY DEF Inv, CInv
  <2> QED
    BY <2>1, ChainLength DEF Trailing
<1> QED
  BY <1>1, Invariance, PTL

\* No call makes more than MaxRetries attempts on each link of its chain, a stream one.
THEOREM AttemptsAreBounded == Spec => []AttemptsBounded
<1>1. Inv => AttemptsBounded
  <2> SUFFICES ASSUME Inv, NEW c \in Callers PROVE tried[c] <= Len(Chain[c]) * Worth(c)
    BY DEF AttemptsBounded, Worth
  <2>1. tried[c] \in Nat /\ link[c] \in Links(c) /\ attempt[c] \in 1..MaxRetries
    BY DEF Inv, TypeOK
  <2>2. Counting(c) /\ Waiting(c)
    BY DEF Inv, CInv
  <2>3. Worth(c) \in Nat /\ attempt[c] <= Worth(c)
    BY <2>1, <2>2 DEF Worth, Waiting
  <2>4. link[c] \in Nat \ {0} /\ Len(Chain[c]) - link[c] \in Nat /\ Len(Chain[c]) \in Nat
    BY <2>1, ChainLength
  <2>5. (link[c] - 1) * Worth(c) \in Nat
    <3>1. link[c] - 1 \in Nat
      BY <2>4
    <3> QED
      BY <2>3, <3>1
  <2>6. tried[c] <= (link[c] - 1) * Worth(c) + Worth(c)
    BY <2>1, <2>2, <2>3, <2>5 DEF Counting
  <2>7. tried[c] <= link[c] * Worth(c)
    BY <2>1, <2>3, <2>4, <2>6, OneLinkMore
  <2>8. /\ Len(Chain[c]) * Worth(c) = link[c] * Worth(c) + (Len(Chain[c]) - link[c]) * Worth(c)
        /\ (Len(Chain[c]) - link[c]) * Worth(c) \in Nat /\ link[c] * Worth(c) \in Nat
    <3>1. ASSUME NEW a \in Nat, NEW b \in Nat, NEW w \in Nat, a - b \in Nat
          PROVE  a * w = b * w + (a - b) * w /\ (a - b) * w \in Nat /\ b * w \in Nat
      <4>1. (a - b) * w \in Nat /\ b * w \in Nat
        BY <3>1
      <4>2. a * w = b * w + (a - b) * w
        BY <3>1
      <4> QED
        BY <4>1, <4>2
    <3> QED
      BY <2>3, <2>4, <3>1
  <2> QED
    BY <2>1, <2>7, <2>8
<1> QED
  BY <1>1, Invariance, PTL

-----------------------------------------------------------------------------
\* state names what the contract knows of a caller.
LEMMA StateStep ==
  ASSUME TypeOK, NEW c \in Callers, NEW s \in States, pc' = [pc EXCEPT ![c] = s]
  PROVE  state' = [state EXCEPT ![c] = IF s \in InFlight THEN "asked"
                                       ELSE IF s = "exhausted" THEN "failed" ELSE s]
BY DEF TypeOK, state

LEMMA StateOf ==
  ASSUME NEW c \in Callers
  PROVE  state[c] = IF pc[c] \in InFlight THEN "asked"
                    ELSE IF pc[c] = "exhausted" THEN "failed" ELSE pc[c]
BY DEF state

\* A step within a call is none of the contract's business.
LEMMA StillAsked ==
  ASSUME TypeOK, NEW c \in Callers, pc[c] \in InFlight, NEW s \in InFlight,
         pc' = [pc EXCEPT ![c] = s]
  PROVE  state' = state
<1>1. state' = [state EXCEPT ![c] = "asked"]
  BY StateStep DEF States
<1>2. state[c] = "asked"
  BY StateOf
<1> QED
  BY <1>1, <1>2 DEF state

LEMMA RefinesStep == Inv /\ [Next]_vars => [Contract!ContractNext]_(Contract!contractVars)
<1> SUFFICES ASSUME Inv, [Next]_vars
             PROVE  Contract!ContractNext \/ UNCHANGED <<state, screen, rows>>
  BY DEF Contract!contractVars
<1>0. TypeOK /\ \A c \in Callers : CInv(c)
  BY DEF Inv
<1>1. ASSUME NEW c \in Callers, Ask(c) PROVE Contract!Asked(c)
  <2>1. PICK s \in {"raised", "calling"} : pc' = [pc EXCEPT ![c] = s]
    BY <1>1 DEF Ask, Enter
  <2>2. state' = [state EXCEPT ![c] = "asked"]
    BY <1>0, <2>1, StateStep DEF States, InFlight
  <2>3. state[c] # "asked"
    BY <1>0, <1>1, StateOf DEF Ask, TypeOK, InFlight
  <2> QED
    BY <1>1, <2>2, <2>3 DEF Ask, Contract!Asked
<1>2. ASSUME NEW c \in Callers, Delta(c) PROVE Contract!Shown(c, link[c])
  <2>1. state[c] = "asked" /\ state' = state /\ rows' = rows
    BY <1>2, StateOf DEF Delta, place, InFlight, state
  <2>2. screen[c] \subseteq {link[c]}
    BY <1>0, <1>2 DEF Delta, CInv, Showing
  <2>3. screen[c] \cup {link[c]} = {link[c]}
    BY <2>2
  <2> QED
    BY <1>2, <2>1, <2>2, <2>3 DEF Delta, Contract!Shown
<1>3. ASSUME NEW c \in Callers, Answer(c) PROVE Contract!AnsweredBy(c, link[c])
  <2>1. state[c] = "asked" /\ state' = [state EXCEPT ![c] = "answered"]
    BY <1>0, <1>3, StateOf, StateStep DEF Answer, InFlight, States
  <2>2. screen[c] \subseteq {link[c]}
    BY <1>0, <1>3 DEF Answer, CInv, Showing
  <2> QED
    BY <1>3, <2>1, <2>2 DEF Answer, Model, Contract!AnsweredBy
<1>4. ASSUME NEW c \in Callers, Cancel(c) \/ LedgerFails(c) \/ Exhausted(c)
      PROVE  Contract!Failed(c)
  <2>1. PICK s \in {"failed", "exhausted"} : pc' = [pc EXCEPT ![c] = s]
    BY <1>4 DEF Cancel, LedgerFails, Exhausted
  <2>2. state' = [state EXCEPT ![c] = "failed"]
    BY <1>0, <2>1, StateStep DEF States, InFlight
  <2>3. state[c] = "asked"
    BY <1>4, StateOf DEF Cancel, LedgerFails, Exhausted, InFlight
  <2> QED
    BY <1>4, <2>2, <2>3 DEF Cancel, LedgerFails, Exhausted, Contract!Failed
<1>5. ASSUME NEW c \in Callers, StreamFails(c)
      PROVE  Contract!Failed(c) \/ UNCHANGED <<state, screen, rows>>
  <2>1. state[c] = "asked" /\ UNCHANGED <<screen, rows>>
    BY <1>5, StateOf DEF StreamFails, InFlight
  <2>2. CASE link[c] \in screen[c]
    <3>1. state' = [state EXCEPT ![c] = "failed"]
      BY <1>0, <1>5, <2>2, StateStep DEF StreamFails, States, InFlight
    <3> QED
      BY <2>1, <3>1 DEF Contract!Failed
  <2>3. CASE link[c] \notin screen[c]
    BY <1>0, <1>5, <2>1, <2>3, StillAsked DEF StreamFails, InFlight
  <2> QED
    BY <2>2, <2>3
<1>6. ASSUME NEW c \in Callers, CallFails(c) \/ Wake(c) \/ Switch(c)
      PROVE  UNCHANGED <<state, screen, rows>>
  <2>1. pc[c] \in InFlight /\ \E s \in InFlight : pc' = [pc EXCEPT ![c] = s]
    BY <1>6 DEF CallFails, Wake, Switch, Enter, InFlight
  <2>2. state' = state
    BY <1>0, <2>1, StillAsked
  <2> QED
    BY <1>6, <2>2 DEF CallFails, Wake, Switch
<1>7. CASE UNCHANGED vars
  BY <1>7 DEF vars, place, state
<1>8. ASSUME NEW c \in Callers PROVE link[c] \in Contract!Links(c)
  BY <1>0 DEF TypeOK, Links, Contract!Links
<1> QED
  BY <1>1, <1>2, <1>3, <1>4, <1>5, <1>6, <1>7, <1>8 DEF Next, Step, Contract!ContractNext

\* complete implements its contract: one answer, one model on screen, one row under it.
THEOREM Implements == Spec => ContractKept
<1>1. Init => Contract!ContractInit
  BY DEF Init, state, InFlight, Contract!ContractInit
<1> QED
  BY <1>1, RefinesStep, Invariance, PTL DEF Spec, ContractKept, Contract!ContractSpec
=============================================================================
