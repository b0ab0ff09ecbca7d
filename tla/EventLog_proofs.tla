--------------------------- MODULE EventLog_proofs ---------------------------
(***************************************************************************)
(* Theorems about the event log, for any processes and bounds.  Every      *)
(* write to the file is an instance of Grown, and every way out of a call  *)
(* an instance of Shrunk, so that the steps share their arguments.         *)
(***************************************************************************)
EXTENDS EventLog, SequenceTheorems, TLAPS

Top(p) == stack[p][Len(stack[p])]
Live(p) == stack[p] # <<>> /\ Top(p).at \in {"numbered", "counted", "buffered", "written"}

\* Frames whose event has yet to reach the file.
Pending == {"numbered", "counted", "buffered", "closing"}

Head1(f, i) == f[i].events[1]

\* KeptIn, and its line is not open to more text.
Kept(f, e) ==
  \E i \in DOMAIN f :
    \/ f[i].whole /\ f[i].ended /\ f[i].events = <<e>>
    \/ \E j \in DOMAIN f[i].events :
         f[i].events[j] = e /\ {Head1(f, i).session, e.session} \in overlap

\* f became g when a write of e went in, whole or in part.
Grown(f, g, e) ==
  /\ g \in Seq(Line) /\ Len(f) <= Len(g)
  /\ \A i \in DOMAIN g :
       /\ Len(g[i].events) >= 1
       /\ \/ i \in DOMAIN f /\ Head1(g, i) = Head1(f, i)
          \/ i = Len(f) + 1 /\ Head1(g, i) = e
  /\ \A d \in Event : Kept(f, d) => Kept(g, d)
  /\ Unterminated(g) => \/ Unterminated(f) /\ Head1(g, Len(g)) = Head1(f, Len(f))
                        \/ Head1(g, Len(g)) = e

-----------------------------------------------------------------------------
(* The operators on sequences *)

LEMMA FirstOf ==
  ASSUME NEW S, NEW s, NEW n \in Nat, \A i \in 1..n : s[i] \in S
  PROVE  /\ SubSeq(s, 1, n) \in Seq(S) /\ Len(SubSeq(s, 1, n)) = n
         /\ \A i \in 1..n : SubSeq(s, 1, n)[i] = s[i]
<1> DEFINE r == SubSeq(s, 1, n)
<1>1. 1 \in Int /\ n \in Int
  OBVIOUS
<1>2. r \in Seq(S)
  BY <1>1, SubSeqProperties
<1>3. Len(r) = IF 1 <= n THEN n - 1 + 1 ELSE 0
  BY <1>1, SubSeqProperties
<1>4. \A i \in 1..n - 1 + 1 : r[i] = s[1 + i - 1]
  BY <1>1, SubSeqProperties
<1>5. Len(r) = n
  BY <1>3
<1>6. \A i \in 1..n : i \in 1..n - 1 + 1 /\ 1 + i - 1 = i
  OBVIOUS
<1> QED BY <1>2, <1>4, <1>5, <1>6

LEMMA FrontFacts ==
  ASSUME NEW S, NEW s \in Seq(S), s # <<>>
  PROVE  /\ Front(s) \in Seq(S) /\ Len(Front(s)) = Len(s) - 1
         /\ \A i \in 1..Len(s) - 1 : Front(s)[i] = s[i]
         /\ Len(s) \in Nat \ {0} /\ Last(s) = s[Len(s)] /\ Last(s) \in S
<1>1. /\ Len(s) \in Nat \ {0} /\ Len(s) - 1 \in Nat
      /\ \A i \in 1..Len(s) - 1 : s[i] \in S
      /\ s[Len(s)] \in S
  BY EmptySeq
<1>2. /\ Front(s) \in Seq(S) /\ Len(Front(s)) = Len(s) - 1
      /\ \A i \in 1..Len(s) - 1 : Front(s)[i] = s[i]
  <2>1. PICK n \in Nat : n = Len(s) - 1
    BY <1>1
  <2>2. \A i \in 1..n : s[i] \in S
    BY <1>1, <2>1
  <2>3. /\ SubSeq(s, 1, n) \in Seq(S) /\ Len(SubSeq(s, 1, n)) = n
        /\ \A i \in 1..n : SubSeq(s, 1, n)[i] = s[i]
    BY <2>1, <2>2, FirstOf, SMT
  <2>4. Front(s) = SubSeq(s, 1, n)
    BY <2>1, Zenon DEF Front
  <2> QED BY <2>1, <2>3, <2>4, Zenon
<1> QED BY <1>1, <1>2 DEF Last

LEMMA RaisedFacts ==
  ASSUME NEW s \in Seq(Frame)
  PROVE  /\ Raised(s) \in Seq(Frame) /\ Len(Raised(s)) = Len(s)
         /\ \A i \in 1..Len(s) : /\ Raised(s)[i].event = s[i].event
                                 /\ Raised(s)[i].at \in Pending => s[i].at \in Pending
         /\ s # <<>> => Raised(s)[Len(s)].at \in {"closing", "leaving"}
<1>1. CASE s = <<>>
  BY <1>1 DEF Raised
<1>2. CASE s # <<>>
  <2> DEFINE n == Len(s)
             place == IF s[n].at \in {"buffered", "closing"} THEN "closing" ELSE "leaving"
  <2>1. n \in Nat \ {0} /\ s[n] \in Frame
    BY <1>2
  <2>2. Raised(s) = [s EXCEPT ![n] = [s[n] EXCEPT !.at = place]]
    BY <1>2, <2>1 DEF Raised
  <2>3. place \in {"closing", "leaving"} /\ (place = "closing" => s[n].at \in Pending)
    BY DEF Pending
  <2>4. [s[n] EXCEPT !.at = place] \in Frame
    BY <2>1, <2>3 DEF Frame, Places
  <2>5. Raised(s) \in Seq(Frame) /\ Len(Raised(s)) = Len(s)
    BY <2>1, <2>2, <2>4
  <2>6. Raised(s)[n] = [s[n] EXCEPT !.at = place] /\ \A i \in 1..n : i # n => Raised(s)[i] = s[i]
    BY <2>1, <2>2
  <2>7. Raised(s)[n].at = place /\ Raised(s)[n].event = s[n].event
    BY <2>1, <2>6 DEF Frame
  <2> QED BY <2>1, <2>3, <2>5, <2>6, <2>7 DEF Pending
<1> QED BY <1>1, <1>2

-----------------------------------------------------------------------------
(* Writes *)

Filled(f) == \A i \in DOMAIN f : Len(f[i].events) >= 1

LEMMA EndedFacts ==
  ASSUME NEW f \in Seq(Line)
  PROVE  /\ Ended(f) \in Seq(Line) /\ Len(Ended(f)) = Len(f) /\ Len(f) \in Nat
         /\ \A i \in 1..Len(f) : /\ Ended(f)[i].events = f[i].events
                                 /\ Ended(f)[i].whole = f[i].whole
                                 /\ f[i].ended => Ended(f)[i].ended
         /\ ~Unterminated(Ended(f))
<1>1. CASE f = <<>>
  BY <1>1 DEF Ended, Unterminated
<1>2. CASE f # <<>>
  <2> DEFINE n == Len(f)
             line == [f[n] EXCEPT !.ended = TRUE]
  <2>1. n \in Nat \ {0} /\ f[n] \in Line
    BY <1>2, EmptySeq
  <2>2. Ended(f) = [f EXCEPT ![n] = line]
    BY <1>2, <2>1 DEF Ended
  <2>3. line \in Line /\ line.events = f[n].events /\ line.whole = f[n].whole /\ line.ended
    BY <2>1 DEF Line
  <2> HIDE DEF line
  <2>4. Ended(f) \in Seq(Line) /\ Len(Ended(f)) = n
    BY <2>1, <2>2, <2>3
  <2>5. Ended(f)[n] = line /\ \A i \in 1..n : i # n => Ended(f)[i] = f[i]
    BY <2>1, <2>2
  <2>6. ~Unterminated(Ended(f))
    BY <2>3, <2>4, <2>5 DEF Unterminated, Last
  <2> QED BY <2>1, <2>3, <2>4, <2>5, <2>6
<1> QED BY <1>1, <1>2

LEMMA PutFacts ==
  ASSUME NEW f \in Seq(Line), NEW e \in Event, NEW w \in BOOLEAN, NEW b \in BOOLEAN
  PROVE  /\ Put(f, e, w, b) \in Seq(Line) /\ Len(f) \in Nat
         /\ Unterminated(f) =>
              /\ Len(f) >= 1 /\ Len(Put(f, e, w, b)) = Len(f) /\ ~f[Len(f)].ended
              /\ \A i \in 1..Len(f) : i # Len(f) => Put(f, e, w, b)[i] = f[i]
              /\ Put(f, e, w, b)[Len(f)] =
                   [events |-> Append(f[Len(f)].events, e), whole |-> FALSE, ended |-> b]
         /\ ~Unterminated(f) =>
              /\ Len(Put(f, e, w, b)) = Len(f) + 1
              /\ \A i \in 1..Len(f) : Put(f, e, w, b)[i] = f[i]
              /\ Put(f, e, w, b)[Len(f) + 1] = [events |-> <<e>>, whole |-> w, ended |-> b]
<1>1. CASE Unterminated(f)
  <2> DEFINE n == Len(f)
             line == [events |-> Append(f[n].events, e), whole |-> FALSE, ended |-> b]
  <2>1. n \in Nat \ {0} /\ f[n] \in Line /\ ~f[n].ended
    BY <1>1, EmptySeq DEF Unterminated, Last
  <2>2. Put(f, e, w, b) = [f EXCEPT ![n] = line]
    BY <1>1, <2>1 DEF Put
  <2>3. line \in Line
    BY <2>1 DEF Line
  <2> HIDE DEF line
  <2>4. Put(f, e, w, b) \in Seq(Line) /\ Len(Put(f, e, w, b)) = n
    BY <2>1, <2>2, <2>3
  <2>5. Put(f, e, w, b)[n] = line /\ \A i \in 1..n : i # n => Put(f, e, w, b)[i] = f[i]
    BY <2>1, <2>2
  <2> QED BY <1>1, <2>1, <2>4, <2>5 DEF line
<1>2. CASE ~Unterminated(f)
  <2> DEFINE line == [events |-> <<e>>, whole |-> w, ended |-> b]
  <2>1. Put(f, e, w, b) = Append(f, line)
    BY <1>2 DEF Put
  <2>2. line \in Line
    BY DEF Line
  <2> HIDE DEF line
  <2>3. /\ Put(f, e, w, b) \in Seq(Line) /\ Len(f) \in Nat /\ Len(Put(f, e, w, b)) = Len(f) + 1
        /\ \A i \in 1..Len(f) : Put(f, e, w, b)[i] = f[i]
        /\ Put(f, e, w, b)[Len(f) + 1] = line
    BY <2>1, <2>2
  <2> QED BY <1>2, <2>3 DEF line
<1> QED BY <1>1, <1>2

\* A line that keeps its events, and one that is longer at its end, keep what
\* is kept.
LEMMA GrownByLines ==
  ASSUME NEW f \in Seq(Line), NEW g \in Seq(Line), NEW d \in Event, Filled(f),
         Kept(f, d), Len(f) <= Len(g),
         \A i \in 1..Len(f) :
           \/ /\ g[i].events = f[i].events
              /\ f[i].whole /\ f[i].ended => g[i].whole /\ g[i].ended
           \/ /\ ~(f[i].whole /\ f[i].ended)
              /\ \E e \in Event : g[i].events = Append(f[i].events, e)
  PROVE  Kept(g, d)
<1>1. PICK i \in 1..Len(f) :
        \/ f[i].whole /\ f[i].ended /\ f[i].events = <<d>>
        \/ \E j \in DOMAIN f[i].events :
             f[i].events[j] = d /\ {f[i].events[1].session, d.session} \in overlap
  <2>1. DOMAIN f = 1..Len(f)
    OBVIOUS
  <2> QED BY <2>1, Zenon DEF Kept, Head1
<1>2. i \in DOMAIN f /\ i \in DOMAIN g /\ f[i].events \in Seq(Event) /\ Len(f[i].events) >= 1
  <2>1. Len(f) \in Nat /\ DOMAIN f = 1..Len(f) /\ Len(g) \in Nat /\ DOMAIN g = 1..Len(g)
    OBVIOUS
  <2>2. i \in DOMAIN f /\ i \in DOMAIN g
    BY <1>1, <2>1
  <2>3. f[i] \in Line
    BY <2>2
  <2> QED BY <2>2, <2>3 DEF Filled, Line
<1>3. CASE g[i].events = f[i].events /\ (f[i].whole /\ f[i].ended => g[i].whole /\ g[i].ended)
  BY <1>1, <1>2, <1>3 DEF Kept, Head1
<1>4. CASE ~(f[i].whole /\ f[i].ended) /\ \E e \in Event : g[i].events = Append(f[i].events, e)
  <2>1. PICK e \in Event : g[i].events = Append(f[i].events, e)
    BY <1>4
  <2>2. PICK j \in DOMAIN f[i].events :
          f[i].events[j] = d /\ {f[i].events[1].session, d.session} \in overlap
    BY <1>1, <1>4
  <2>3. j \in DOMAIN g[i].events /\ g[i].events[j] = d /\ g[i].events[1] = f[i].events[1]
    BY <1>2, <2>1, <2>2
  <2> QED BY <1>2, <2>2, <2>3 DEF Kept, Head1
<1> QED BY <1>1, <1>3, <1>4

LEMMA LineFacts ==
  ASSUME NEW f \in Seq(Line)
  PROVE  /\ Len(f) \in Nat /\ DOMAIN f = 1..Len(f)
         /\ \A i \in 1..Len(f) : f[i].events \in Seq(Event)
<1>1. Len(f) \in Nat /\ DOMAIN f = 1..Len(f)
  OBVIOUS
<1>2. \A i \in 1..Len(f) : f[i] \in Line
  BY <1>1
<1> QED BY <1>1, <1>2 DEF Line

LEMMA GrownBySameLines ==
  ASSUME NEW f \in Seq(Line), NEW g \in Seq(Line), NEW d \in Event, Filled(f),
         Kept(f, d), Len(f) <= Len(g),
         \A i \in 1..Len(f) : g[i].events = f[i].events,
         \A i \in 1..Len(f) : f[i].whole /\ f[i].ended => g[i].whole /\ g[i].ended
  PROVE  Kept(g, d)
<1>1. \A i \in 1..Len(f) :
        \/ /\ g[i].events = f[i].events
           /\ f[i].whole /\ f[i].ended => g[i].whole /\ g[i].ended
        \/ /\ ~(f[i].whole /\ f[i].ended)
           /\ \E e \in Event : g[i].events = Append(f[i].events, e)
  BY Zenon
<1> QED BY <1>1, GrownByLines

LEMMA EndedGrown ==
  ASSUME NEW f \in Seq(Line), Filled(f), NEW e \in Event
  PROVE  Grown(f, Ended(f), e) /\ Grown(f, f, e)
<1> DEFINE g == Ended(f)
<1>1. /\ Len(f) \in Nat /\ DOMAIN f = 1..Len(f) /\ DOMAIN g = 1..Len(f)
      /\ g \in Seq(Line) /\ Len(g) = Len(f) /\ ~Unterminated(g)
  BY EndedFacts, LineFacts
<1>2. \A i \in 1..Len(f) : g[i].events = f[i].events
  BY EndedFacts
<1>10. \A i \in 1..Len(f) : f[i].whole /\ f[i].ended => g[i].whole /\ g[i].ended
  BY EndedFacts
<1>3. \A i \in 1..Len(f) : Len(f[i].events) >= 1
  BY <1>1 DEF Filled
<1> HIDE DEF g
<1>4. Len(f) <= Len(g)
  BY <1>1
<1>5. ASSUME NEW d \in Event, Kept(f, d) PROVE Kept(g, d)
  BY <1>1, <1>2, <1>10, <1>4, <1>5, GrownBySameLines, Zenon
<1>6. ASSUME NEW i \in DOMAIN g
      PROVE  Len(g[i].events) >= 1 /\ i \in DOMAIN f /\ Head1(g, i) = Head1(f, i)
  <2>1. i \in 1..Len(f) /\ i \in DOMAIN f
    BY <1>1
  <2>2. g[i].events = f[i].events
    BY <1>2, <2>1
  <2> QED BY <1>3, <2>1, <2>2 DEF Head1
<1>7. Grown(f, g, e)
  BY <1>1, <1>4, <1>5, <1>6, Zenon DEF Grown
<1>8. Len(f) <= Len(f)
  BY <1>1
<1>9. Grown(f, f, e)
  BY <1>1, <1>3, <1>8, Zenon DEF Grown
<1> QED BY <1>7, <1>9 DEF g

LEMMA PutGrown ==
  ASSUME NEW f \in Seq(Line), Filled(f), NEW e \in Event, NEW w \in BOOLEAN, NEW b \in BOOLEAN
  PROVE  Grown(f, Put(f, e, w, b), e)
<1> DEFINE g == Put(f, e, w, b)
<1>1. /\ Len(f) \in Nat /\ DOMAIN f = 1..Len(f)
      /\ g \in Seq(Line) /\ DOMAIN g = 1..Len(g)
  <2>1. g \in Seq(Line)
    BY PutFacts
  <2> HIDE DEF g
  <2> QED BY <2>1, LineFacts
<1>2. \A i \in 1..Len(f) : Len(f[i].events) >= 1 /\ f[i].events \in Seq(Event)
  BY <1>1, LineFacts DEF Filled
<1>3. CASE Unterminated(f)
  <2>1. PICK n \in Nat : n = Len(f)
    BY <1>1
  <2>2. n >= 1 /\ Len(g) = n /\ ~f[n].ended
    BY <1>3, <2>1, PutFacts
  <2>3. \A i \in 1..n : i # n => g[i] = f[i]
    <3>1. \A i \in 1..Len(f) : i # Len(f) => g[i] = f[i]
      BY <1>3, PutFacts, ZenonT(30)
    <3> QED BY <2>1, <3>1
  <2>4. g[n] = [events |-> Append(f[n].events, e), whole |-> FALSE, ended |-> b]
    BY <1>3, <2>1, PutFacts, ZenonT(30)
  <2>5. g[n].events = Append(f[n].events, e)
    BY <2>4
  <2> HIDE DEF g
  <2>6. n \in 1..n /\ Len(f) <= Len(g)
    BY <2>1, <2>2
  <2>7. Len(g[n].events) >= 1 /\ g[n].events[1] = f[n].events[1]
    BY <1>2, <2>1, <2>5, <2>6
  <2>8. \A i \in 1..n : Len(g[i].events) >= 1 /\ g[i].events[1] = f[i].events[1]
    BY <1>2, <2>1, <2>3, <2>7
  <2>9. \A i \in 1..Len(f) :
          \/ /\ g[i].events = f[i].events
             /\ f[i].whole /\ f[i].ended => g[i].whole /\ g[i].ended
          \/ /\ ~(f[i].whole /\ f[i].ended)
             /\ \E d \in Event : g[i].events = Append(f[i].events, d)
    BY <2>1, <2>2, <2>3, <2>5
  <2>10. \A d \in Event : Kept(f, d) => Kept(g, d)
    BY <1>1, <2>6, <2>9, GrownByLines
  <2>11. \A i \in DOMAIN g : Len(g[i].events) >= 1 /\ i \in DOMAIN f /\ Head1(g, i) = Head1(f, i)
    BY <1>1, <2>1, <2>2, <2>8 DEF Head1
  <2>12. Head1(g, Len(g)) = Head1(f, Len(f))
    BY <2>1, <2>2, <2>7 DEF Head1
  <2>13. Grown(f, g, e)
    BY <1>1, <1>3, <2>6, <2>10, <2>11, <2>12, Zenon DEF Grown
  <2> QED BY <2>13 DEF g
<1>4. CASE ~Unterminated(f)
  <2>1. PICK n \in Nat : n = Len(f)
    BY <1>1
  <2>2. Len(g) = n + 1 /\ \A i \in 1..n : g[i] = f[i]
    BY <1>4, <2>1, PutFacts, ZenonT(30)
  <2>3. g[n + 1] = [events |-> <<e>>, whole |-> w, ended |-> b]
    BY <1>4, <2>1, PutFacts, ZenonT(30)
  <2>4. Len(g[n + 1].events) >= 1 /\ g[n + 1].events[1] = e
    BY <2>3
  <2> HIDE DEF g
  <2>5. Len(f) <= Len(g)
    BY <2>1, <2>2
  <2>6. /\ \A i \in 1..Len(f) : g[i].events = f[i].events
        /\ \A i \in 1..Len(f) : f[i].whole /\ f[i].ended => g[i].whole /\ g[i].ended
    BY <2>1, <2>2
  <2>7. ASSUME NEW d \in Event, Kept(f, d) PROVE Kept(g, d)
    BY <1>1, <2>5, <2>6, <2>7, GrownBySameLines, Zenon
  <2>8. \A i \in 1..n + 1 : i \in 1..n \/ i = n + 1
    BY <2>1
  <2>9. ASSUME NEW i \in DOMAIN g
        PROVE  /\ Len(g[i].events) >= 1
               /\ \/ i \in DOMAIN f /\ Head1(g, i) = Head1(f, i)
                  \/ i = Len(f) + 1 /\ Head1(g, i) = e
    BY <1>1, <1>2, <2>1, <2>2, <2>4, <2>8 DEF Head1
  <2>10. Head1(g, Len(g)) = e
    BY <2>2, <2>4 DEF Head1
  <2>11. Grown(f, g, e)
    BY <1>1, <2>5, <2>7, <2>9, <2>10, Zenon DEF Grown
  <2> QED BY <2>11 DEF g
<1> QED BY <1>3, <1>4

LEMMA GrownTwice ==
  ASSUME NEW f \in Seq(Line), NEW g, NEW h, NEW e \in Event,
         Grown(f, g, e), Len(g) = Len(f), Grown(g, h, e)
  PROVE  Grown(f, h, e)
<1>1. /\ Len(f) \in Nat /\ g \in Seq(Line) /\ h \in Seq(Line) /\ DOMAIN f = 1..Len(f)
      /\ DOMAIN g = 1..Len(g) /\ DOMAIN h = 1..Len(h) /\ Len(h) \in Nat
  BY DEF Grown
<1>2. ASSUME NEW i \in DOMAIN h
      PROVE  /\ Len(h[i].events) >= 1
             /\ \/ i \in DOMAIN f /\ Head1(h, i) = Head1(f, i)
                \/ i = Len(f) + 1 /\ Head1(h, i) = e
  BY <1>1 DEF Grown
<1>3. \A d \in Event : Kept(f, d) => Kept(h, d)
  BY DEF Grown
<1>4. ASSUME Unterminated(h)
      PROVE  \/ Unterminated(f) /\ Head1(h, Len(h)) = Head1(f, Len(f))
             \/ Head1(h, Len(h)) = e
  BY <1>4 DEF Grown
<1> QED BY <1>1, <1>2, <1>3, <1>4 DEF Grown

LEMMA WriteGrown ==
  ASSUME NEW f \in Seq(Line), Filled(f), NEW frame \in Frame
  PROVE  /\ Grown(f, Appended(f, frame), frame.event)
         /\ \A g \in Torn(f, frame) : Grown(f, g, frame.event)
<1> DEFINE e == frame.event
<1>1. e \in Event
  BY DEF Frame
<1>2. /\ Prefixed(f, frame) \in Seq(Line) /\ Grown(f, Prefixed(f, frame), e)
      /\ Len(Prefixed(f, frame)) = Len(f) /\ Filled(Prefixed(f, frame))
  <2>1. Ended(f) \in Seq(Line) /\ Len(Ended(f)) = Len(f)
    BY EndedFacts
  <2>2. Grown(f, Ended(f), e) /\ Grown(f, f, e)
    BY <1>1, EndedGrown
  <2>3. Filled(Ended(f))
    BY <2>2 DEF Grown, Filled
  <2> QED BY <2>1, <2>2, <2>3 DEF Prefixed
<1>3. ASSUME NEW w \in BOOLEAN, NEW b \in BOOLEAN
      PROVE  Grown(f, Put(Prefixed(f, frame), e, w, b), e)
  <2>1. Grown(Prefixed(f, frame), Put(Prefixed(f, frame), e, w, b), e)
    BY <1>1, <1>2, PutGrown
  <2> QED BY <1>1, <1>2, <2>1, GrownTwice
<1>4. Grown(f, f, e)
  BY <1>1, EndedGrown
<1> QED BY <1>2, <1>3, <1>4 DEF Appended, Torn

-----------------------------------------------------------------------------
(* What a step does to the stack of its process *)

Rest(p) == \A q \in Procs : q # p => stack'[q] = stack[q]

\* Frames go, and the innermost of those that stay has an exception in flight.
Pops(p) ==
  /\ Rest(p) /\ Len(stack'[p]) \in Nat /\ Len(stack'[p]) <= Len(stack[p])
  /\ \A i \in 1..Len(stack'[p]) : /\ stack'[p][i].event = stack[p][i].event
                                  /\ stack'[p][i].at \in Pending => stack[p][i].at \in Pending
  /\ ~Live(p)'

\* The innermost frame becomes another frame of the same event.
Moves(p, frame) ==
  /\ Rest(p) /\ stack[p] # <<>> /\ Len(stack'[p]) = Len(stack[p])
  /\ \A i \in 1..Len(stack[p]) : i # Len(stack[p]) => stack'[p][i] = stack[p][i]
  /\ stack'[p][Len(stack[p])] = frame /\ frame.event = Top(p).event

\* A call of log_event begins.
Pushes(p, frame) ==
  /\ Rest(p) /\ Len(stack'[p]) = Len(stack[p]) + 1
  /\ \A i \in 1..Len(stack[p]) : stack'[p][i] = stack[p][i]
  /\ stack'[p][Len(stack[p]) + 1] = frame

LEMMA TopFacts ==
  ASSUME TypeOK, NEW p \in Procs
  PROVE  /\ stack[p] \in Seq(Frame) /\ Len(stack[p]) \in Nat
         /\ stack[p] # <<>> => /\ Len(stack[p]) >= 1
                               /\ Top(p) \in Frame /\ Last(stack[p]) = Top(p)
                               /\ Top(p).event \in Event
<1>1. stack[p] \in Seq(Frame)
  BY DEF TypeOK
<1>2. Len(stack[p]) \in Nat /\ (stack[p] # <<>> => Len(stack[p]) >= 1 /\ Top(p) \in Frame)
  BY <1>1, EmptySeq DEF Top
<1>3. Last(stack[p]) = Top(p)
  BY DEF Last, Top
<1>4. \A f \in Frame : f.event \in Event
  BY DEF Frame
<1> QED BY <1>1, <1>2, <1>3, <1>4

LEMMA NewStack ==
  ASSUME TypeOK, NEW p \in Procs, NEW s \in Seq(Frame), stack' = [stack EXCEPT ![p] = s]
  PROVE  stack' \in [Procs -> Seq(Frame)] /\ stack'[p] = s /\ Rest(p)
BY DEF TypeOK, Rest

LEMMA MoveStack ==
  ASSUME TypeOK, NEW p \in Procs, stack[p] # <<>>, NEW frame \in Frame,
         frame.event = Top(p).event,
         stack' = [stack EXCEPT ![p] = [stack[p] EXCEPT ![Len(stack[p])] = frame]]
  PROVE  stack' \in [Procs -> Seq(Frame)] /\ Moves(p, frame)
<1> DEFINE s == [stack[p] EXCEPT ![Len(stack[p])] = frame]
<1>1. /\ s \in Seq(Frame) /\ Len(s) = Len(stack[p]) /\ s[Len(stack[p])] = frame
      /\ \A i \in 1..Len(stack[p]) : i # Len(stack[p]) => s[i] = stack[p][i]
  BY TopFacts
<1> HIDE DEF s
<1>2. stack' \in [Procs -> Seq(Frame)] /\ stack'[p] = s /\ Rest(p)
  <2>1. stack' = [stack EXCEPT ![p] = s]
    BY DEF s
  <2> QED BY <1>1, <2>1, NewStack
<1> QED BY <1>1, <1>2 DEF Moves

LEMMA PushStack ==
  ASSUME TypeOK, NEW p \in Procs, NEW frame \in Frame,
         stack' = [stack EXCEPT ![p] = Append(stack[p], frame)]
  PROVE  stack' \in [Procs -> Seq(Frame)] /\ Pushes(p, frame)
<1> DEFINE s == Append(stack[p], frame)
<1>1. /\ s \in Seq(Frame) /\ Len(s) = Len(stack[p]) + 1 /\ s[Len(stack[p]) + 1] = frame
      /\ \A i \in 1..Len(stack[p]) : s[i] = stack[p][i]
  BY TopFacts
<1> HIDE DEF s
<1>2. stack' \in [Procs -> Seq(Frame)] /\ stack'[p] = s /\ Rest(p)
  <2>1. stack' = [stack EXCEPT ![p] = s]
    BY DEF s
  <2> QED BY <1>1, <2>1, NewStack
<1> QED BY <1>1, <1>2 DEF Pushes

LEMMA RaiseStack ==
  ASSUME TypeOK, NEW p \in Procs, NEW t \in Seq(Frame), Len(t) <= Len(stack[p]),
         \A i \in 1..Len(t) : t[i] = stack[p][i],
         stack' = [stack EXCEPT ![p] = Raised(t)]
  PROVE  stack' \in [Procs -> Seq(Frame)] /\ Pops(p) /\ Len(stack'[p]) = Len(t)
<1> DEFINE s == Raised(t)
<1>1. /\ s \in Seq(Frame) /\ Len(s) = Len(t) /\ Len(t) \in Nat
      /\ \A i \in 1..Len(t) : s[i].event = t[i].event /\ (s[i].at \in Pending => t[i].at \in Pending)
      /\ t # <<>> => s[Len(t)].at \in {"closing", "leaving"}
      /\ s # <<>> => t # <<>>
  BY RaisedFacts DEF Raised
<1> HIDE DEF s
<1>2. stack' \in [Procs -> Seq(Frame)] /\ stack'[p] = s /\ Rest(p)
  <2>1. stack' = [stack EXCEPT ![p] = s]
    BY DEF s
  <2> QED BY <1>1, <2>1, NewStack
<1>3. ~Live(p)'
  BY <1>1, <1>2 DEF Live, Top
<1>4. \A i \in 1..Len(s) : /\ s[i].event = stack[p][i].event
                           /\ s[i].at \in Pending => stack[p][i].at \in Pending
  BY <1>1
<1> QED BY <1>1, <1>2, <1>3, <1>4 DEF Pops

LEMMA EmptyStack ==
  ASSUME TypeOK, NEW p \in Procs, stack' = [stack EXCEPT ![p] = <<>>]
  PROVE  /\ stack' \in [Procs -> Seq(Frame)] /\ Pops(p)
         /\ stack[p] # <<>> => Len(stack'[p]) < Len(stack[p])
<1>1. stack' \in [Procs -> Seq(Frame)] /\ stack'[p] = <<>> /\ Rest(p)
  BY EmptySeq, NewStack
<1>2. Len(stack'[p]) = 0
  BY <1>1
<1>3. Pops(p)
  BY <1>1, TopFacts DEF Pops, Live
<1> QED BY <1>1, <1>2, <1>3, TopFacts

LEMMA PopStack ==
  ASSUME TypeOK, NEW p \in Procs, stack[p] # <<>>,
         stack' = [stack EXCEPT ![p] = Raised(Front(stack[p]))]
  PROVE  /\ stack' \in [Procs -> Seq(Frame)] /\ Pops(p)
         /\ Len(stack'[p]) < Len(stack[p])
<1>1. stack[p] \in Seq(Frame)
  BY TopFacts
<1>2. PICK t \in Seq(Frame) : t = Front(stack[p])
  BY <1>1, FrontFacts
<1>3. /\ Len(t) = Len(stack[p]) - 1 /\ Len(stack[p]) \in Nat
      /\ \A i \in 1..Len(stack[p]) - 1 : t[i] = stack[p][i]
  BY <1>1, <1>2, FrontFacts
<1>4. /\ Len(t) <= Len(stack[p]) /\ Len(t) < Len(stack[p])
      /\ \A i \in 1..Len(t) : t[i] = stack[p][i]
  BY <1>3
<1>5. stack' = [stack EXCEPT ![p] = Raised(t)]
  BY <1>2
<1>6. stack' \in [Procs -> Seq(Frame)] /\ Pops(p) /\ Len(stack'[p]) = Len(t)
  BY <1>4, <1>5, RaiseStack
<1> QED BY <1>4, <1>6

-----------------------------------------------------------------------------
(* Types.  No line is empty, and only handlers run above another call. *)

Bottom(p) == \A i \in 1..Len(stack[p]) : stack[p][i].event.kind = "event" => i = 1

Base == TypeOK /\ Filled(file) /\ Filled(disk) /\ \A p \in Procs : Bottom(p)

LEMMA MovedFacts ==
  ASSUME TypeOK, NEW p \in Procs, stack[p] # <<>>, NEW place \in Places, Moved(p, place)
  PROVE  stack' \in [Procs -> Seq(Frame)] /\ Moves(p, [Top(p) EXCEPT !.at = place])
<1>1. Top(p) \in Frame /\ stack[p] \in Seq(Frame) /\ stack \in [Procs -> Seq(Frame)]
  BY TopFacts DEF TypeOK
<1>2. PICK frame \in Frame : frame = [Top(p) EXCEPT !.at = place]
  BY <1>1 DEF Frame
<1>3. frame.event = Top(p).event
  BY <1>1, <1>2 DEF Frame
<1>4. stack' = [stack EXCEPT ![p] = [stack[p] EXCEPT ![Len(stack[p])] = [Top(p) EXCEPT !.at = place]]]
  BY <1>1 DEF Moved, Top
<1> QED BY <1>2, <1>3, <1>4, MoveStack

LEMMA BufferFacts ==
  ASSUME TypeOK, NEW p \in Procs, Buffer(p)
  PROVE  /\ stack' \in [Procs -> Seq(Frame)]
         /\ Moves(p, [Top(p) EXCEPT !.at = "buffered", !.newline = Unterminated(file)])
<1>1. Top(p) \in Frame /\ stack[p] \in Seq(Frame) /\ stack[p] # <<>>
  BY TopFacts DEF Buffer, At
<1>2. Unterminated(file) \in BOOLEAN
  BY DEF TypeOK, Unterminated
<1>3. PICK frame \in Frame : frame = [Top(p) EXCEPT !.at = "buffered", !.newline = Unterminated(file)]
  BY <1>1, <1>2 DEF Frame, Places
<1>4. frame.event = Top(p).event
  BY <1>1, <1>3 DEF Frame
<1>5. stack' = [stack EXCEPT ![p] = [stack[p] EXCEPT ![Len(stack[p])] = frame]]
  BY <1>1, <1>3 DEF Buffer, Top, NewlinePrefix
<1> QED BY <1>1, <1>3, <1>4, <1>5, MoveStack

\* The frame of a new call.
NewFrame(p, kind) ==
  [at |-> "numbered", newline |-> FALSE,
   event |-> [session |-> session[p], nth |-> begun + 1, seq |-> seq[p], kind |-> kind]]

LEMMA CalledFacts ==
  ASSUME TypeOK, NEW p \in Procs, NEW kind \in Kinds, Called(p, kind)
  PROVE  /\ stack' \in [Procs -> Seq(Frame)] /\ Pushes(p, NewFrame(p, kind))
         /\ begun' \in 0..MaxEvents /\ begun' = begun + 1
<1>1. /\ session[p] \in Nat /\ seq[p] \in Nat /\ begun \in Nat /\ MaxEvents \in Nat
  BY EventLogAssumption DEF TypeOK
<1>2. NewFrame(p, kind) \in Frame
  BY <1>1 DEF NewFrame, Frame, Places, Event
<1>3. stack' = [stack EXCEPT ![p] = Append(stack[p], NewFrame(p, kind))]
  BY DEF Called, NewFrame
<1>4. begun' \in 0..MaxEvents /\ begun' = begun + 1
  BY <1>1 DEF Called
<1> QED BY <1>2, <1>3, <1>4, PushStack

LEMMA ReturnFacts ==
  ASSUME Base, NEW p \in Procs, Return(p)
  PROVE  /\ stack' \in [Procs -> Seq(Frame)] /\ Pops(p)
         /\ Len(stack'[p]) < Len(stack[p])
<1>1. stack[p] # <<>> /\ Last(stack[p]) = Top(p) /\ Len(stack[p]) >= 1 /\ Len(stack[p]) \in Nat
  BY TopFacts DEF Return, At, Base
<1>2. CASE Top(p).event.kind = "event"
  <2>1. Len(stack[p]) = 1
    <3>1. Len(stack[p]) \in 1..Len(stack[p])
      BY <1>1
    <3> QED BY <1>2, <3>1 DEF Base, Bottom, Top
  <2>2. Front(stack[p]) = <<>>
    <3>1. stack[p] \in Seq(Frame)
      BY TopFacts DEF Base
    <3>2. Front(stack[p]) \in Seq(Frame) /\ Len(Front(stack[p])) = 0
      BY <1>1, <2>1, <3>1, FrontFacts
    <3> QED BY <3>2, EmptySeq
  <2>3. stack' = [stack EXCEPT ![p] = <<>>]
    BY <1>1, <1>2, <2>2 DEF Return
  <2> QED BY <1>1, <2>3, EmptyStack DEF Base
<1>3. CASE Top(p).event.kind # "event"
  <2>1. stack' = [stack EXCEPT ![p] = Raised(Front(stack[p]))]
    BY <1>1, <1>3 DEF Return
  <2> QED BY <1>1, <2>1, PopStack DEF Base
<1> QED BY <1>2, <1>3

Leaving(p) == Return(p) \/ Leave(p) \/ Close(p) \/ CtrlC(p) \/ DiskFull(p) \/ Kill(p) \/ Exit(p)

LEMMA LeavingFacts ==
  ASSUME Base, NEW p \in Procs, Leaving(p)
  PROVE  /\ stack' \in [Procs -> Seq(Frame)] /\ Pops(p)
<1>1. TypeOK /\ stack[p] \in Seq(Frame) /\ Len(stack[p]) \in Nat /\ (stack[p] # <<>> => Len(stack[p]) >= 1)
  BY TopFacts DEF Base
<1>2. CASE Return(p)
  BY <1>1, <1>2, ReturnFacts
<1>3. CASE Leave(p) \/ Close(p) \/ DiskFull(p)
  <2>1. stack[p] # <<>> /\ stack' = [stack EXCEPT ![p] = Raised(Front(stack[p]))]
    BY <1>3 DEF Leave, Close, DiskFull, At
  <2> QED BY <1>1, <2>1, PopStack
<1>4. CASE CtrlC(p)
  <2>1. stack' = [stack EXCEPT ![p] = Raised(stack[p])]
    BY <1>4 DEF CtrlC
  <2>2. Len(stack[p]) <= Len(stack[p]) /\ \A i \in 1..Len(stack[p]) : stack[p][i] = stack[p][i]
    BY <1>1
  <2>3. stack' \in [Procs -> Seq(Frame)] /\ Pops(p)
    BY <1>1, <2>1, <2>2, RaiseStack
  <2> QED BY <1>4, <2>3, Zenon
<1>5. CASE Kill(p) \/ Exit(p)
  <2>1. stack' = [stack EXCEPT ![p] = <<>>]
    BY <1>5 DEF Kill, Exit, Gone
  <2> QED BY <1>1, <2>1, EmptyStack
<1> QED BY <1>2, <1>3, <1>4, <1>5 DEF Leaving

\* A write: of the event of the innermost frame, which is then no longer pending.
Writes(p) ==
  /\ stack[p] # <<>> /\ Top(p).at \in {"buffered", "closing"}
  /\ Grown(file, file', Top(p).event)
  /\ Flush(p) \/ Len(stack'[p]) < Len(stack[p])

LEMMA FileFacts ==
  ASSUME Base, NEW p \in Procs, Step(p)
  PROVE  file' = file \/ Writes(p)
<1>1. /\ file \in Seq(Line) /\ Filled(file) /\ TypeOK
      /\ stack[p] # <<>> => Top(p) \in Frame /\ Last(stack[p]) = Top(p)
  BY TopFacts DEF Base, TypeOK
<1>2. CASE Flush(p) \/ Close(p)
  <2>1. stack[p] # <<>> /\ Top(p).at \in {"buffered", "closing"} /\ file' = Appended(file, Top(p))
    BY <1>1, <1>2 DEF Flush, Close, At
  <2>2. Grown(file, file', Top(p).event)
    BY <1>1, <2>1, WriteGrown
  <2>3. Close(p) => Len(stack'[p]) < Len(stack[p])
    <3>1. Close(p) => stack' = [stack EXCEPT ![p] = Raised(Front(stack[p]))]
      BY DEF Close
    <3> QED BY <1>1, <2>1, <3>1, PopStack
  <2> QED BY <1>2, <2>1, <2>2, <2>3 DEF Writes
<1>3. CASE Kill(p) \/ DiskFull(p)
  <2>1. CASE At(p, "buffered") \/ At(p, "closing")
    <3>1. stack[p] # <<>> /\ Top(p).at \in {"buffered", "closing"} /\ file' \in Torn(file, Top(p))
      BY <1>1, <1>3, <2>1 DEF Kill, DiskFull, At, TornBy
    <3>2. Grown(file, file', Top(p).event)
      BY <1>1, <3>1, WriteGrown
    <3>3. Len(stack'[p]) < Len(stack[p])
      <4>1. CASE Kill(p)
        <5>1. stack' = [stack EXCEPT ![p] = <<>>]
          BY <4>1 DEF Kill, Gone
        <5> QED BY <1>1, <3>1, <5>1, EmptyStack
      <4>2. CASE DiskFull(p)
        <5>1. stack' = [stack EXCEPT ![p] = Raised(Front(stack[p]))]
          BY <4>2 DEF DiskFull
        <5> QED BY <1>1, <3>1, <5>1, PopStack
      <4> QED BY <1>3, <4>1, <4>2
    <3> QED BY <3>1, <3>2, <3>3 DEF Writes
  <2>2. CASE ~(At(p, "buffered") \/ At(p, "closing"))
    BY <1>3, <2>2 DEF Kill, DiskFull, TornBy
  <2> QED BY <2>1, <2>2
<1>4. CASE ~(Flush(p) \/ Close(p) \/ Kill(p) \/ DiskFull(p))
  BY <1>4 DEF Step, Open, Watch, Begin, Count, Buffer, Return, Leave, Exit, Handle, CtrlC
<1> QED BY <1>2, <1>3, <1>4

\* The frame that Count, Buffer and Flush leave on top.
Moved3(p) ==
  \/ Count(p) /\ Moves(p, [Top(p) EXCEPT !.at = "counted"])
  \/ Buffer(p) /\ Moves(p, [Top(p) EXCEPT !.at = "buffered", !.newline = Unterminated(file)])
  \/ Flush(p) /\ Moves(p, [Top(p) EXCEPT !.at = "written"])

Calling(p) ==
  \/ Begin(p) /\ Pushes(p, NewFrame(p, "event"))
  \/ \E s \in Signals : Handle(p, s) /\ Pushes(p, NewFrame(p, s))

LEMMA StackFacts ==
  ASSUME Base, NEW p \in Procs, Step(p)
  PROVE  /\ stack' \in [Procs -> Seq(Frame)]
         /\ \/ (Open(p) \/ Watch(p)) /\ stack' = stack
            \/ Leaving(p) /\ Pops(p)
            \/ Moved3(p)
            \/ Calling(p)
<1> USE DEF Base
<1>1. CASE Open(p) \/ Watch(p)
  BY <1>1 DEF Open, Watch, TypeOK
<1>2. CASE Leaving(p)
  BY <1>2, LeavingFacts
<1>3. CASE Count(p)
  BY <1>3, MovedFacts DEF Count, At, Places, Moved3
<1>4. CASE Buffer(p)
  BY <1>4, BufferFacts DEF Moved3
<1>5. CASE Flush(p)
  BY <1>5, MovedFacts DEF Flush, At, Places, Moved3
<1>6. CASE Begin(p)
  BY <1>6, CalledFacts DEF Begin, Kinds, Calling
<1>7. CASE \E s \in Signals : Handle(p, s)
  BY <1>7, CalledFacts DEF Handle, Kinds, Calling
<1> QED BY <1>1, <1>2, <1>3, <1>4, <1>5, <1>6, <1>7 DEF Step, Leaving

LEMMA BottomOwn ==
  ASSUME Base, NEW p \in Procs, Step(p)
  PROVE  Bottom(p)'
<1>1. CASE stack' = stack
  BY <1>1 DEF Base, Bottom
<1>2. Len(stack[p]) \in Nat
  BY TopFacts DEF Base
<1>3. CASE Pops(p)
  <2>1. /\ Len(stack'[p]) \in Nat /\ Len(stack'[p]) <= Len(stack[p])
        /\ \A i \in 1..Len(stack'[p]) : stack'[p][i].event = stack[p][i].event
    BY <1>3 DEF Pops
  <2>2. \A i \in 1..Len(stack'[p]) : i \in 1..Len(stack[p])
    BY <1>2, <2>1
  <2> QED BY <2>1, <2>2, Zenon DEF Base, Bottom
<1>4. ASSUME NEW frame, Moves(p, frame) PROVE Bottom(p)'
  <2>1. \A i \in 1..Len(stack[p]) : stack'[p][i].event = stack[p][i].event
    BY <1>2, <1>4 DEF Moves, Top
  <2>2. Len(stack'[p]) = Len(stack[p])
    BY <1>4 DEF Moves
  <2> QED BY <2>1, <2>2 DEF Base, Bottom
<1>5. CASE Calling(p)
  <2>1. PICK kind \in Kinds : /\ Pushes(p, NewFrame(p, kind))
                              /\ kind = "event" => stack[p] = <<>>
    BY <1>5 DEF Calling, Begin, Idle, Kinds, Signals
  <2>2. NewFrame(p, kind).event.kind = kind
    BY DEF NewFrame
  <2>3. ASSUME NEW i \in 1..Len(stack'[p]), stack'[p][i].event.kind = "event" PROVE i = 1
    <3>0. /\ Len(stack'[p]) = Len(stack[p]) + 1
          /\ \A j \in 1..Len(stack[p]) : stack'[p][j] = stack[p][j]
          /\ stack'[p][Len(stack[p]) + 1] = NewFrame(p, kind)
      BY <2>1 DEF Pushes
    <3>1. i \in 1..Len(stack[p]) \/ i = Len(stack[p]) + 1
      BY <1>2, <3>0
    <3>2. CASE i \in 1..Len(stack[p])
      <4>1. stack[p][i].event.kind = "event"
        BY <2>3, <3>0, <3>2, Zenon
      <4> QED BY <3>2, <4>1 DEF Base, Bottom
    <3>3. CASE i = Len(stack[p]) + 1
      <4>1. stack[p] = <<>>
        <5>1. stack'[p][i] = NewFrame(p, kind)
          BY <3>0, <3>3, Zenon
        <5>2. kind = "event"
          BY <2>2, <2>3, <5>1, Zenon
        <5> QED BY <2>1, <5>2
      <4> QED BY <3>3, <4>1
    <3> QED BY <3>1, <3>2, <3>3
  <2> QED BY <2>3 DEF Bottom
<1> QED BY <1>1, <1>3, <1>4, <1>5, StackFacts DEF Moved3

LEMMA BottomStep ==
  ASSUME Base, NEW p \in Procs, Step(p), NEW q \in Procs
  PROVE  Bottom(q)'
<1>1. CASE q # p
  <2>1. stack'[q] = stack[q]
    BY <1>1, StackFacts DEF Pops, Moved3, Moves, Calling, Pushes, Rest
  <2> QED BY <2>1 DEF Base, Bottom
<1>2. CASE q = p
  BY <1>2, BottomOwn
<1> QED BY <1>1, <1>2

Counted ==
  /\ opened \in 0..MaxSessions /\ begun \in 0..MaxEvents
  /\ signals \in 0..MaxSignals /\ faults \in 0..MaxFaults

LEMMA BaseStep ==
  ASSUME Base, [Next]_vars
  PROVE  Base'
<1> USE EventLogAssumption DEF Base
<1>1. ASSUME NEW p \in Procs, Step(p) PROVE Base'
  <2>1. stack' \in [Procs -> Seq(Frame)] /\ \A q \in Procs : Bottom(q)'
    BY <1>1, StackFacts, BottomStep
  <2>2. file' \in Seq(Line) /\ Filled(file')
    <3>1. CASE file' = file
      BY <3>1 DEF TypeOK
    <3>2. CASE Writes(p)
      BY <3>2 DEF Writes, Grown, Filled
    <3> QED BY <1>1, <3>1, <3>2, FileFacts
  <2>3. disk' \in Seq(Line) /\ Filled(disk')
    <3>1. disk' = disk \/ disk' = file
      BY <1>1 DEF Step, Open, Watch, Begin, Count, Buffer, Flush, Return, Leave, Close, Exit, Handle, CtrlC, Kill, DiskFull
    <3> QED BY <3>1 DEF TypeOK
  <2>4. Counted'
    <3>1. /\ opened \in 0..MaxSessions /\ begun \in 0..MaxEvents /\ signals \in 0..MaxSignals
          /\ faults \in 0..MaxFaults
          /\ MaxSessions \in Nat /\ MaxEvents \in Nat /\ MaxSignals \in Nat /\ MaxFaults \in Nat
      BY DEF TypeOK
    <3>2. /\ opened' = opened \/ (opened < MaxSessions /\ opened' = opened + 1)
          /\ begun' = begun \/ (begun < MaxEvents /\ begun' = begun + 1)
          /\ signals' = signals \/ (signals < MaxSignals /\ signals' = signals + 1)
          /\ faults' = faults \/ (faults < MaxFaults /\ faults' = faults + 1)
      BY <1>1 DEF Step, Open, Watch, Begin, Count, Buffer, Flush, Return, Leave, Close, Exit,
                  Handle, CtrlC, Kill, DiskFull, Called, bounds
    <3> QED BY <3>1, <3>2 DEF Counted
  <2>5. session' \in [Procs -> 0..MaxSessions] /\ overlap' \subseteq SUBSET (1..MaxSessions)
    <3>1. CASE Open(p)
      <4>1. opened + 1 \in 1..MaxSessions /\ opened + 1 \in 0..MaxSessions
        BY <3>1 DEF Open, TypeOK
      <4>2. session' \in [Procs -> 0..MaxSessions]
        <5>1. session' = [session EXCEPT ![p] = opened + 1]
          BY <3>1 DEF Open
        <5> QED BY <4>1, <5>1 DEF TypeOK
      <4>3. ASSUME NEW q \in Procs, session[q] # 0
            PROVE  {session[q], opened + 1} \in SUBSET (1..MaxSessions)
        <5>1. session[q] \in 1..MaxSessions
          BY <4>3, SMTT(20) DEF TypeOK
        <5> QED BY <4>1, <5>1
      <4>4. overlap' = overlap \cup {{session[q], opened + 1} : q \in {r \in Procs : session[r] # 0}}
        BY <3>1 DEF Open
      <4>5. ASSUME NEW pair \in overlap' PROVE pair \in SUBSET (1..MaxSessions)
        <5>1. pair \in overlap \/ \E q \in Procs : session[q] # 0 /\ pair = {session[q], opened + 1}
          BY <4>4
        <5>2. pair \in overlap => pair \in SUBSET (1..MaxSessions)
          BY DEF TypeOK
        <5> QED BY <4>3, <5>1, <5>2, Zenon
      <4> QED BY <4>2, <4>5
    <3>2. CASE Exit(p) \/ Kill(p)
      <4>1. session' = [session EXCEPT ![p] = 0] /\ overlap' = overlap
        BY <3>2 DEF Exit, Kill, Gone
      <4>2. 0 \in 0..MaxSessions
        OBVIOUS
      <4> QED BY <4>1, <4>2 DEF TypeOK
    <3>3. CASE ~(Open(p) \/ Exit(p) \/ Kill(p))
      <4>1. session' = session /\ overlap' = overlap
        BY <1>1, <3>3 DEF Step, Watch, Begin, Count, Buffer, Flush, Return, Leave, Close, Handle, CtrlC, DiskFull
      <4> QED BY <4>1 DEF TypeOK
    <3> QED BY <3>1, <3>2, <3>3
  <2>6. seq' \in [Procs -> Nat]
    <3>1. CountReadable(file) \in Nat
      BY DEF CountReadable, TypeOK
    <3>2. seq[p] + 1 \in Nat
      BY DEF TypeOK
    <3>3. \/ seq' = seq \/ seq' = [seq EXCEPT ![p] = CountReadable(file)]
          \/ seq' = [seq EXCEPT ![p] = seq[p] + 1]
      BY <1>1 DEF Step, Open, Watch, Begin, Count, Buffer, Flush, Return, Leave, Close, Exit,
                  Handle, CtrlC, Kill, DiskFull
    <3> QED BY <3>1, <3>2, <3>3, Zenon DEF TypeOK
  <2>7. armed' \in [Procs -> SUBSET Signals]
    <3>1. \E a \in SUBSET Signals : armed' = armed \/ armed' = [armed EXCEPT ![p] = a]
      BY <1>1 DEF Step, Open, Watch, Begin, Count, Buffer, Flush, Return, Leave, Close, Exit,
                  Handle, CtrlC, Kill, DiskFull, Gone, TypeOK
    <3> QED BY <3>1 DEF TypeOK
  <2>8. acked' \subseteq Event
    <3>1. CASE Return(p)
      BY <3>1, TopFacts DEF Return, At, TypeOK
    <3>2. CASE ~Return(p)
      BY <1>1, <3>2 DEF Step, Open, Watch, Begin, Count, Buffer, Flush, Leave, Close, Exit,
                        Handle, CtrlC, Kill, DiskFull, TypeOK
    <3> QED BY <3>1, <3>2
  <2> QED BY <2>1, <2>2, <2>3, <2>4, <2>5, <2>6, <2>7, <2>8 DEF TypeOK, Counted
<1>2. CASE PowerFails
  <2>1. stack' = [p \in Procs |-> <<>>] /\ stack' \in [Procs -> Seq(Frame)]
    BY <1>2 DEF PowerFails
  <2>2. \A p \in Procs : Bottom(p)'
    BY <2>1 DEF Bottom
  <2>3. TypeOK'
    BY <1>2, <2>1 DEF PowerFails, TypeOK
  <2> QED BY <1>2, <2>2, <2>3 DEF PowerFails
<1>3. CASE UNCHANGED vars
  BY <1>3 DEF vars, bounds, TypeOK, Bottom
<1> QED BY <1>1, <1>2, <1>3 DEF Next

LEMMA BaseInit ==
  ASSUME Init PROVE Base
BY EventLogAssumption DEF Init, Base, TypeOK, Filled, Bottom

\* Whatever is cut short, torn or interrupted, the log keeps its shape.
THEOREM TypeCorrect == Spec => []TypeOK
<1>1. Init => Base
  BY BaseInit
<1>2. Base /\ [Next]_vars => Base'
  BY BaseStep
<1>3. Base => TypeOK
  BY DEF Base
<1> QED BY <1>1, <1>2, <1>3, PTL DEF Spec

-----------------------------------------------------------------------------
(* The calls in progress: a signal that has one is not armed.              *)

Disarmed(p) == \A i \in 1..Len(stack[p]) : stack[p][i].event.kind \notin armed[p]

Apart(p) == \A i, j \in 1..Len(stack[p]) :
  i # j => stack[p][i].event.kind # stack[p][j].event.kind

Calls == Base /\ \A p \in Procs : Disarmed(p) /\ Apart(p)

\* Unless it calls, a step leaves some of the events that were on the stack.
LEMMA OldEvents ==
  ASSUME Base, NEW p \in Procs, Step(p), ~Calling(p), NEW i \in 1..Len(stack'[p])
  PROVE  i \in 1..Len(stack[p]) /\ stack'[p][i].event = stack[p][i].event
<1>1. Len(stack[p]) \in Nat
  BY TopFacts DEF Base
<1>2. CASE stack' = stack
  BY <1>2
<1>3. CASE Pops(p)
  BY <1>1, <1>3 DEF Pops
<1>4. ASSUME NEW frame, Moves(p, frame)
      PROVE  i \in 1..Len(stack[p]) /\ stack'[p][i].event = stack[p][i].event
  <2>1. i \in 1..Len(stack[p])
    BY <1>4 DEF Moves
  <2> QED BY <1>4, <2>1 DEF Moves, Top
<1> QED BY <1>2, <1>3, <1>4, StackFacts DEF Moved3

\* Signals are watched only between calls, and armed no more once handled.
LEMMA ArmedFacts ==
  ASSUME Base, NEW p \in Procs, Step(p)
  PROVE  /\ armed'[p] \subseteq armed[p] \/ stack'[p] = <<>>
         /\ \A q \in Procs : q # p => armed'[q] = armed[q] /\ stack'[q] = stack[q]
<1>1. armed \in [Procs -> SUBSET Signals]
  BY DEF Base, TypeOK
<1>2. \A q \in Procs : q # p => stack'[q] = stack[q]
  BY StackFacts DEF Pops, Moved3, Moves, Calling, Pushes, Rest
<1>3. CASE Watch(p)
  BY <1>1, <1>2, <1>3 DEF Watch, Idle
<1>4. CASE Exit(p) \/ Kill(p)
  BY <1>1, <1>2, <1>4 DEF Exit, Kill, Gone
<1>5. CASE \E s \in Signals : Handle(p, s)
  BY <1>1, <1>2, <1>5 DEF Handle
<1>6. CASE ~(Watch(p) \/ Exit(p) \/ Kill(p) \/ \E s \in Signals : Handle(p, s))
  <2>1. armed' = armed
    BY <1>6 DEF Step, Open, Begin, Count, Buffer, Flush, Return, Leave, Close, CtrlC, DiskFull
  <2> QED BY <1>2, <2>1
<1> QED BY <1>3, <1>4, <1>5, <1>6

LEMMA CallingApart ==
  ASSUME Calls, NEW p \in Procs, Calling(p)
  PROVE  (Disarmed(p) /\ Apart(p))'
<1>1. PICK kind \in Kinds : /\ Pushes(p, NewFrame(p, kind))
                            /\ \/ kind = "event" /\ stack[p] = <<>> /\ armed' = armed
                               \/ kind \in armed[p] /\ armed' = [armed EXCEPT ![p] = armed[p] \ {kind}]
  BY DEF Calling, Begin, Handle, Idle, Kinds, Signals
<1>2. /\ armed[p] \subseteq Signals /\ armed \in [Procs -> SUBSET Signals]
      /\ stack[p] \in Seq(Frame) /\ Len(stack[p]) \in Nat
  BY TopFacts DEF Calls, Base, TypeOK
<1>3. armed'[p] \subseteq armed[p] /\ kind \notin armed'[p]
  BY <1>1, <1>2 DEF Signals
<1>4. \A i \in 1..Len(stack[p]) : stack[p][i].event.kind # kind
  <2>1. CASE stack[p] = <<>>
    BY <2>1
  <2>2. CASE kind \in armed[p]
    BY <2>2 DEF Calls, Disarmed
  <2> QED BY <1>1, <2>1, <2>2
<1>5. PICK n \in Nat : n = Len(stack[p])
  BY <1>2
<1>6. /\ Len(stack'[p]) = n + 1 /\ stack'[p][n + 1] = NewFrame(p, kind)
      /\ \A i \in 1..n : stack'[p][i] = stack[p][i]
  BY <1>1, <1>5 DEF Pushes
<1>7. stack'[p][n + 1].event.kind = kind
  BY <1>6 DEF NewFrame
<1>8. \A i \in 1..n : /\ stack'[p][i].event.kind = stack[p][i].event.kind
                      /\ stack'[p][i].event.kind # kind
                      /\ stack'[p][i].event.kind \notin armed[p]
  BY <1>4, <1>5, <1>6 DEF Calls, Disarmed
<1>9. \A i \in 1..Len(stack'[p]) : i \in 1..n \/ i = n + 1
  BY <1>5, <1>6
<1>10. Disarmed(p)'
  BY <1>3, <1>7, <1>8, <1>9, Zenon DEF Disarmed
<1>11. Apart(p)'
  <2>1. ASSUME NEW i \in 1..Len(stack'[p]), NEW j \in 1..Len(stack'[p]), i # j
        PROVE  stack'[p][i].event.kind # stack'[p][j].event.kind
    <3>1. CASE i \in 1..n /\ j \in 1..n
      BY <1>5, <1>8, <2>1, <3>1, SMTT(20) DEF Calls, Apart
    <3>2. CASE i = n + 1 \/ j = n + 1
      BY <1>7, <1>8, <1>9, <2>1, <3>2, Zenon
    <3> QED BY <1>9, <3>1, <3>2, Zenon
  <2> QED BY <2>1 DEF Apart
<1> QED BY <1>10, <1>11

LEMMA CallsStep ==
  ASSUME Calls, [Next]_vars
  PROVE  Calls'
<1>1. Base'
  BY BaseStep DEF Calls
<1>2. ASSUME NEW p \in Procs, Step(p), NEW q \in Procs PROVE (Disarmed(q) /\ Apart(q))'
  <2>1. CASE q # p
    BY <1>2, <2>1, ArmedFacts DEF Calls, Disarmed, Apart
  <2>2. CASE Calling(p)
    BY <2>1, <2>2, CallingApart
  <2>3. CASE ~Calling(p)
    <3>1. \A i \in 1..Len(stack'[p]) : i \in 1..Len(stack[p]) /\ stack'[p][i].event = stack[p][i].event
      BY <1>2, <2>3, OldEvents DEF Calls
    <3>2. armed'[p] \subseteq armed[p] \/ stack'[p] = <<>>
      BY <1>2, ArmedFacts DEF Calls
    <3>3. Apart(p)'
      <4>1. Apart(p)
        BY DEF Calls
      <4>2. ASSUME NEW i \in 1..Len(stack'[p]), NEW j \in 1..Len(stack'[p]), i # j
            PROVE  stack'[p][i].event.kind # stack'[p][j].event.kind
        <5>1. stack[p][i].event.kind # stack[p][j].event.kind
          BY <3>1, <4>1, <4>2, Zenon DEF Apart
        <5> QED BY <3>1, <5>1
      <4> QED BY <4>2 DEF Apart
    <3>4. Disarmed(p)'
      <4>1. CASE armed'[p] \subseteq armed[p]
        <5>1. Disarmed(p)
          BY DEF Calls
        <5> QED BY <3>1, <4>1, <5>1 DEF Disarmed
      <4>2. CASE stack'[p] = <<>>
        BY <4>2 DEF Disarmed
      <4> QED BY <3>2, <4>1, <4>2
    <3> QED BY <2>1, <3>3, <3>4
  <2> QED BY <2>1, <2>2, <2>3
<1>3. CASE PowerFails
  BY <1>1, <1>3 DEF PowerFails, Calls, Disarmed, Apart
<1>4. CASE UNCHANGED vars
  BY <1>1, <1>4 DEF vars, Calls, Disarmed, Apart
<1> QED BY <1>1, <1>2, <1>3, <1>4 DEF Next, Calls

\* However fast the signals come, no handler runs above itself.
THEOREM HandlersApart == Spec => []HandlersDoNotNest
<1>1. Init => Calls
  BY BaseInit DEF Init, Calls, Disarmed, Apart
<1>2. Calls /\ [Next]_vars => Calls'
  BY CallsStep
<1>3. Calls => HandlersDoNotNest
  <2>1. ASSUME Calls, NEW p \in Procs PROVE DOMAIN stack[p] = 1..Len(stack[p])
    <3>1. stack[p] \in Seq(Frame)
      BY <2>1, TopFacts DEF Calls, Base
    <3> QED BY <3>1
  <2> QED BY <2>1, Zenon DEF Calls, Apart, HandlersDoNotNest
<1> QED BY <1>1, <1>2, <1>3, PTL DEF Spec

-----------------------------------------------------------------------------
(* Sessions and their calls: every call on a stack is one of its process's *)
(* session, and two sessions open together are in overlap.                 *)

Owned(p) ==
  /\ session[p] <= opened
  /\ session[p] = 0 => stack[p] = <<>> /\ armed[p] = {}
  /\ \A i \in 1..Len(stack[p]) : stack[p][i].event.session = session[p]

Overlapping(p, q) ==
  p # q /\ session[p] # 0 /\ session[q] # 0 =>
    session[p] # session[q] /\ {session[p], session[q]} \in overlap

Sessions == \A p \in Procs : Owned(p) /\ \A q \in Procs : Overlapping(p, q)


LEMMA OpenFacts ==
  ASSUME Base, NEW p \in Procs, Open(p)
  PROVE  /\ session[p] = 0 /\ session' = [session EXCEPT ![p] = opened + 1]
         /\ opened' = opened + 1 /\ overlap \subseteq overlap'
         /\ \A q \in Procs : session[q] # 0 => {session[q], opened + 1} \in overlap'
         /\ UNCHANGED <<file, disk, armed, stack, begun, acked>>
         /\ \A q \in Procs : q # p => session'[q] = session[q] /\ seq'[q] = seq[q]
BY DEF Open, Base, TypeOK

\* Whoever takes any other step has a session open; it may close it.
LEMMA OtherFacts ==
  ASSUME Base, Sessions, NEW p \in Procs, Step(p), ~Open(p)
  PROVE  /\ session[p] # 0 /\ overlap' = overlap /\ opened' = opened
         /\ \A q \in Procs : q # p => session'[q] = session[q] /\ seq'[q] = seq[q]
         /\ \/ session'[p] = session[p]
            \/ session'[p] = 0 /\ stack'[p] = <<>> /\ armed'[p] = {}
<1>1. /\ session \in [Procs -> 0..MaxSessions] /\ seq \in [Procs -> Nat]
      /\ stack \in [Procs -> Seq(Frame)] /\ armed \in [Procs -> SUBSET Signals]
  BY DEF Base, TypeOK
<1>2. session[p] = 0 => stack[p] = <<>> /\ armed[p] = {}
  BY DEF Sessions, Owned
<1>3. session[p] # 0
  BY <1>2 DEF Step, Watch, Begin, Idle, Count, Buffer, Flush, Return, Leave, Close, Exit,
              At, Handle, CtrlC, Kill, DiskFull
<1>4. overlap' = overlap /\ opened' = opened
  BY DEF Step, Watch, Begin, Count, Buffer, Flush, Return, Leave, Close, Exit, Handle, CtrlC,
         Kill, DiskFull, bounds
<1>5. CASE Exit(p) \/ Kill(p)
  BY <1>1, <1>3, <1>4, <1>5 DEF Exit, Kill, Gone
<1>6. CASE ~(Exit(p) \/ Kill(p))
  <2>1. session' = session
    BY <1>6 DEF Step, Watch, Begin, Count, Buffer, Flush, Return, Leave, Close, Handle, CtrlC, DiskFull
  <2>2. seq' = seq \/ seq' = [seq EXCEPT ![p] = seq[p] + 1]
    BY <1>6 DEF Step, Watch, Begin, Count, Buffer, Flush, Return, Leave, Close, Handle, CtrlC, DiskFull
  <2> QED BY <1>1, <1>3, <1>4, <2>1, <2>2
<1> QED BY <1>5, <1>6

LEMMA OwnedStep ==
  ASSUME Base, Sessions, NEW p \in Procs, Step(p), NEW q \in Procs
  PROVE  Owned(q)'
<1>1. session \in [Procs -> 0..MaxSessions] /\ opened \in Nat
  BY EventLogAssumption DEF Base, TypeOK
<1>2. Owned(q)
  BY DEF Sessions
<1>3. CASE Open(p)
  <2>1. CASE q = p
    BY <1>1, <1>2, <1>3, <2>1, OpenFacts DEF Owned
  <2>2. CASE q # p
    BY <1>1, <1>2, <1>3, <2>2, OpenFacts DEF Owned
  <2> QED BY <2>1, <2>2
<1>4. CASE ~Open(p) /\ q # p
  BY <1>2, <1>4, OtherFacts, ArmedFacts DEF Owned
<1>5. CASE ~Open(p) /\ q = p
  <2>1. CASE session'[p] = 0
    <3>1. stack'[p] = <<>> /\ armed'[p] = {} /\ opened' = opened
      BY <1>5, <2>1, OtherFacts
    <3> QED BY <1>1, <1>5, <2>1, <3>1 DEF Owned
  <2>2. CASE session'[p] # 0
    <3>1. session'[p] = session[p] /\ opened' = opened
      BY <1>5, <2>2, OtherFacts
    <3>2. ASSUME NEW i \in 1..Len(stack'[p])
          PROVE  stack'[p][i].event.session = session[p]
      <4>1. CASE Calling(p)
        <5>1. PICK kind \in Kinds : Pushes(p, NewFrame(p, kind))
          BY <4>1 DEF Calling, Kinds
        <5>2. NewFrame(p, kind).event.session = session[p]
          BY DEF NewFrame
        <5>3. Len(stack[p]) \in Nat
          BY TopFacts DEF Base
        <5>4. i \in 1..Len(stack[p]) \/ i = Len(stack[p]) + 1
          BY <5>1, <5>3 DEF Pushes
        <5>5. CASE i \in 1..Len(stack[p])
          BY <1>2, <1>5, <5>1, <5>5 DEF Pushes, Owned
        <5>6. CASE i = Len(stack[p]) + 1
          BY <5>1, <5>2, <5>6 DEF Pushes
        <5> QED BY <5>4, <5>5, <5>6
      <4>2. CASE ~Calling(p)
        BY <1>2, <1>5, <4>2, OldEvents DEF Owned
      <4> QED BY <4>1, <4>2
    <3> QED BY <1>2, <1>5, <2>2, <3>1, <3>2 DEF Owned
  <2> QED BY <2>1, <2>2
<1> QED BY <1>3, <1>4, <1>5

LEMMA OverlappingStep ==
  ASSUME Base, Sessions, NEW p \in Procs, Step(p), NEW q \in Procs, NEW r \in Procs
  PROVE  Overlapping(q, r)'
<1> SUFFICES ASSUME q # r, session'[q] # 0, session'[r] # 0
             PROVE  session'[q] # session'[r] /\ {session'[q], session'[r]} \in overlap'
  BY DEF Overlapping
<1>1. \A x \in Procs : session[x] \in Nat /\ session[x] <= opened
  BY EventLogAssumption DEF Sessions, Owned, Base, TypeOK
<1>2. opened \in Nat /\ session \in [Procs -> 0..MaxSessions]
  BY EventLogAssumption DEF Base, TypeOK
<1>3. Overlapping(q, r)
  BY DEF Sessions
<1>4. CASE ~Open(p)
  <2>1. session'[q] = session[q] /\ session'[r] = session[r] /\ overlap' = overlap
    BY <1>4, OtherFacts
  <2> QED BY <1>3, <2>1 DEF Overlapping
<1>5. CASE Open(p)
  <2>1. /\ session'[p] = opened + 1 /\ overlap \subseteq overlap'
        /\ \A x \in Procs : x # p => session'[x] = session[x]
        /\ \A x \in Procs : session[x] # 0 => {session[x], opened + 1} \in overlap'
    BY <1>2, <1>5, OpenFacts
  <2>2. CASE q # p /\ r # p
    BY <1>3, <2>1, <2>2 DEF Overlapping
  <2>3. CASE q = p
    <3>1. session'[r] = session[r] /\ {session[r], opened + 1} \in overlap'
      BY <2>1, <2>3
    <3>2. {session[r], opened + 1} = {opened + 1, session[r]}
      OBVIOUS
    <3> QED BY <1>1, <1>2, <2>1, <2>3, <3>1, <3>2
  <2>4. CASE r = p
    BY <1>1, <1>2, <2>1, <2>4
  <2> QED BY <2>2, <2>3, <2>4
<1> QED BY <1>4, <1>5

LEMMA SessionsStep ==
  ASSUME Base, Sessions, [Next]_vars
  PROVE  Sessions'
<1>1. ASSUME NEW p \in Procs, Step(p) PROVE Sessions'
  BY <1>1, OwnedStep, OverlappingStep DEF Sessions
<1>2. CASE PowerFails
  <2>1. ASSUME NEW p \in Procs PROVE session'[p] = 0 /\ stack'[p] = <<>> /\ armed'[p] = {}
    BY <1>2 DEF PowerFails
  <2>2. opened' \in Nat
    BY <1>2, EventLogAssumption DEF PowerFails, Base, TypeOK
  <2> QED BY <2>1, <2>2 DEF Sessions, Owned, Overlapping
<1>3. CASE UNCHANGED vars
  BY <1>3 DEF vars, bounds, Sessions, Owned, Overlapping
<1> QED BY <1>1, <1>2, <1>3 DEF Next

-----------------------------------------------------------------------------
(***************************************************************************)
(* What a returned call leaves.  A call that found the file terminated     *)
(* will be glued to nothing but the wreckage of a session that is open     *)
(* too: within its own process whatever could leave a wreckage has raised  *)
(* the exception that ends this call.                                      *)
(***************************************************************************)
Unglued(p) ==
  Live(p) /\ Top(p).at = "buffered" /\ ~Top(p).newline /\ Unterminated(file) =>
    {Head1(file, Len(file)).session, session[p]} \in overlap

Arrived(p) == Live(p) /\ Top(p).at = "written" => Kept(file, Top(p).event)

Survives == \A e \in acked : Kept(file, e) /\ Kept(disk, e)

AckInv == Calls /\ Sessions /\ Survives /\ \A p \in Procs : Unglued(p) /\ Arrived(p)

\* A whole write is read: on a line of its own, or glued to the last one.
LEMMA AppendedKept ==
  ASSUME NEW f \in Seq(Line), Filled(f), NEW frame \in Frame,
         ~frame.newline /\ Unterminated(f) =>
           {Head1(f, Len(f)).session, frame.event.session} \in overlap
  PROVE  Kept(Appended(f, frame), frame.event)
<1>1. PICK e \in Event : e = frame.event
  BY DEF Frame
<1>2. PICK g \in Seq(Line) : g = Prefixed(f, frame)
  BY EndedFacts DEF Prefixed
<1>3. PICK h \in Seq(Line) : h = Put(g, e, TRUE, TRUE)
  BY PutFacts
<1>4. Len(g) \in Nat /\ DOMAIN h = 1..Len(h)
  BY LineFacts
<1>5. CASE Unterminated(g)
  <2>1. ~frame.newline /\ g = f
    BY <1>2, <1>5, EndedFacts DEF Prefixed
  <2>2. PICK n \in Nat : n = Len(f)
    BY <1>4, <2>1
  <2>3. n >= 1 /\ Len(h) = n
    BY <1>3, <1>5, <2>1, <2>2, PutFacts
  <2>4. h[n] = [events |-> Append(f[n].events, e), whole |-> FALSE, ended |-> TRUE]
    BY <1>3, <1>5, <2>1, <2>2, PutFacts, ZenonT(30)
  <2>5. n \in 1..n
    BY <2>3
  <2>6. f[n].events \in Seq(Event) /\ Len(f[n].events) >= 1
    BY <2>2, <2>5, LineFacts DEF Filled
  <2>7. PICK m \in Nat : m = Len(f[n].events)
    BY <2>6
  <2>8. h[n].events = Append(f[n].events, e)
    BY <2>4
  <2>9. m + 1 \in DOMAIN h[n].events /\ h[n].events[m + 1] = e /\ h[n].events[1] = f[n].events[1]
    BY <2>6, <2>7, <2>8
  <2>10. {f[n].events[1].session, e.session} \in overlap
    BY <1>1, <1>5, <2>1, <2>2 DEF Head1
  <2>11. n \in DOMAIN h
    BY <1>4, <2>3, <2>5
  <2>12. Kept(h, e)
    BY <2>9, <2>10, <2>11 DEF Kept, Head1
  <2> QED BY <1>1, <1>2, <1>3, <2>12 DEF Appended
<1>6. CASE ~Unterminated(g)
  <2>1. PICK n \in Nat : n = Len(g) + 1
    BY <1>4
  <2>2. Len(h) = n /\ h[n] = [events |-> <<e>>, whole |-> TRUE, ended |-> TRUE]
    BY <1>3, <1>6, <2>1, PutFacts, ZenonT(30)
  <2>3. n \in DOMAIN h
    BY <1>4, <2>1, <2>2
  <2>4. Kept(h, e)
    BY <2>2, <2>3 DEF Kept
  <2> QED BY <1>1, <1>2, <1>3, <2>4 DEF Appended
<1> QED BY <1>5, <1>6

LEMMA KeptPrimed ==
  ASSUME overlap \subseteq overlap', NEW e
  PROVE  /\ Kept(file', e) => Kept(file, e)'
         /\ Kept(disk', e) => Kept(disk, e)'
BY DEF Kept, Head1

LEMMA FileKept ==
  ASSUME Base, NEW p \in Procs, Step(p), NEW e \in Event, Kept(file, e)
  PROVE  Kept(file', e)
BY FileFacts DEF Writes, Grown

LEMMA OverlapGrows ==
  ASSUME Base, Sessions, NEW p \in Procs, Step(p)
  PROVE  overlap \subseteq overlap'
<1>1. Open(p) => overlap \subseteq overlap'
  BY OpenFacts
<1>2. ~Open(p) => overlap' = overlap
  BY OtherFacts
<1> QED BY <1>1, <1>2

\* The innermost frame after a step of its process.
LEMMA NewTop ==
  ASSUME NEW p \in Procs, NEW frame, Moves(p, frame) \/ Pushes(p, frame)
  PROVE  Top(p)' = frame
BY DEF Moves, Pushes, Top

LEMMA CallingTop ==
  ASSUME NEW p \in Procs, Calling(p)
  PROVE  Top(p)'.at = "numbered" /\ \E kind \in Kinds : Pushes(p, NewFrame(p, kind))
<1>1. PICK kind \in Kinds : Pushes(p, NewFrame(p, kind))
  BY Zenon DEF Calling, Kinds
<1>2. Top(p)' = NewFrame(p, kind)
  BY <1>1, NewTop
<1>3. NewFrame(p, kind).at = "numbered"
  BY DEF NewFrame
<1> QED BY <1>1, <1>2, <1>3, Zenon

LEMMA LiveStep ==
  ASSUME Base, Sessions, NEW p \in Procs, Step(p), Live(p)'
  PROVE  \/ Count(p) /\ Moves(p, [Top(p) EXCEPT !.at = "counted"])
         \/ Buffer(p) /\ Moves(p, [Top(p) EXCEPT !.at = "buffered", !.newline = Unterminated(file)])
         \/ Flush(p) /\ Moves(p, [Top(p) EXCEPT !.at = "written"])
         \/ Calling(p)
<1>1. CASE (Open(p) \/ Watch(p)) /\ stack' = stack
  <2>1. stack[p] = <<>>
    BY <1>1 DEF Open, Watch, Idle, Sessions, Owned
  <2> QED BY <1>1, <2>1 DEF Live
<1>2. ~Pops(p)
  BY DEF Pops
<1> QED BY <1>1, <1>2, StackFacts DEF Moved3

LEMMA ArrivedStep ==
  ASSUME AckInv, NEW p \in Procs, Step(p), NEW q \in Procs
  PROVE  Arrived(q)'
<1> SUFFICES ASSUME Live(q)', Top(q)'.at = "written"
             PROVE  Kept(file, Top(q).event)'
  BY DEF Arrived
<1>1. Base /\ Sessions /\ overlap \subseteq overlap'
  BY OverlapGrows DEF AckInv, Calls
<1>2. CASE q # p
  <2>1. stack'[q] = stack[q]
    BY <1>1, <1>2, ArmedFacts
  <2>2. Live(q) /\ Top(q)' = Top(q)
    BY <2>1 DEF Live, Top
  <2>3. PICK e \in Event : e = Top(q).event
    BY <1>1, <2>2, TopFacts DEF Base, Live
  <2>4. Kept(file, e)
    BY <2>2, <2>3 DEF AckInv, Arrived
  <2>5. Kept(file, e)'
    BY <1>1, <2>4, FileKept, KeptPrimed
  <2>6. e = Top(q).event'
    BY <2>2, <2>3
  <2> QED BY <2>5, <2>6
<1>3. CASE q = p
  <2>1. stack[p] # <<>> => Top(p) \in Frame
    BY <1>1, TopFacts DEF Base
  <2>2. Flush(p) /\ Moves(p, [Top(p) EXCEPT !.at = "written"])
    <3>1. ~Calling(p)
      BY <1>3, CallingTop
    <3>2. ASSUME Count(p) /\ Moves(p, [Top(p) EXCEPT !.at = "counted"]) PROVE FALSE
      <4>1. Top(p)' = [Top(p) EXCEPT !.at = "counted"]
        BY <3>2, NewTop
      <4> QED BY <1>3, <2>1, <3>2, <4>1 DEF Moves, Frame
    <3>3. ASSUME Buffer(p),
                 Moves(p, [Top(p) EXCEPT !.at = "buffered", !.newline = Unterminated(file)])
          PROVE  FALSE
      <4>1. Top(p)' = [Top(p) EXCEPT !.at = "buffered", !.newline = Unterminated(file)]
        BY <3>3, NewTop
      <4> QED BY <1>3, <2>1, <3>3, <4>1 DEF Moves, Frame
    <3> QED BY <1>1, <1>3, <3>1, <3>2, <3>3, LiveStep
  <2>3. /\ stack[p] # <<>> /\ Top(p).at = "buffered" /\ Live(p)
        /\ file' = Appended(file, Top(p))
    BY <1>1, <2>2, TopFacts DEF Flush, At, Live, Base
  <2>4. Top(p).event.session = session[p]
    <3>1. Len(stack[p]) \in 1..Len(stack[p])
      BY <1>1, <2>3, TopFacts DEF Base
    <3> QED BY <1>1, <3>1 DEF Sessions, Owned, Top
  <2>5. PICK frame \in Frame : frame = Top(p)
    BY <2>1, <2>3
  <2>6. ~frame.newline /\ Unterminated(file) =>
          {Head1(file, Len(file)).session, frame.event.session} \in overlap
    BY <2>3, <2>4, <2>5 DEF AckInv, Unglued
  <2>7. Kept(file', frame.event)
    BY <1>1, <2>3, <2>5, <2>6, AppendedKept DEF Base, TypeOK
  <2>8. Kept(file, frame.event)'
    BY <1>1, <2>7, KeptPrimed
  <2>9. Top(q).event' = frame.event
    BY <1>3, <2>2, <2>5, NewTop DEF Frame
  <2> QED BY <2>8, <2>9
<1> QED BY <1>2, <1>3

LEMMA UngluedStep ==
  ASSUME AckInv, NEW p \in Procs, Step(p), NEW q \in Procs
  PROVE  Unglued(q)'
<1> SUFFICES ASSUME Live(q)', Top(q)'.at = "buffered", ~Top(q)'.newline, Unterminated(file')
             PROVE  {Head1(file', Len(file')).session, session'[q]} \in overlap'
  BY DEF Unglued, Unterminated, Head1
<1>1. Base /\ Sessions /\ overlap \subseteq overlap'
  BY OverlapGrows DEF AckInv, Calls
<1>2. CASE q # p
  <2>1. stack'[q] = stack[q]
    BY <1>1, <1>2, ArmedFacts
  <2>2. Live(q) /\ Top(q)' = Top(q) /\ session[q] # 0
    BY <1>1, <2>1 DEF Live, Top, Sessions, Owned
  <2>3. session'[q] = session[q]
    BY <1>1, <1>2, OpenFacts, OtherFacts
  <2>4. Unterminated(file) => {Head1(file, Len(file)).session, session[q]} \in overlap
    BY <2>2 DEF AckInv, Unglued
  <2>5. CASE file' = file
    BY <1>1, <2>3, <2>4, <2>5
  <2>6. CASE Writes(p)
    <3>1. \/ Unterminated(file) /\ Head1(file', Len(file')) = Head1(file, Len(file))
          \/ Head1(file', Len(file')) = Top(p).event
      BY <2>6 DEF Writes, Grown
    <3>2. Top(p).event.session = session[p] /\ session[p] # 0
      <4>1. Len(stack[p]) \in 1..Len(stack[p]) /\ stack[p] # <<>>
        BY <1>1, <2>6, TopFacts DEF Base, Writes
      <4> QED BY <1>1, <4>1 DEF Sessions, Owned, Top
    <3>3. {session[p], session[q]} \in overlap
      BY <1>1, <1>2, <2>2, <3>2 DEF Sessions, Overlapping
    <3> QED BY <1>1, <2>3, <2>4, <3>1, <3>2, <3>3
  <2> QED BY <1>1, <2>5, <2>6, FileFacts
<1>3. CASE q = p
  <2>1. stack[p] # <<>> => Top(p) \in Frame
    BY <1>1, TopFacts DEF Base
  <2>2. ~Calling(p)
    BY <1>3, CallingTop
  <2>3. ASSUME NEW place \in {"counted", "written"}, Moves(p, [Top(p) EXCEPT !.at = place])
        PROVE  FALSE
    <3>1. Top(p)' = [Top(p) EXCEPT !.at = place]
      BY <2>3, NewTop
    <3> QED BY <1>3, <2>1, <2>3, <3>1 DEF Moves, Frame
  <2>4. ASSUME Buffer(p),
               Moves(p, [Top(p) EXCEPT !.at = "buffered", !.newline = Unterminated(file)])
        PROVE  FALSE
    <3>1. Top(p)' = [Top(p) EXCEPT !.at = "buffered", !.newline = Unterminated(file)]
      BY <2>4, NewTop
    <3>2. Top(p)'.newline = Unterminated(file)
      BY <2>1, <2>4, <3>1 DEF Moves, Frame
    <3>3. file' = file
      BY <2>4 DEF Buffer
    <3> QED BY <1>3, <3>2, <3>3
  <2> QED BY <1>1, <1>3, <2>2, <2>3, <2>4, LiveStep
<1> QED BY <1>2, <1>3

LEMMA SurvivesStep ==
  ASSUME AckInv, NEW p \in Procs, Step(p)
  PROVE  Survives'
<1>1. Base /\ Sessions /\ overlap \subseteq overlap' /\ acked \subseteq Event
  BY OverlapGrows DEF AckInv, Calls, Base, TypeOK
<1>2. CASE Return(p)
  <2>1. /\ Live(p) /\ Top(p).at = "written" /\ Top(p).event \in Event
        /\ file' = file /\ disk' = file /\ acked' = acked \cup {Top(p).event}
    BY <1>1, <1>2, TopFacts DEF Return, At, Base, Live
  <2>2. ASSUME NEW e \in acked' PROVE Kept(file', e) /\ Kept(disk', e)
    <3>1. CASE e \in acked
      BY <2>1, <3>1 DEF AckInv, Survives
    <3>2. CASE e = Top(p).event
      BY <2>1, <3>2 DEF AckInv, Arrived
    <3> QED BY <2>1, <3>1, <3>2
  <2> QED BY <1>1, <2>2, KeptPrimed DEF Survives
<1>3. CASE ~Return(p)
  <2>1. acked' = acked /\ disk' = disk
    BY <1>3 DEF Step, Open, Watch, Begin, Count, Buffer, Flush, Leave, Close, Exit, Handle,
                CtrlC, Kill, DiskFull
  <2>2. ASSUME NEW e \in acked' PROVE Kept(file', e) /\ Kept(disk', e)
    <3>1. e \in Event /\ Kept(file, e) /\ Kept(disk, e)
      BY <1>1, <2>1 DEF AckInv, Survives
    <3> QED BY <1>1, <2>1, <3>1, FileKept
  <2> QED BY <1>1, <2>2, KeptPrimed DEF Survives
<1> QED BY <1>2, <1>3

LEMMA AckStep ==
  ASSUME AckInv, [Next]_vars
  PROVE  AckInv'
<1>1. (Calls /\ Sessions)'
  BY CallsStep, SessionsStep DEF AckInv, Calls
<1>2. ASSUME NEW p \in Procs, Step(p) PROVE AckInv'
  BY <1>1, <1>2, SurvivesStep, UngluedStep, ArrivedStep DEF AckInv
<1>3. CASE PowerFails
  <2>1. /\ acked' = acked /\ overlap' = overlap /\ file' \in {file, disk} /\ disk' = file'
        /\ \A p \in Procs : stack'[p] = <<>>
    BY <1>3 DEF PowerFails
  <2>2. Survives'
    <3>1. ASSUME NEW e \in acked' PROVE Kept(file', e) /\ Kept(disk', e)
      BY <2>1 DEF AckInv, Survives
    <3> QED BY <2>1, <3>1, KeptPrimed DEF Survives
  <2> QED BY <1>1, <2>1, <2>2 DEF AckInv, Unglued, Arrived, Live
<1>4. CASE UNCHANGED vars
  <2>1. Survives'
    BY <1>4 DEF vars, AckInv, Survives, Kept, Head1
  <2>2. ASSUME NEW p \in Procs PROVE (Unglued(p) /\ Arrived(p))'
    <3>1. Live(p)' = Live(p) /\ Top(p)' = Top(p)
      BY <1>4 DEF vars, Live, Top
    <3>2. Unglued(p) /\ Arrived(p)
      BY DEF AckInv
    <3> QED BY <1>4, <3>1, <3>2 DEF vars, Unglued, Arrived, Kept, Head1, Unterminated
  <2> QED BY <1>1, <2>1, <2>2 DEF AckInv
<1> QED BY <1>2, <1>3, <1>4 DEF Next

LEMMA SessionsInit ==
  ASSUME Init PROVE Calls /\ Sessions
<1>1. Base
  BY BaseInit
<1>2. Calls
  BY <1>1 DEF Init, Calls, Disarmed, Apart
<1>3. Sessions
  BY DEF Init, Sessions, Owned, Overlapping
<1> QED BY <1>2, <1>3

\* An event whose log_event returned is read ever after, through interrupts,
\* kills, full disks and power failures, unless another open session's wreckage
\* spoilt its line.
THEOREM ReturnedIsKept == Spec => []AckedSurvives
<1>1. Init => AckInv
  BY SessionsInit DEF Init, AckInv, Survives, Unglued, Arrived, Live
<1>2. AckInv /\ [Next]_vars => AckInv'
  BY AckStep
<1>3. AckInv => AckedSurvives
  BY DEF AckInv, Survives, Kept, Head1, AckedSurvives, KeptIn
<1> QED BY <1>1, <1>2, <1>3, PTL DEF Spec

-----------------------------------------------------------------------------
(***************************************************************************)
(* The order of the lines.                                                 *)
(***************************************************************************)
Known(e) == e.session <= opened /\ e.nth <= begun

Dated ==
  /\ \A e \in acked : Known(e)
  /\ \A i \in 1..Len(file) : Known(Head1(file, i))
  /\ \A i \in 1..Len(disk) : Known(Head1(disk, i))
  /\ \A p \in Procs : \A i \in 1..Len(stack[p]) : Known(stack[p][i].event)

\* A call in progress has not returned, and one that is yet to write is not in the file.
Unwritten(p) ==
  \A i \in 1..Len(stack[p]) :
    /\ stack[p][i].event \notin acked
    /\ stack[p][i].at \in Pending => \A j \in 1..Len(file) : Head1(file, j) # stack[p][i].event

\* What has returned is numbered below what is to come.
Below(p, n) == \A d \in acked : d.session = session[p] => d.seq < n

Numbered(p) ==
  /\ session[p] # 0 => Below(p, seq[p])
  /\ Live(p) => /\ Below(p, Top(p).event.seq)
                /\ Top(p).at = "numbered" => Top(p).event.seq = seq[p]
                /\ Top(p).at # "numbered" => Top(p).event.seq < seq[p]

\* An event that has reached the file lies behind all of its session that returned.
Behind(p) ==
  Live(p) /\ Top(p).at = "written" =>
    \A i, j \in 1..Len(file) :
      /\ Head1(file, j) = Top(p).event
      /\ Head1(file, i) \in acked \cup {Top(p).event}
      /\ Head1(file, i).session = session[p]
      => i <= j

InOrder(f) ==
  \A i, j \in 1..Len(f) :
    /\ i < j /\ Head1(f, i) \in acked /\ Head1(f, j) \in acked
    /\ Head1(f, i).session = Head1(f, j).session
    => Head1(f, i).seq < Head1(f, j).seq

OrderInv ==
  /\ Calls /\ Sessions /\ Dated /\ InOrder(file) /\ InOrder(disk)
  /\ \A p \in Procs : Unwritten(p) /\ Numbered(p) /\ Behind(p)

LEMMA HeadFacts ==
  ASSUME NEW f \in Seq(Line), Filled(f), NEW i \in 1..Len(f)
  PROVE  Head1(f, i) \in Event
<1>1. f[i].events \in Seq(Event) /\ Len(f[i].events) >= 1
  BY LineFacts DEF Filled
<1> QED BY <1>1 DEF Head1

LEMMA FrameFacts ==
  ASSUME Base, Sessions, NEW p \in Procs, NEW i \in 1..Len(stack[p])
  PROVE  /\ stack[p][i].event \in Event
         /\ stack[p][i].event.session = session[p] /\ session[p] # 0
<1>1. stack[p] \in Seq(Frame)
  BY TopFacts DEF Base
<1>2. stack[p][i] \in Frame /\ stack[p] # <<>>
  BY <1>1
<1> QED BY <1>2 DEF Frame, Sessions, Owned

LEMMA TopSession ==
  ASSUME Base, Sessions, NEW p \in Procs, stack[p] # <<>>
  PROVE  /\ Top(p).event \in Event /\ Top(p).event.session = session[p] /\ session[p] # 0
         /\ Len(stack[p]) \in 1..Len(stack[p]) /\ Top(p) = stack[p][Len(stack[p])]
<1>1. Len(stack[p]) \in 1..Len(stack[p])
  BY TopFacts DEF Base
<1> QED BY <1>1, FrameFacts DEF Top

\* The file grows at its end, by the innermost event of the process that steps.
LEMMA HeadsStep ==
  ASSUME Base, NEW p \in Procs, Step(p)
  PROVE  /\ Len(file) \in Nat /\ Len(file') \in Nat /\ Len(file) <= Len(file')
         /\ \A i \in 1..Len(file') :
              \/ i \in 1..Len(file) /\ Head1(file', i) = Head1(file, i)
              \/ Writes(p) /\ i = Len(file) + 1 /\ Head1(file', i) = Top(p).event
<1>1. file \in Seq(Line) /\ Len(file) \in Nat /\ DOMAIN file = 1..Len(file)
  BY LineFacts DEF Base, TypeOK
<1>2. CASE file' = file
  BY <1>1, <1>2
<1>3. CASE Writes(p)
  <2>1. Grown(file, file', Top(p).event)
    BY <1>3 DEF Writes
  <2>2. file' \in Seq(Line) /\ Len(file) <= Len(file')
    BY <2>1 DEF Grown
  <2>3. Len(file') \in Nat /\ DOMAIN file' = 1..Len(file')
    BY <2>2
  <2> QED BY <1>1, <1>3, <2>1, <2>2, <2>3 DEF Grown
<1> QED BY <1>2, <1>3, FileFacts

LEMMA AckedStep ==
  ASSUME Base, NEW p \in Procs, Step(p)
  PROVE  \/ ~Return(p) /\ acked' = acked /\ disk' = disk
         \/ /\ Return(p) /\ Live(p) /\ Top(p).at = "written" /\ stack[p] # <<>>
            /\ acked' = acked \cup {Top(p).event} /\ file' = file /\ disk' = file
            /\ Len(stack'[p]) < Len(stack[p])
<1>1. CASE Return(p)
  BY <1>1, TopFacts, ReturnFacts DEF Return, At, Base, Live
<1>2. CASE ~Return(p)
  BY <1>2 DEF Step, Open, Watch, Begin, Count, Buffer, Flush, Leave, Close, Exit, Handle, CtrlC,
              Kill, DiskFull
<1> QED BY <1>1, <1>2

LEMMA CountersStep ==
  ASSUME Base, Sessions, NEW p \in Procs, Step(p)
  PROVE  /\ opened \in Nat /\ opened' \in Nat /\ opened <= opened'
         /\ begun \in Nat /\ begun' \in Nat /\ begun <= begun'
         /\ Calling(p) => begun' = begun + 1 /\ acked' = acked /\ file' = file /\ seq' = seq
<1>1. opened \in Nat /\ begun \in Nat
  BY EventLogAssumption DEF Base, TypeOK
<1>2. opened' = opened \/ opened' = opened + 1
  BY OpenFacts, OtherFacts
<1>3. Calling(p) => begun' = begun + 1 /\ acked' = acked /\ file' = file /\ seq' = seq
  BY DEF Calling, Begin, Handle, Called
<1>4. CASE Calling(p)
  BY <1>1, <1>2, <1>3, <1>4
<1>5. CASE ~Calling(p)
  <2>1. CASE Begin(p) \/ \E s \in Signals : Handle(p, s)
    <3>1. begun' = begun + 1
      BY <2>1 DEF Begin, Handle, Called
    <3> QED BY <1>1, <1>2, <1>3, <3>1
  <2>2. CASE ~(Begin(p) \/ \E s \in Signals : Handle(p, s))
    <3>1. begun' = begun
      BY <2>2 DEF Step, Open, Watch, Count, Buffer, Flush, Return, Leave, Close, Exit, CtrlC,
                  Kill, DiskFull, bounds
    <3> QED BY <1>1, <1>2, <1>5, <3>1
  <2> QED BY <2>1, <2>2
<1> QED BY <1>4, <1>5

LEMMA DatedStep ==
  ASSUME OrderInv, NEW p \in Procs, Step(p)
  PROVE  Dated'
<1>1. Base /\ Sessions /\ Dated
  BY DEF OrderInv, Calls
<1>2. ASSUME NEW e \in Event, Known(e) PROVE e.session <= opened' /\ e.nth <= begun'
  BY <1>1, <1>2, CountersStep DEF Known, Event
<1>3. stack[p] # <<>> => Top(p).event \in Event /\ Known(Top(p).event)
  BY <1>1, TopSession DEF Dated
<1>4. ASSUME NEW i \in 1..Len(file)
      PROVE  Head1(file, i).session <= opened' /\ Head1(file, i).nth <= begun'
  BY <1>1, <1>2, HeadFacts DEF Dated, Base, TypeOK
<1>5. ASSUME NEW i \in 1..Len(disk)
      PROVE  Head1(disk, i).session <= opened' /\ Head1(disk, i).nth <= begun'
  BY <1>1, <1>2, HeadFacts DEF Dated, Base, TypeOK
<1>6. ASSUME NEW e \in acked' PROVE Known(e)'
  <2>1. e \in acked \/ (stack[p] # <<>> /\ e = Top(p).event)
    BY <1>1, AckedStep
  <2>2. e \in Event /\ Known(e)
    BY <1>1, <1>3, <2>1 DEF Dated, Base, TypeOK
  <2> QED BY <1>2, <2>2 DEF Known
<1>7. ASSUME NEW i \in 1..Len(file') PROVE Known(Head1(file, i))'
  <2>1. CASE i \in 1..Len(file) /\ Head1(file', i) = Head1(file, i)
    BY <1>4, <2>1 DEF Known, Head1
  <2>2. CASE Writes(p) /\ Head1(file', i) = Top(p).event
    BY <1>2, <1>3, <2>2 DEF Known, Head1, Writes
  <2> QED BY <1>1, <2>1, <2>2, HeadsStep
<1>8. ASSUME NEW i \in 1..Len(disk') PROVE Known(Head1(disk, i))'
  BY <1>1, <1>4, <1>5, AckedStep DEF Known, Head1
<1>9. ASSUME NEW q \in Procs, NEW i \in 1..Len(stack'[q]) PROVE Known(stack[q][i].event)'
  <2>1. CASE i \in 1..Len(stack[q]) /\ stack'[q][i].event = stack[q][i].event
    <3>1. stack[q][i].event \in Event /\ Known(stack[q][i].event)
      BY <1>1, <2>1, FrameFacts DEF Dated
    <3> QED BY <1>2, <2>1, <3>1 DEF Known
  <2>2. CASE q # p
    BY <1>1, <2>1, <2>2, ArmedFacts
  <2>3. CASE q = p /\ ~Calling(p)
    BY <1>1, <2>1, <2>3, OldEvents
  <2>4. CASE q = p /\ Calling(p)
    <3>1. PICK kind \in Kinds : Pushes(p, NewFrame(p, kind))
      BY <2>4, CallingTop
    <3>2. Len(stack[p]) \in Nat
      BY <1>1, TopFacts DEF Base
    <3>3. CASE i \in 1..Len(stack[p])
      BY <2>1, <2>4, <3>1, <3>3 DEF Pushes
    <3>4. CASE i = Len(stack[p]) + 1
      <4>1. stack'[p][i].event.session = session[p] /\ stack'[p][i].event.nth = begun + 1
        BY <3>1, <3>4 DEF Pushes, NewFrame
      <4>2. session[p] \in Nat /\ session[p] <= opened
        BY <1>1, EventLogAssumption DEF Sessions, Owned, Base, TypeOK
      <4> QED BY <1>1, <2>4, <4>1, <4>2, CountersStep DEF Known
    <3> QED BY <2>4, <3>1, <3>2, <3>3, <3>4 DEF Pushes
  <2> QED BY <2>2, <2>3, <2>4
<1> QED BY <1>6, <1>7, <1>8, <1>9 DEF Dated

\* Of the frames that a step leaves, those that are yet to write were so before,
\* and the step has not written their event.
LEMMA PendingStep ==
  ASSUME Base, NEW p \in Procs, Step(p), ~Calling(p), NEW i \in 1..Len(stack'[p]),
         stack'[p][i].at \in Pending
  PROVE  /\ i \in 1..Len(stack[p]) /\ stack[p][i].at \in Pending
         /\ Writes(p) => i # Len(stack[p])
<1>1. i \in 1..Len(stack[p]) /\ Len(stack[p]) \in Nat /\ Len(stack'[p]) \in Nat
  BY OldEvents, StackFacts, LineFacts, TopFacts DEF Base
<1>2. stack[p] # <<>> => Top(p) \in Frame
  BY TopFacts DEF Base
<1>3. Writes(p) => i # Len(stack[p])
  <2>1. CASE Flush(p)
    <3>1. stack[p] # <<>> /\ Moves(p, [Top(p) EXCEPT !.at = "written"])
      BY <2>1, MovedFacts DEF Flush, At, Places, Base
    <3>2. stack'[p][Len(stack[p])].at = "written"
      BY <1>2, <3>1 DEF Moves, Frame
    <3> QED BY <3>2 DEF Pending
  <2>2. CASE Len(stack'[p]) < Len(stack[p])
    BY <1>1, <2>2
  <2> QED BY <2>1, <2>2 DEF Writes
<1>4. CASE stack' = stack \/ Pops(p)
  BY <1>1, <1>3, <1>4 DEF Pops
<1>5. CASE Count(p) /\ Moves(p, [Top(p) EXCEPT !.at = "counted"])
  <2>1. Top(p).at = "numbered"
    BY <1>5, TopFacts DEF Count, At, Base
  <2> QED BY <1>1, <1>3, <1>5, <2>1 DEF Moves, Pending, Top
<1>6. CASE /\ Buffer(p)
           /\ Moves(p, [Top(p) EXCEPT !.at = "buffered", !.newline = Unterminated(file)])
  <2>1. Top(p).at = "counted"
    BY <1>6, TopFacts DEF Buffer, At, Base
  <2> QED BY <1>1, <1>3, <1>6, <2>1 DEF Moves, Pending, Top
<1>7. CASE Flush(p) /\ Moves(p, [Top(p) EXCEPT !.at = "written"])
  <2>1. stack'[p][Len(stack[p])].at = "written"
    BY <1>2, <1>7 DEF Moves, Frame
  <2>2. i # Len(stack[p])
    BY <2>1 DEF Pending
  <2> QED BY <1>1, <1>3, <1>7, <2>2 DEF Moves
<1> QED BY <1>4, <1>5, <1>6, <1>7, StackFacts DEF Moved3

LEMMA UnwrittenOwn ==
  ASSUME OrderInv, NEW p \in Procs, Step(p)
  PROVE  Unwritten(p)'
<1>1. Base /\ Sessions /\ Dated /\ Unwritten(p) /\ Apart(p) /\ Len(stack[p]) \in Nat
  BY TopFacts DEF OrderInv, Calls, Base
<1>2. CASE Calling(p)
  <2>1. PICK kind \in Kinds : Pushes(p, NewFrame(p, kind))
    BY <1>2, CallingTop
  <2>2. acked' = acked /\ file' = file /\ begun \in Nat
    BY <1>1, <1>2, CountersStep
  <2>3. PICK e : e = NewFrame(p, kind).event
    OBVIOUS
  <2>10. e.nth = begun + 1
    BY <2>3 DEF NewFrame
  <2>4. \A d \in acked : d # e
    BY <1>1, <2>2, <2>10 DEF Dated, Known, Base, TypeOK, Event
  <2>5. \A j \in 1..Len(file) : Head1(file, j) # e
    <3>1. ASSUME NEW j \in 1..Len(file) PROVE Head1(file, j) # e
      <4>1. Head1(file, j) \in Event /\ Known(Head1(file, j))
        BY <1>1, HeadFacts DEF Dated, Base, TypeOK
      <4> QED BY <2>2, <2>10, <4>1 DEF Known, Event
    <3> QED BY <3>1
  <2>6. ASSUME NEW i \in 1..Len(stack'[p])
        PROVE  \/ i \in 1..Len(stack[p]) /\ stack'[p][i] = stack[p][i]
               \/ stack'[p][i].event = e
    BY <1>1, <2>1, <2>3 DEF Pushes
  <2> QED BY <1>1, <2>2, <2>4, <2>5, <2>6 DEF Unwritten, Head1
<1>3. CASE ~Calling(p)
  <2>1. ASSUME NEW i \in 1..Len(stack'[p])
        PROVE  /\ i \in 1..Len(stack[p]) /\ stack'[p][i].event = stack[p][i].event
               /\ i # Len(stack[p]) => stack[p][i].event # Top(p).event
               /\ stack[p][i].event \notin acked
    <3>1. i \in 1..Len(stack[p]) /\ stack'[p][i].event = stack[p][i].event
      BY <1>1, <1>3, OldEvents
    <3>2. Len(stack[p]) \in 1..Len(stack[p])
      BY <1>1, <3>1
    <3> QED BY <1>1, <3>1, <3>2 DEF Apart, Top, Unwritten
  <2>2. ASSUME NEW i \in 1..Len(stack'[p]) PROVE stack'[p][i].event \notin acked'
    <3>1. CASE acked' = acked
      BY <2>1, <3>1
    <3>2. CASE acked' = acked \cup {Top(p).event} /\ Len(stack'[p]) < Len(stack[p])
      <4>1. i # Len(stack[p])
        <5>1. Len(stack'[p]) \in Nat
          BY <1>1, StackFacts
        <5> QED BY <1>1, <3>2, <5>1
      <4> QED BY <2>1, <3>2, <4>1
    <3> QED BY <1>1, <3>1, <3>2, AckedStep
  <2>3. ASSUME NEW i \in 1..Len(stack'[p]), stack'[p][i].at \in Pending, NEW j \in 1..Len(file')
        PROVE  Head1(file', j) # stack'[p][i].event
    <3>1. i \in 1..Len(stack[p]) /\ stack[p][i].at \in Pending /\ (Writes(p) => i # Len(stack[p]))
      BY <1>1, <1>3, <2>3, PendingStep
    <3>2. CASE j \in 1..Len(file) /\ Head1(file', j) = Head1(file, j)
      BY <1>1, <2>1, <3>1, <3>2 DEF Unwritten
    <3>3. CASE Writes(p) /\ Head1(file', j) = Top(p).event
      BY <2>1, <3>1, <3>3
    <3> QED BY <1>1, <3>2, <3>3, HeadsStep
  <2> QED BY <2>2, <2>3 DEF Unwritten, Head1
<1> QED BY <1>2, <1>3

\* Another process's event is of another session.
LEMMA ElseFacts ==
  ASSUME Base, Sessions, NEW p \in Procs, Step(p), NEW q \in Procs, q # p
  PROVE  /\ stack'[q] = stack[q] /\ session'[q] = session[q] /\ seq'[q] = seq[q]
         /\ Top(q)' = Top(q) /\ Live(q)' = Live(q)
         /\ session[q] # 0 /\ stack[p] # <<>> => Top(p).event.session # session[q]
<1>1. stack'[q] = stack[q]
  BY ArmedFacts
<1>2. session'[q] = session[q] /\ seq'[q] = seq[q]
  BY OpenFacts, OtherFacts
<1>3. ASSUME session[q] # 0, stack[p] # <<>> PROVE Top(p).event.session # session[q]
  <2>1. Top(p).event.session = session[p] /\ session[p] # 0
    BY <1>3, TopSession
  <2> QED BY <1>3, <2>1 DEF Sessions, Overlapping
<1> QED BY <1>1, <1>2, <1>3 DEF Top, Live

LEMMA UnwrittenStep ==
  ASSUME OrderInv, NEW p \in Procs, Step(p), NEW q \in Procs
  PROVE  Unwritten(q)'
<1>1. Base /\ Sessions /\ Unwritten(q)
  BY DEF OrderInv, Calls
<1>2. CASE q # p
  <2>1. stack'[q] = stack[q]
    BY <1>1, <1>2, ElseFacts
  <2>2. ASSUME NEW i \in 1..Len(stack[q]), stack[p] # <<>> PROVE stack[q][i].event # Top(p).event
    <3>1. stack[q][i].event.session = session[q] /\ session[q] # 0
      BY <1>1, FrameFacts
    <3> QED BY <1>1, <1>2, <2>2, <3>1, ElseFacts
  <2>3. ASSUME NEW i \in 1..Len(stack[q]) PROVE stack[q][i].event \notin acked'
    BY <1>1, <2>2, AckedStep DEF Unwritten
  <2>4. ASSUME NEW i \in 1..Len(stack[q]), stack[q][i].at \in Pending, NEW j \in 1..Len(file')
        PROVE  Head1(file', j) # stack[q][i].event
    <3>1. CASE j \in 1..Len(file) /\ Head1(file', j) = Head1(file, j)
      BY <1>1, <2>4, <3>1 DEF Unwritten
    <3>2. CASE Writes(p) /\ Head1(file', j) = Top(p).event
      BY <2>2, <3>2 DEF Writes
    <3> QED BY <1>1, <3>1, <3>2, HeadsStep
  <2> QED BY <2>1, <2>3, <2>4 DEF Unwritten, Head1
<1>3. CASE q = p
  BY <1>3, UnwrittenOwn
<1> QED BY <1>2, <1>3

\* The numbers of a session that its process has reached only grow.
LEMMA BelowStep ==
  ASSUME OrderInv, NEW p \in Procs, Step(p), NEW q \in Procs, session'[q] # 0
  PROVE  Below(q, seq[q])'
<1>1. Base /\ Sessions /\ Dated /\ Numbered(q) /\ Numbered(p) /\ acked \subseteq Event
  BY DEF OrderInv, Calls, Base, TypeOK
<1>2. /\ session \in [Procs -> 0..MaxSessions] /\ seq \in [Procs -> Nat] /\ opened \in Nat
  BY <1>1, EventLogAssumption, SMTT(20) DEF Base, TypeOK
<1>3. CASE Open(p) /\ q = p
  <2>1. session'[q] = opened + 1 /\ acked' = acked
    BY <1>1, <1>2, <1>3, OpenFacts
  <2>2. \A d \in acked : d.session \in Nat /\ d.session <= opened
    BY <1>1 DEF Dated, Known, Event
  <2> QED BY <1>2, <2>1, <2>2 DEF Below
<1>4. CASE ~(Open(p) /\ q = p)
  <2>1. session'[q] = session[q]
    BY <1>1, <1>4, OpenFacts, OtherFacts
  <2>2. seq'[q] \in Nat /\ seq[q] \in Nat /\ seq[q] <= seq'[q]
    <3>1. CASE Open(p)
      BY <1>1, <1>2, <1>4, <3>1, OpenFacts
    <3>2. CASE ~Open(p)
      <4>1. seq' = seq \/ seq' = [seq EXCEPT ![p] = seq[p] + 1]
        BY <3>2 DEF Step, Watch, Begin, Count, Buffer, Flush, Return, Leave, Close, Exit,
                    Handle, CtrlC, Kill, DiskFull
      <4> QED BY <1>2, <4>1
    <3> QED BY <3>1, <3>2
  <2>3. \A d \in acked : d.session = session[q] => d.seq < seq[q]
    BY <1>1, <2>1 DEF Numbered, Below
  <2>4. ASSUME Live(p), Top(p).at = "written", Top(p).event.session = session[q]
        PROVE  Top(p).event.seq < seq[q]
    <3>1. stack[p] # <<>>
      BY <2>4 DEF Live
    <3>2. q = p
      BY <1>1, <2>1, <2>4, <3>1, ElseFacts
    <3> QED BY <1>1, <2>4, <3>2 DEF Numbered
  <2>5. stack[p] # <<>> => Top(p).event \in Event
    BY <1>1, TopSession
  <2>6. ASSUME NEW d \in acked', d.session = session[q] PROVE d.seq < seq'[q]
    <3>1. d \in Event /\ d.seq < seq[q]
      BY <1>1, <2>3, <2>4, <2>5, <2>6, AckedStep
    <3> QED BY <2>2, <3>1 DEF Event
  <2> QED BY <2>1, <2>6 DEF Below
<1> QED BY <1>3, <1>4

LEMMA NumberedStep ==
  ASSUME OrderInv, NEW p \in Procs, Step(p), NEW q \in Procs
  PROVE  Numbered(q)'
<1>1. Base /\ Sessions /\ Dated /\ Numbered(q) /\ acked \subseteq Event
  BY DEF OrderInv, Calls, Base, TypeOK
<1>2. seq \in [Procs -> Nat]
  BY <1>1 DEF Base, TypeOK
<1>3. session'[q] # 0 => Below(q, seq[q])'
  BY BelowStep
<1>4. CASE ~Live(q)'
  BY <1>3, <1>4 DEF Numbered
<1>5. CASE Live(q)' /\ q # p
  <2>1. /\ Live(q) /\ Top(q)' = Top(q) /\ session'[q] = session[q] /\ seq'[q] = seq[q]
        /\ session[q] # 0
    BY <1>1, <1>5, ElseFacts, TopSession DEF Live
  <2>2. stack[p] # <<>> => Top(p).event.session # session[q]
    BY <1>1, <1>5, <2>1, ElseFacts
  <2>3. Below(q, Top(q).event.seq)
    BY <1>1, <2>1 DEF Numbered
  <2>4. ASSUME NEW d \in acked', d.session = session[q] PROVE d \in acked
    BY <1>1, <2>2, <2>4, AckedStep
  <2>5. Below(q, Top(q).event.seq)'
    BY <2>1, <2>3, <2>4 DEF Below
  <2> QED BY <1>1, <1>3, <2>1, <2>5 DEF Numbered
<1>6. CASE Live(q)' /\ q = p
  <2>1. /\ stack'[p] # <<>> /\ acked' = acked
    <3>1. stack'[p] # <<>>
      BY <1>6 DEF Live
    <3>2. ~Return(p)
      BY <1>1, <1>6, ReturnFacts DEF Pops
    <3> QED BY <1>1, <3>1, <3>2, AckedStep
  <2>2. /\ session'[p] = session[p] /\ session[p] # 0
    <3>1. ~Open(p)
      BY <1>1, <2>1, OpenFacts DEF Sessions, Owned
    <3> QED BY <1>1, <2>1, <3>1, OtherFacts
  <2>3. Numbered(p) /\ (stack[p] # <<>> => Top(p) \in Frame /\ Top(p).event \in Event)
    BY <1>1, <1>6, TopFacts DEF Base
  <2>4. CASE Count(p) /\ Moves(p, [Top(p) EXCEPT !.at = "counted"])
    <3>1. stack[p] # <<>> /\ Top(p).at = "numbered" /\ Live(p) /\ seq'[p] = seq[p] + 1
      BY <1>1, <1>2, <2>4, TopFacts DEF Count, At, Live, Base
    <3>2. Top(p)' = [Top(p) EXCEPT !.at = "counted"]
      BY <2>4, NewTop
    <3>3. Top(p)'.event = Top(p).event /\ Top(p)'.at = "counted"
      BY <2>3, <3>1, <3>2 DEF Frame
    <3>4. Below(p, Top(p).event.seq) /\ Top(p).event.seq = seq[p]
      BY <2>3, <3>1 DEF Numbered
    <3>5. Below(p, Top(p).event.seq)'
      BY <2>1, <2>2, <3>3, <3>4 DEF Below
    <3> QED BY <1>2, <1>3, <1>6, <3>1, <3>3, <3>4, <3>5 DEF Numbered
  <2>5. CASE \/ /\ Buffer(p)
                /\ Moves(p, [Top(p) EXCEPT !.at = "buffered", !.newline = Unterminated(file)])
             \/ Flush(p) /\ Moves(p, [Top(p) EXCEPT !.at = "written"])
    <3>1. /\ stack[p] # <<>> /\ Top(p).at \in {"counted", "buffered"} /\ Live(p) /\ seq' = seq
      BY <1>1, <2>5, TopFacts DEF Buffer, Flush, At, Live, Base
    <3>2. \/ Top(p)' = [Top(p) EXCEPT !.at = "buffered", !.newline = Unterminated(file)]
          \/ Top(p)' = [Top(p) EXCEPT !.at = "written"]
      BY <2>5, NewTop
    <3>3. Top(p)'.event = Top(p).event /\ Top(p)'.at \in {"buffered", "written"}
      BY <2>3, <3>1, <3>2 DEF Frame
    <3>4. Below(p, Top(p).event.seq) /\ Top(p).event.seq < seq[p]
      BY <2>3, <3>1 DEF Numbered
    <3>5. Below(p, Top(p).event.seq)'
      BY <2>1, <2>2, <3>3, <3>4 DEF Below
    <3> QED BY <1>3, <1>6, <3>1, <3>3, <3>4, <3>5 DEF Numbered
  <2>6. CASE Calling(p)
    <3>1. PICK kind \in Kinds : Pushes(p, NewFrame(p, kind))
      BY <2>6, CallingTop
    <3>2. Top(p)' = NewFrame(p, kind)
      BY <3>1, NewTop
    <3>3. Top(p)'.event.seq = seq[p] /\ Top(p)'.at = "numbered" /\ seq' = seq
      BY <1>1, <2>6, <3>2, CountersStep DEF NewFrame
    <3>4. Below(p, seq[p])
      BY <2>2, <2>3 DEF Numbered
    <3>5. Below(p, Top(p).event.seq)'
      BY <2>1, <2>2, <3>3, <3>4 DEF Below
    <3> QED BY <1>3, <1>6, <3>3, <3>5 DEF Numbered
  <2> QED BY <1>1, <1>6, <2>4, <2>5, <2>6, LiveStep
<1> QED BY <1>4, <1>5, <1>6

LEMMA BehindStep ==
  ASSUME OrderInv, NEW p \in Procs, Step(p), NEW q \in Procs
  PROVE  Behind(q)'
<1> SUFFICES ASSUME Live(q)', Top(q)'.at = "written",
                    NEW i \in 1..Len(file'), NEW j \in 1..Len(file'),
                    Head1(file', j) = Top(q)'.event,
                    Head1(file', i) \in acked' \cup {Top(q)'.event},
                    Head1(file', i).session = session'[q]
             PROVE  i <= j
  BY DEF Behind, Head1
<1>1. Base /\ Sessions /\ Behind(q) /\ Unwritten(p)
  BY DEF OrderInv, Calls
<1>2. CASE q # p
  <2>1. /\ Live(q) /\ Top(q)' = Top(q) /\ session'[q] = session[q] /\ stack[q] # <<>>
    BY <1>1, <1>2, ElseFacts DEF Live
  <2>2. Top(q).event.session = session[q] /\ session[q] # 0
    BY <1>1, <2>1, TopSession
  <2>3. stack[p] # <<>> => Top(p).event.session # session[q]
    BY <1>1, <1>2, <2>2, ElseFacts
  <2>4. i \in 1..Len(file) /\ Head1(file', i) = Head1(file, i)
    BY <1>1, <2>1, <2>3, HeadsStep DEF Writes
  <2>5. j \in 1..Len(file) /\ Head1(file', j) = Head1(file, j)
    BY <1>1, <2>1, <2>2, <2>3, HeadsStep DEF Writes
  <2>6. Head1(file, i) \in acked \cup {Top(q).event}
    <3>1. CASE acked' = acked
      BY <2>1, <2>4, <3>1
    <3>2. CASE acked' = acked \cup {Top(p).event} /\ stack[p] # <<>>
      BY <2>1, <2>3, <2>4, <3>2
    <3> QED BY <1>1, <3>1, <3>2, AckedStep
  <2> QED BY <1>1, <2>1, <2>4, <2>5, <2>6 DEF Behind
<1>3. CASE q = p
  <2>1. stack[p] # <<>> => Top(p) \in Frame
    BY <1>1, TopFacts DEF Base
  <2>2. Flush(p) /\ Moves(p, [Top(p) EXCEPT !.at = "written"])
    <3>1. ~Calling(p)
      BY <1>3, CallingTop
    <3>2. ASSUME Count(p) /\ Moves(p, [Top(p) EXCEPT !.at = "counted"]) PROVE FALSE
      <4>1. Top(p)' = [Top(p) EXCEPT !.at = "counted"]
        BY <3>2, NewTop
      <4> QED BY <1>3, <2>1, <3>2, <4>1 DEF Moves, Frame
    <3>3. ASSUME Buffer(p),
                 Moves(p, [Top(p) EXCEPT !.at = "buffered", !.newline = Unterminated(file)])
          PROVE  FALSE
      <4>1. Top(p)' = [Top(p) EXCEPT !.at = "buffered", !.newline = Unterminated(file)]
        BY <3>3, NewTop
      <4> QED BY <1>3, <2>1, <3>3, <4>1 DEF Moves, Frame
    <3> QED BY <1>1, <1>3, <3>1, <3>2, <3>3, LiveStep
  <2>3. stack[p] # <<>> /\ Top(p).at = "buffered" /\ Len(stack[p]) \in 1..Len(stack[p])
    BY <1>1, <2>2, TopFacts DEF Flush, At, Base
  <2>4. Top(p)'.event = Top(p).event
    <3>1. Top(p)' = [Top(p) EXCEPT !.at = "written"]
      BY <2>2, NewTop
    <3> QED BY <2>1, <2>3, <3>1 DEF Frame
  <2>5. \A k \in 1..Len(file) : Head1(file, k) # Top(p).event
    BY <1>1, <2>3 DEF Unwritten, Pending, Top
  <2>6. j = Len(file) + 1
    BY <1>1, <1>3, <2>4, <2>5, HeadsStep
  <2>7. i \in 1..Len(file) \/ i = Len(file) + 1
    BY <1>1, HeadsStep
  <2> QED BY <1>1, <2>6, <2>7, HeadsStep
<1> QED BY <1>2, <1>3

LEMMA InOrderStep ==
  ASSUME OrderInv, NEW p \in Procs, Step(p)
  PROVE  (InOrder(file) /\ InOrder(disk))'
<1>1. /\ Base /\ Sessions /\ InOrder(file) /\ InOrder(disk) /\ Unwritten(p) /\ Numbered(p)
      /\ Behind(p)
  BY DEF OrderInv, Calls
<1>2. CASE ~Return(p) /\ acked' = acked /\ disk' = disk
  <2>1. ASSUME NEW i \in 1..Len(file'), Head1(file', i) \in acked
        PROVE  i \in 1..Len(file) /\ Head1(file', i) = Head1(file, i)
    <3>1. stack[p] # <<>> => Top(p).event \notin acked
      BY <1>1, TopSession DEF Unwritten
    <3> QED BY <1>1, <2>1, <3>1, HeadsStep DEF Writes
  <2>2. ASSUME NEW i \in 1..Len(file'), NEW j \in 1..Len(file'), i < j,
               Head1(file', i) \in acked, Head1(file', j) \in acked,
               Head1(file', i).session = Head1(file', j).session
        PROVE  Head1(file', i).seq < Head1(file', j).seq
    <3>1. /\ i \in 1..Len(file) /\ Head1(file', i) = Head1(file, i)
          /\ j \in 1..Len(file) /\ Head1(file', j) = Head1(file, j)
      BY <2>1, <2>2
    <3> QED BY <1>1, <2>2, <3>1 DEF InOrder
  <2>3. InOrder(file)'
    BY <1>2, <2>2 DEF InOrder, Head1
  <2>4. InOrder(disk)'
    BY <1>1, <1>2 DEF InOrder, Head1
  <2> QED BY <2>3, <2>4
<1>3. CASE /\ Return(p) /\ Live(p) /\ Top(p).at = "written" /\ stack[p] # <<>>
           /\ acked' = acked \cup {Top(p).event} /\ file' = file /\ disk' = file
  <2>1. PICK e \in Event : e = Top(p).event
    BY <1>1, <1>3, TopSession
  <2>2. e.session = session[p]
    BY <1>1, <1>3, <2>1, TopSession
  <2>3. ASSUME NEW i \in 1..Len(file), NEW j \in 1..Len(file), i < j,
               Head1(file, i) \in acked', Head1(file, j) \in acked',
               Head1(file, i).session = Head1(file, j).session
        PROVE  Head1(file, i).seq < Head1(file, j).seq
    <3>1. CASE Head1(file, i) \in acked /\ Head1(file, j) \in acked
      BY <1>1, <2>3, <3>1 DEF InOrder
    <3>2. CASE Head1(file, i) = e
      <4>1. Head1(file, j) \in acked \cup {Top(p).event} /\ Head1(file, j).session = session[p]
        BY <1>3, <2>2, <2>3, <3>2
      <4>2. j <= i
        BY <1>1, <1>3, <2>1, <3>2, <4>1 DEF Behind
      <4> QED BY <2>3, <4>2
    <3>3. CASE Head1(file, i) \in acked /\ Head1(file, j) = e
      <4>1. Below(p, e.seq)
        BY <1>1, <1>3, <2>1 DEF Numbered
      <4> QED BY <2>2, <2>3, <3>3, <4>1 DEF Below
    <3> QED BY <1>3, <2>1, <2>3, <3>1, <3>2, <3>3
  <2> QED BY <1>3, <2>3 DEF InOrder, Head1
<1> QED BY <1>1, <1>2, <1>3, AckedStep

LEMMA OrderStep ==
  ASSUME OrderInv, [Next]_vars
  PROVE  OrderInv'
<1>1. (Calls /\ Sessions)'
  BY CallsStep, SessionsStep DEF OrderInv, Calls
<1>2. ASSUME NEW p \in Procs, Step(p) PROVE OrderInv'
  BY <1>1, <1>2, DatedStep, InOrderStep, UnwrittenStep, NumberedStep, BehindStep DEF OrderInv
<1>3. CASE PowerFails
  <2>1. /\ acked' = acked /\ opened' = opened /\ begun' = begun
        /\ file' \in {file, disk} /\ disk' = file'
        /\ \A p \in Procs : stack'[p] = <<>> /\ session'[p] = 0
    BY <1>3 DEF PowerFails
  <2>2. Dated' /\ InOrder(file)' /\ InOrder(disk)'
    <3>1. Dated /\ InOrder(file) /\ InOrder(disk)
      BY DEF OrderInv
    <3>2. (\A i \in 1..Len(file) : Known(Head1(file, i)))'
      BY <2>1, <3>1 DEF Dated, Known, Head1
    <3>3. (\A i \in 1..Len(disk) : Known(Head1(disk, i)))'
      BY <2>1, <3>1 DEF Dated, Known, Head1
    <3>4. InOrder(file)' /\ InOrder(disk)'
      BY <2>1, <3>1 DEF InOrder, Head1
    <3> QED BY <2>1, <3>1, <3>2, <3>3, <3>4 DEF Dated, Known
  <2>3. \A p \in Procs : (Unwritten(p) /\ Numbered(p) /\ Behind(p))'
    BY <2>1 DEF Unwritten, Numbered, Behind, Live
  <2> QED BY <1>1, <2>2, <2>3 DEF OrderInv
<1>4. CASE UNCHANGED vars
  <2>1. Dated' /\ InOrder(file)' /\ InOrder(disk)'
    BY <1>4 DEF vars, bounds, OrderInv, Dated, InOrder, Known, Head1
  <2>2. ASSUME NEW p \in Procs PROVE (Unwritten(p) /\ Numbered(p) /\ Behind(p))'
    <3>1. Live(p)' = Live(p) /\ Top(p)' = Top(p)
      BY <1>4 DEF vars, Live, Top
    <3>2. Unwritten(p) /\ Numbered(p) /\ Behind(p)
      BY DEF OrderInv
    <3>3. Unwritten(p)'
      BY <1>4, <3>2 DEF vars, Unwritten, Head1
    <3>4. Numbered(p)'
      BY <1>4, <3>1, <3>2 DEF vars, Numbered, Below
    <3>5. Behind(p)'
      BY <1>4, <3>1, <3>2 DEF vars, Behind, Head1
    <3> QED BY <3>3, <3>4, <3>5
  <2> QED BY <1>1, <2>1, <2>2 DEF OrderInv
<1> QED BY <1>2, <1>3, <1>4 DEF Next

\* In the file the returned events of a session lie in the order of their
\* numbers, whatever handlers took a number and wrote in between.
THEOREM ReturnedInOrder == Spec => []NumbersIncrease
<1>1. Init => OrderInv
  <2> SUFFICES ASSUME Init PROVE OrderInv
    OBVIOUS
  <2>1. Dated /\ InOrder(file) /\ InOrder(disk)
    BY DEF Init, Dated, InOrder
  <2>2. \A p \in Procs : Unwritten(p) /\ Numbered(p) /\ Behind(p)
    BY DEF Init, Unwritten, Numbered, Below, Behind, Live
  <2> QED BY <2>1, <2>2, SessionsInit DEF OrderInv
<1>2. OrderInv /\ [Next]_vars => OrderInv'
  BY OrderStep
<1>3. OrderInv => NumbersIncrease
  <2> SUFFICES ASSUME OrderInv PROVE NumbersIncrease
    OBVIOUS
  <2>1. DOMAIN file = 1..Len(file)
    BY LineFacts DEF OrderInv, Calls, Base, TypeOK
  <2> QED BY <2>1 DEF OrderInv, InOrder, Head1, NumbersIncrease
<1> QED BY <1>1, <1>2, <1>3, PTL DEF Spec
==============================================================================
