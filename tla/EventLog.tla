------------------------------ MODULE EventLog ------------------------------
(***************************************************************************)
(* The event log of a run (src/loom/session.py): events.jsonl, the         *)
(* Sessions that append to it, and the signals that interrupt them.        *)
(*                                                                         *)
(* A process opens the run, appends, and dies or leaves; another opens it  *)
(* again (loom resume), and no lock keeps two from having it open at once. *)
(* log_event is a frame on the stack of its process. A signal that the     *)
(* run watches puts the frame of the handler's own log_event above it,     *)
(* between any two steps, and a KeyboardInterrupt unwinds frame by frame,  *)
(* each closing its file, which writes what is in its buffer.              *)
(*                                                                         *)
(* An event is known by its session, its number and its kind; what it says *)
(* is left out, and a kind that EVENT_KINDS lacks raises before anything.  *)
(* Writing to a regular file is not interrupted half-way by a signal.      *)
(***************************************************************************)
EXTENDS Naturals, Sequences, SequencesExt

CONSTANTS
  Procs,
  MaxSessions,  \* bound: how often the run is opened
  MaxEvents,    \* bound: calls of log_event begun
  MaxSignals,   \* bound: signals delivered
  MaxFaults     \* bound: kills, power failures and full disks

ASSUME EventLogAssumption ==
  {MaxSessions, MaxEvents, MaxSignals, MaxFaults} \subseteq Nat

Signals == {"SIGINT", "SIGTERM"}
Kinds   == {"event"} \cup Signals   \* the latter: "interrupted", by that signal
Event   == [session : Nat, nth : Nat, seq : Nat, kind : Kinds]
Line    == [events : Seq(Event), whole : BOOLEAN, ended : BOOLEAN]
Places  == {"numbered", "counted", "buffered", "written", "closing", "leaving"}
Frame   == [at : Places, event : Event, newline : BOOLEAN]

VARIABLES
  file,     \* events.jsonl: its lines, the last one perhaps without its newline
  disk,     \* what a power failure leaves: the file as of the last fsync
  session,  \* the session of each process, 0 when it has none open
  seq,      \* Session._seq
  armed,    \* the signals whose handler is the run's
  stack,    \* the calls of log_event in progress, the innermost last
  opened,   \* sessions so far
  begun,    \* calls of log_event so far
  signals,  \* signals so far
  faults,   \* faults so far
  acked,    \* history: the events whose log_event returned
  overlap   \* history: pairs of sessions that were open together

bounds == <<opened, begun, signals, faults>>
vars   == <<file, disk, session, seq, armed, stack, bounds, acked, overlap>>

TypeOK ==
  /\ file \in Seq(Line) /\ disk \in Seq(Line)
  /\ session \in [Procs -> 0..MaxSessions]
  /\ seq \in [Procs -> Nat]
  /\ armed \in [Procs -> SUBSET Signals]
  /\ stack \in [Procs -> Seq(Frame)]
  /\ opened \in 0..MaxSessions /\ begun \in 0..MaxEvents
  /\ signals \in 0..MaxSignals /\ faults \in 0..MaxFaults
  /\ acked \subseteq Event
  /\ overlap \subseteq SUBSET (1..MaxSessions)

Init ==
  /\ file = <<>> /\ disk = <<>>
  /\ session = [p \in Procs |-> 0]
  /\ seq = [p \in Procs |-> 0]
  /\ armed = [p \in Procs |-> {}]
  /\ stack = [p \in Procs |-> <<>>]
  /\ opened = 0 /\ begun = 0 /\ signals = 0 /\ faults = 0
  /\ acked = {} /\ overlap = {}

-----------------------------------------------------------------------------
(* The file *)

Readable(line) == line.whole /\ Len(line.events) = 1

\* len(read_events()): a line that does not parse is skipped.
CountReadable(f) == Len(SelectSeq(f, Readable))

Unterminated(f) == f # <<>> /\ ~Last(f).ended

\* Mutant: a new event is not kept apart from the wreckage before it.
NewlinePrefixNever(f) == FALSE

NewlinePrefix(f) == Unterminated(f)

Ended(f) == IF f = <<>> THEN f ELSE [f EXCEPT ![Len(f)].ended = TRUE]

\* e reaches the end of the file, whole or torn, with or without its newline.
\* On a line that has none it is glued to the wreckage, and neither is read.
Put(f, e, whole, ended) ==
  IF Unterminated(f)
  THEN [f EXCEPT ![Len(f)] = [events |-> Append(@.events, e), whole |-> FALSE, ended |-> ended]]
  ELSE Append(f, [events |-> <<e>>, whole |-> whole, ended |-> ended])

Prefixed(f, frame) == IF frame.newline THEN Ended(f) ELSE f
Appended(f, frame) == Put(Prefixed(f, frame), frame.event, TRUE, TRUE)

\* What a write that stops half-way can leave: nothing, the newline before the
\* event, a part of the event, or all but the newline after it.
Torn(f, frame) ==
  {f, Prefixed(f, frame)} \cup {Put(Prefixed(f, frame), frame.event, w, FALSE) : w \in BOOLEAN}

-----------------------------------------------------------------------------
(* The stack of a process *)

Idle(p) == session[p] # 0 /\ stack[p] = <<>>
At(p, place) == stack[p] # <<>> /\ Last(stack[p]).at = place
Moved(p, place) == stack' = [stack EXCEPT ![p][Len(stack[p])].at = place]

\* An exception reaches the innermost frame: leaving the with-block closes the
\* file, which flushes what write() had buffered.
Raised(frames) ==
  IF frames = <<>> THEN <<>>
  ELSE [frames EXCEPT ![Len(frames)].at = IF @ \in {"buffered", "closing"} THEN "closing" ELSE "leaving"]

Called(p, kind) ==
  /\ begun < MaxEvents /\ begun' = begun + 1
  /\ stack' = [stack EXCEPT ![p] = Append(@,
       [at |-> "numbered", newline |-> FALSE,
        event |-> [session |-> session[p], nth |-> begun + 1, seq |-> seq[p], kind |-> kind]])]

Gone(p) ==
  /\ session' = [session EXCEPT ![p] = 0]
  /\ stack' = [stack EXCEPT ![p] = <<>>]
  /\ armed' = [armed EXCEPT ![p] = {}]

-----------------------------------------------------------------------------
(* A session *)

\* Session(root, run_id)
Open(p) ==
  /\ session[p] = 0 /\ opened < MaxSessions
  /\ opened' = opened + 1
  /\ session' = [session EXCEPT ![p] = opened + 1]
  /\ seq' = [seq EXCEPT ![p] = CountReadable(file)]
  /\ overlap' = overlap \cup {{session[q], opened + 1} : q \in {r \in Procs : session[r] # 0}}
  /\ UNCHANGED <<file, disk, armed, stack, begun, signals, faults, acked>>

\* with session.interruptible(): in, and out by its finally
Watch(p) ==
  /\ Idle(p) /\ armed' = [armed EXCEPT ![p] = IF @ = {} THEN Signals ELSE {}]
  /\ UNCHANGED <<file, disk, session, seq, stack, bounds, acked, overlap>>

\* the event is built, with the number it finds
Begin(p) ==
  /\ Idle(p) /\ Called(p, "event")
  /\ UNCHANGED <<file, disk, session, seq, armed, opened, signals, faults, acked, overlap>>

\* self._seq += 1
Count(p) ==
  /\ At(p, "numbered") /\ Moved(p, "counted")
  /\ seq' = [seq EXCEPT ![p] = @ + 1]
  /\ UNCHANGED <<file, disk, session, armed, bounds, acked, overlap>>

\* open("a"), the look at the last byte, and fh.write(). Until it has written
\* into its buffer an open file leaves nothing, so that the three are one step.
Buffer(p) ==
  /\ At(p, "counted")
  /\ stack' = [stack EXCEPT ![p][Len(stack[p])] =
       [@ EXCEPT !.at = "buffered", !.newline = NewlinePrefix(file)]]
  /\ UNCHANGED <<file, disk, session, seq, armed, bounds, acked, overlap>>

\* fh.flush()
Flush(p) ==
  /\ At(p, "buffered") /\ Moved(p, "written")
  /\ file' = Appended(file, Last(stack[p]))
  /\ UNCHANGED <<disk, session, seq, armed, bounds, acked, overlap>>

\* Mutant: the handler returns instead of raising.
ReturnResumes(p) ==
  /\ At(p, "written")
  /\ disk' = file
  /\ acked' = acked \cup {Last(stack[p]).event}
  /\ stack' = [stack EXCEPT ![p] = Front(@)]
  /\ UNCHANGED <<file, session, seq, armed, bounds, overlap>>

\* Mutant: no fsync.
ReturnUnsynced(p) ==
  /\ At(p, "written")
  /\ acked' = acked \cup {Last(stack[p]).event}
  /\ stack' = [stack EXCEPT ![p] = IF Last(@).event.kind = "event" THEN Front(@) ELSE Raised(Front(@))]
  /\ UNCHANGED <<file, disk, session, seq, armed, bounds, overlap>>

\* os.fsync(), and log_event returns: to its caller, or to the handler, which
\* raises KeyboardInterrupt in the frame it interrupted.
Return(p) ==
  /\ At(p, "written")
  /\ disk' = file
  /\ acked' = acked \cup {Last(stack[p]).event}
  /\ stack' = [stack EXCEPT ![p] = IF Last(@).event.kind = "event" THEN Front(@) ELSE Raised(Front(@))]
  /\ UNCHANGED <<file, session, seq, armed, bounds, overlap>>

\* An exception leaves log_event ...
Leave(p) ==
  /\ At(p, "leaving")
  /\ stack' = [stack EXCEPT ![p] = Raised(Front(@))]
  /\ UNCHANGED <<file, disk, session, seq, armed, bounds, acked, overlap>>

\* ... after close() has written the buffer. Nothing syncs it.
Close(p) ==
  /\ At(p, "closing")
  /\ file' = Appended(file, Last(stack[p]))
  /\ stack' = [stack EXCEPT ![p] = Raised(Front(@))]
  /\ UNCHANGED <<disk, session, seq, armed, bounds, acked, overlap>>

\* The process ends by itself.
Exit(p) ==
  /\ Idle(p) /\ armed[p] = {} /\ Gone(p)
  /\ UNCHANGED <<file, disk, seq, bounds, acked, overlap>>

-----------------------------------------------------------------------------
(* Signals and faults *)

\* Mutant: the handler leaves itself in place.
HandleKeepsArmed(p, s) ==
  /\ s \in armed[p] /\ signals < MaxSignals
  /\ signals' = signals + 1
  /\ Called(p, s)
  /\ UNCHANGED <<file, disk, session, seq, armed, opened, faults, acked, overlap>>

\* handler(): the previous handler is back before the event is logged.
Handle(p, s) ==
  /\ s \in armed[p] /\ signals < MaxSignals
  /\ signals' = signals + 1
  /\ armed' = [armed EXCEPT ![p] = @ \ {s}]
  /\ Called(p, s)
  /\ UNCHANGED <<file, disk, session, seq, opened, faults, acked, overlap>>

\* A Ctrl-C that the run does not watch, or no longer: Python's own handler.
CtrlC(p) ==
  /\ session[p] # 0 /\ "SIGINT" \notin armed[p] /\ signals < MaxSignals
  /\ stack[p] # <<>>
  /\ signals' = signals + 1
  /\ stack' = [stack EXCEPT ![p] = Raised(@)]
  /\ UNCHANGED <<file, disk, session, seq, armed, opened, begun, faults, acked, overlap>>

TornBy(p) ==
  IF At(p, "buffered") \/ At(p, "closing") THEN Torn(file, Last(stack[p])) ELSE {file}

\* A SIGTERM that is not watched, a SIGKILL: a write in progress stops anywhere.
Kill(p) ==
  /\ session[p] # 0 /\ faults < MaxFaults
  /\ faults' = faults + 1
  /\ file' \in TornBy(p)
  /\ Gone(p)
  /\ UNCHANGED <<disk, seq, opened, begun, signals, acked, overlap>>

\* The disk is full: the write fails half-way and the OSError unwinds.
DiskFull(p) ==
  /\ faults < MaxFaults
  /\ At(p, "buffered") \/ At(p, "closing")
  /\ faults' = faults + 1
  /\ file' \in TornBy(p)
  /\ stack' = [stack EXCEPT ![p] = Raised(Front(@))]
  /\ UNCHANGED <<disk, session, seq, armed, opened, begun, signals, acked, overlap>>

\* Every process is gone, and with them what no fsync had put on disk.
PowerFails ==
  /\ faults < MaxFaults
  /\ faults' = faults + 1
  /\ file' \in {file, disk} /\ disk' = file'
  /\ session' = [p \in Procs |-> 0]
  /\ stack' = [p \in Procs |-> <<>>]
  /\ armed' = [p \in Procs |-> {}]
  /\ UNCHANGED <<seq, opened, begun, signals, acked, overlap>>

Step(p) ==
  \/ Open(p) \/ Watch(p) \/ Begin(p) \/ Count(p) \/ Buffer(p) \/ Flush(p)
  \/ Return(p) \/ Leave(p) \/ Close(p) \/ Exit(p)
  \/ (\E s \in Signals : Handle(p, s)) \/ CtrlC(p) \/ Kill(p) \/ DiskFull(p)

Next == (\E p \in Procs : Step(p)) \/ PowerFails

Spec == Init /\ [][Next]_vars

-----------------------------------------------------------------------------
(* Properties *)

\* "A crash loses at most the event being written" (session.py:93): an event
\* whose log_event has returned is read ever after, through kills, full disks
\* and power failures. The one exception is exact: it was glued to a fragment
\* that another session left while both had the run open.
KeptIn(f, e) ==
  \E i \in DOMAIN f :
    \/ f[i].whole /\ f[i].events = <<e>>
    \/ \E j \in DOMAIN f[i].events :
         f[i].events[j] = e /\ {f[i].events[1].session, e.session} \in overlap
AckedSurvives == \A e \in acked : KeptIn(file, e) /\ KeptIn(disk, e)

\* Within a session the events that log_event has returned lie in the file in
\* the order of their numbers, and no two share one, although a handler may
\* take a number and write while the call it interrupts has done one of the two.
NumbersIncrease ==
  \A i, j \in DOMAIN file : i < j =>
    LET d == file[i].events[1]  e == file[j].events[1] IN
    {d, e} \subseteq acked /\ d.session = e.session => d.seq < e.seq

\* A second signal during the clean-up "behaves normally" (session.py:167): no
\* handler runs above itself, so that the nesting ends however fast they come.
HandlersDoNotNest ==
  \A p \in Procs : \A i, j \in DOMAIN stack[p] :
    i # j => stack[p][i].event.kind # stack[p][j].event.kind
=============================================================================
