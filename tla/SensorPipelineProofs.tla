-------------------------- MODULE SensorPipelineProofs --------------------------
(***************************************************************************)
(* Proofs about SensorPipeline, for any queue length and any bound.        *)
(*                                                                         *)
(* What is inductive is about a sequence that no variable holds: the       *)
(* answers still to be handled, first those queued, then those of what the *)
(* task is doing, then those of the command that waits for it.  The task   *)
(* moves answers towards the front and changes nothing else; the           *)
(* orchestrator takes the first, and sends a command only when none is     *)
(* left.  What the sequence can be, and what _pm_state and                 *)
(* _measurement_pending say of it, is the agreement the two tasks keep     *)
(* without ever seeing each other's fields, until a pause ends with events *)
(* of the deleted task in the queue.                                       *)
(***************************************************************************)
EXTENDS SensorPipeline, TLAPS

Kinds == {"started", "prepared", "asleep", "data", "tested"}

Boundaries == {<<"prepared">>, <<"started", "prepared">>}
BootReadings == {<<"prepared", "data">>, <<"started", "prepared", "data">>}
Results == {<<"data">>, <<"tested">>}
Lines == {<<>>, <<"asleep">>} \cup Boundaries \cup BootReadings \cup Results

PmStates == {"Preparing", "Ready", "Sleeping", "Asleep"}
Tests == {"off", "actuators", "waiting", "testing", "summary"}
Slots == Commands \cup {"none", "zero"}
Tasks == {"none", "booting", "warming", "idle", "measuring", "testing", "preparing", "sleeping",
          "warmed", "ended"}

Record == [pm : PmStates, pending : BOOLEAN, refresh : BOOLEAN, test : Tests, power : BOOLEAN,
           slot : Slots]

\* The task has taken a preparation and has still to announce its end.
Warming == warmup \/ task = "preparing"

\* What the orchestrator's fields s say of the answers to come, b before the slot's, while the
\* sensor is awake or not: a result is expected and the sensor ready for it; a boundary changes the
\* state it belongs to; and a sensor that is ready, or was woken and is to be announced
\* ready, is supplied and measuring.
Says(s, b, line, on) ==
  /\ line \in Lines
  /\ line \in Results \cup BootReadings => s.pending
  /\ line \in Boundaries \cup BootReadings => s.pm = "Preparing"
  /\ line = <<"asleep">> => s.pm = "Sleeping"
  /\ line \in Results => s.pm = "Ready"
  /\ warmup => task = "idle"
  /\ Warming => b # <<>> /\ s.slot \notin Tracked
  /\ s.pm # "Asleep" => s.power
  /\ \/ s.pm = "Ready"
     \/ /\ s.pm = "Preparing" /\ line # <<>>
        /\ task \notin {"booting", "preparing"} /\ s.slot # "prepare"
     => on
Agrees(s, b, on) == Says(s, b, b \o Answers(s.slot), on)

\* Types, but for the number of queued events.
FieldTypes ==
  /\ Now \in Record
  /\ {stopping, long, warmup, running, awake} \subseteq BOOLEAN
  /\ pause \in {"no", "setup", "update"} /\ clock \in {"far", "near", "due"}
  /\ acts \in 0..MaxActs /\ task \in Tasks
  /\ events \in Seq(Kinds) /\ Len(events) <= 3

\* A paused device has a task only in stop(), and one without a task has no queue of its own.
PauseInv ==
  /\ task = "none" => slot = "none" /\ (pause = "no" => events = <<>>)
  /\ stopping => pause # "no" /\ slot \in {"zero", "none"} /\ ~running
  /\ pause # "no" => stopping \/ task = "none"

LineInv ==
  task # "none" =>
    /\ Len(Before) <= 3
    /\ warmup => task \in {"idle", "ended"}
    /\ pause = "no" => running /\ Agrees(Now, Before, awake)

PipeInv == FieldTypes /\ PauseInv /\ LineInv

\* What holds even when the new task's answers are mixed with the deleted one's.
AlwaysInv ==
  /\ Now \in Record
  /\ {stopping, long, warmup, running, awake, mixed} \subseteq BOOLEAN
  /\ pause \in {"no", "setup", "update"} /\ clock \in {"far", "near", "due"}
  /\ acts \in 0..MaxActs /\ task \in Tasks
  /\ events \in Seq(Kinds) /\ Len(events) <= QueueLength
  /\ task = "none" => slot = "none"
  /\ stopping => pause # "no"
  /\ pause # "no" => stopping \/ task = "none"

Inv == AlwaysInv /\ (~mixed => PipeInv)

-----------------------------------------------------------------------------
(* Sequences of answers.                                                    *)

LEMMA Sequences ==
  /\ <<>> \in Seq(Kinds) /\ Len(<<>>) = 0
  /\ \A x \in Kinds : <<x>> \in Seq(Kinds) /\ Len(<<x>>) = 1 /\ <<x>> # <<>>
  /\ <<"started", "prepared">> \in Seq(Kinds) /\ Len(<<"started", "prepared">>) = 2
  /\ <<"started", "prepared">> # <<>>
  /\ <<"prepared", "data">> \in Seq(Kinds) /\ Len(<<"prepared", "data">>) = 2
  /\ <<"started", "prepared", "data">> \in Seq(Kinds)
  /\ Len(<<"started", "prepared", "data">>) = 3
BY DEF Kinds

LEMMA KindsOf == {"started", "prepared", "asleep", "data", "tested"} \subseteq Kinds
BY DEF Kinds

LEMMA DoingKinds ==
  ASSUME NEW t, NEW w
  PROVE  /\ Doing(t, w) \in Seq(Kinds)
         /\ Len(Doing(t, w)) <= 2
BY Sequences, KindsOf DEF Doing

LEMMA AnswersKinds == ASSUME NEW c PROVE Answers(c) \in Seq(Kinds)
BY Sequences, KindsOf DEF Answers

\* A command that is waited for has an answer.
LEMMA TrackedAnswers == ASSUME NEW c PROVE c \in Tracked <=> Answers(c) # <<>>
<1>1. CASE c \notin Tracked
  BY <1>1 DEF Answers, Tracked
<1>2. CASE c \in Tracked
  <2>1. Answers(c) \in {<<"data">>, <<"tested">>, <<"asleep">>, <<"started", "prepared">>}
    BY <1>2 DEF Answers, Tracked
  <2>2. <<"data">> # <<>> /\ <<"tested">> # <<>> /\ <<"asleep">> # <<>>
    BY Sequences, KindsOf
  <2> QED
    BY <1>2, <2>1, <2>2, Sequences
<1> QED
  BY <1>1, <1>2

LEMMA LinesKinds == ASSUME NEW l \in Lines PROVE l \in Seq(Kinds) /\ Len(l) <= 3
<1> USE Sequences, KindsOf
<1>4. CASE l = <<>>
  BY <1>4
<1>1. CASE l \in {<<"asleep">>, <<"prepared">>, <<"data">>, <<"tested">>}
  <2>1. PICK x \in Kinds : l = <<x>>
    BY <1>1
  <2>2. l \in Seq(Kinds) /\ Len(l) = 1
    BY <2>1, Zenon
  <2> QED
    BY <2>2
<1>2. CASE l \in {<<"started", "prepared">>, <<"prepared", "data">>}
  <2>1. l \in Seq(Kinds) /\ Len(l) = 2
    BY <1>2, Zenon
  <2> QED
    BY <2>1
<1>3. CASE l = <<"started", "prepared", "data">>
  <2>1. l \in Seq(Kinds) /\ Len(l) = 3
    BY <1>3, Zenon
  <2> QED
    BY <2>1
<1> QED
  BY <1>1, <1>2, <1>3, <1>4 DEF Lines, Boundaries, BootReadings, Results

LEMMA LineLengths ==
  ASSUME NEW l \in Lines
  PROVE  \/ Len(l) = 0 \/ Len(l) = 1
         \/ Len(l) = 2 /\ l \in {<<"started", "prepared">>, <<"prepared", "data">>}
         \/ Len(l) = 3 /\ l = <<"started", "prepared", "data">>
<1> USE Sequences, KindsOf
<1>1. CASE l \in {<<"asleep">>, <<"prepared">>, <<"data">>, <<"tested">>}
  <2>1. PICK x \in Kinds : l = <<x>>
    BY <1>1
  <2> QED
    BY <2>1, Zenon
<1>2. CASE l = <<"started", "prepared">>
  BY <1>2, Zenon
<1>3. CASE l = <<"prepared", "data">>
  BY <1>3, Zenon
<1>4. CASE l = <<"started", "prepared", "data">>
  BY <1>4, Zenon
<1>5. CASE l = <<>>
  BY <1>5, Zenon
<1> QED
  BY <1>1, <1>2, <1>3, <1>4, <1>5 DEF Lines, Boundaries, BootReadings, Results

\* Two sequences of one or two events are equal when their events are.
LEMMA ShortSequences ==
  ASSUME NEW b \in Seq(Kinds)
  PROVE  /\ \A x \in Kinds : Len(b) = 1 /\ b[1] = x => b = <<x>>
         /\ \A x, y \in Kinds : Len(b) = 2 /\ b[1] = x /\ b[2] = y => b = <<x, y>>
OBVIOUS

\* Which sort each line is of.
LEMMA LineSorts ==
  /\ <<>> \in Lines /\ <<>> \notin Results \cup BootReadings \cup Boundaries \cup {<<"asleep">>}
  /\ <<"asleep">> \in Lines /\ <<"asleep">> \notin Results \cup BootReadings \cup Boundaries
  /\ \A l \in Results :
       l \in Lines /\ l \notin BootReadings \cup Boundaries \cup {<<"asleep">>} /\ l # <<>>
  /\ \A l \in Boundaries :
       l \in Lines /\ l \notin BootReadings \cup Results \cup {<<"asleep">>} /\ l # <<>>
  /\ \A l \in BootReadings :
       l \in Lines /\ l \notin Boundaries \cup Results \cup {<<"asleep">>} /\ l # <<>>
  /\ <<"data">> \in Results /\ <<"tested">> \in Results
  /\ <<"prepared">> \in Boundaries /\ <<"started", "prepared">> \in Boundaries
  /\ <<"prepared", "data">> \in BootReadings /\ <<"started", "prepared", "data">> \in BootReadings
BY DEF Lines, Boundaries, BootReadings, Results

\* What each line brings.
LEMMA LineBrings ==
  ASSUME NEW l \in Lines
  PROVE  /\ Brings(l, "data") \/ Brings(l, "tested") <=> l \in Results \cup BootReadings
         /\ Brings(l, "prepared") <=> l \in Boundaries \cup BootReadings
         /\ Brings(l, "asleep") <=> l = <<"asleep">>
<1>1. CASE l = <<>>
  <2>1. \A x : ~Brings(l, x)
    BY <1>1 DEF Brings
  <2> QED
    BY <1>1, <2>1, LineSorts
<1>2. CASE l \in {<<"asleep">>, <<"prepared">>, <<"data">>, <<"tested">>}
  <2>1. PICK y : y \in {"asleep", "prepared", "data", "tested"} /\ l = <<y>>
    BY <1>2
  <2>2. \A x : Brings(l, x) <=> x = y
    BY <2>1 DEF Brings
  <2>3. CASE y = "asleep"
    BY <2>1, <2>2, <2>3, LineSorts
  <2>4. CASE y = "prepared"
    BY <2>1, <2>2, <2>4, LineSorts
  <2>5. CASE y \in {"data", "tested"}
    BY <2>1, <2>2, <2>5, LineSorts
  <2> QED
    BY <2>1, <2>3, <2>4, <2>5
<1>3. CASE l = <<"started", "prepared">>
  <2>1. \A x : Brings(l, x) <=> x \in {"started", "prepared"}
    BY <1>3 DEF Brings
  <2> QED
    BY <1>3, <2>1, LineSorts
<1>4. CASE l \in BootReadings
  <2>1. /\ Brings(l, "data") /\ Brings(l, "prepared") /\ ~Brings(l, "asleep")
    BY <1>4 DEF Brings, BootReadings
  <2> QED
    BY <1>4, <2>1, LineSorts
<1> QED
  BY <1>1, <1>2, <1>3, <1>4 DEF Lines, Boundaries, BootReadings, Results

\* The task moves an answer from what it is doing to the queue.
LEMMA MovedAnswer ==
  ASSUME NEW e \in Seq(Kinds), NEW r \in Seq(Kinds), NEW x \in Kinds
  PROVE  Append(e, x) \o r = e \o (<<x>> \o r)
OBVIOUS

\* The orchestrator takes the first of all.
LEMMA TakenRest ==
  ASSUME NEW e \in Seq(Kinds), e # <<>>, NEW d \in Seq(Kinds)
  PROVE  /\ Tail(e) \in Seq(Kinds) /\ Tail(e) \o d \in Seq(Kinds)
         /\ Len(Tail(e)) = Len(e) - 1
         /\ Len(Tail(e) \o d) = Len(e \o d) - 1
OBVIOUS

LEMMA TakenAnswer ==
  ASSUME NEW e \in Seq(Kinds), e # <<>>, NEW d \in Seq(Kinds), NEW a \in Seq(Kinds)
  PROVE  /\ (e \o d) \o a # <<>>
         /\ Head((e \o d) \o a) = Head(e)
         /\ Tail((e \o d) \o a) = (Tail(e) \o d) \o a
<1>1. /\ Head(e \o d) = Head(e) /\ Tail(e \o d) = Tail(e) \o d
      /\ e \o d \in Seq(Kinds) /\ e \o d # <<>>
  OBVIOUS
<1> DEFINE f == e \o d
<1>2. f \o a # <<>> /\ Head(f \o a) = Head(f) /\ Tail(f \o a) = Tail(f) \o a
  <2>1. f \in Seq(Kinds) /\ f # <<>>
    BY <1>1
  <2> HIDE DEF f
  <2> QED
    BY <2>1
<1> QED
  BY <1>1, <1>2

LEMMA NoAnswer ==
  ASSUME NEW b \in Seq(Kinds), NEW a \in Seq(Kinds), b \o a = <<>>
  PROVE  b = <<>> /\ a = <<>>
OBVIOUS

LEMMA EmptyParts ==
  ASSUME NEW b \in Seq(Kinds)
  PROVE  (b \o <<>> = b) /\ (<<>> \o b = b)
OBVIOUS

\* What may follow each answer.
LEMMA LinesFollow ==
  ASSUME NEW l \in Lines, l # <<>>
  PROVE  /\ Head(l) = "started" =>
              (l = <<"started", "prepared">> /\ Tail(l) = <<"prepared">>)
              \/ (l = <<"started", "prepared", "data">> /\ Tail(l) = <<"prepared", "data">>)
         /\ Head(l) = "prepared" =>
              (l = <<"prepared">> /\ Tail(l) = <<>>)
              \/ (l = <<"prepared", "data">> /\ Tail(l) = <<"data">>)
         /\ Head(l) = "asleep" => l = <<"asleep">> /\ Tail(l) = <<>>
         /\ Head(l) = "data" => l = <<"data">> /\ Tail(l) = <<>>
         /\ Head(l) = "tested" => l = <<"tested">> /\ Tail(l) = <<>>
<1> USE DEF Lines, Boundaries, BootReadings, Results
<1>1. CASE l = <<"asleep">>
  BY <1>1
<1>2. CASE l = <<"prepared">>
  BY <1>2
<1>3. CASE l = <<"started", "prepared">>
  BY <1>3
<1>4. CASE l = <<"prepared", "data">>
  BY <1>4
<1>5. CASE l = <<"started", "prepared", "data">>
  BY <1>5
<1>6. CASE l = <<"data">>
  BY <1>6
<1>7. CASE l = <<"tested">>
  BY <1>7
<1> QED
  BY <1>1, <1>2, <1>3, <1>4, <1>5, <1>6, <1>7

-----------------------------------------------------------------------------
(* The orchestrator's operations: what they do to the agreement.            *)

\* What the fields s wait for is in the line.
Met(s, line) ==
  /\ s.pending => line \in Results \cup BootReadings
  /\ s.pm = "Preparing" => line \in Boundaries \cup BootReadings
  /\ s.pm = "Sleeping" => line = <<"asleep">>

\* The fields s agree with the line, and, if m, no answer has been lost.
Fits(s, b, on, m) ==
  s \in Record /\ Agrees(s, b, on) /\ (m => Met(s, b \o Answers(s.slot)))

\* A record with the fields the agreement is about.
LEMMA SameFields ==
  ASSUME NEW b, NEW on, NEW m \in BOOLEAN, NEW s, Fits(s, b, on, m), NEW t \in Record,
         t.pm = s.pm, t.pending = s.pending, t.power = s.power, t.slot = s.slot
  PROVE  Fits(t, b, on, m)
BY DEF Fits, Met, Agrees, Says

\* When the sensor sleeps, or is ready and no result is expected, no answer is left.
LEMMA NothingLeft ==
  ASSUME NEW b \in Seq(Kinds), NEW on, NEW m \in BOOLEAN, NEW s, Fits(s, b, on, m),
         s.pm = "Asleep" \/ (s.pm = "Ready" /\ ~s.pending)
  PROVE  /\ b = <<>> /\ s.slot \notin Tracked /\ ~Warming
         /\ m => ~s.pending /\ s.pm \notin {"Preparing", "Sleeping"}
<1>1. b \o Answers(s.slot) = <<>>
  BY DEF Fits, Agrees, Says, Lines
<1>2. b = <<>> /\ Answers(s.slot) = <<>>
  BY <1>1, AnswersKinds, NoAnswer
<1>3. m => ~s.pending /\ s.pm \notin {"Preparing", "Sleeping"}
  BY <1>1, LineSorts DEF Fits, Met
<1> QED
  BY <1>2, <1>3, TrackedAnswers DEF Fits, Agrees, Says

\* Then a command may be sent.
LEMMA Asked ==
  ASSUME NEW on \in BOOLEAN, NEW m \in BOOLEAN, NEW s \in Record, NEW command \in Tracked,
         task # "none", ~Warming, s.power, s.slot \notin Tracked,
         command \in {"measure", "test"} => s.pending /\ s.pm = "Ready" /\ on,
         command = "prepare" <=> s.pm = "Preparing",
         command = "sleep" <=> s.pm = "Sleeping",
         m /\ s.pending => command \in {"measure", "test"}
  PROVE  Fits(Send(s, command), <<>>, on, m)
<1> DEFINE t == Send(s, command)
<1>1. /\ t \in Record /\ t.slot = command /\ t.pm = s.pm /\ t.pending = s.pending
      /\ t.power = s.power
  BY DEF Send, Record, Slots, Commands, Tracked
<1>2. SUFFICES Says(t, <<>>, Answers(command), on) /\ (m => Met(t, Answers(command)))
  <2>1. <<>> \o Answers(t.slot) = Answers(command)
    BY <1>1, AnswersKinds, EmptyParts
  <2> HIDE DEF t
  <2>2. Fits(t, <<>>, on, m)
    BY <1>1, <1>2, <2>1 DEF Fits, Agrees
  <2> QED
    BY <2>2 DEF t
<1> HIDE DEF t
<1> USE LineSorts DEF Says, Met, Warming
<1>3. CASE command = "measure"
  <2>1. Answers(command) = <<"data">>
    BY <1>3 DEF Answers
  <2> QED
    BY <1>1, <1>3, <2>1
<1>4. CASE command = "test"
  <2>1. Answers(command) = <<"tested">>
    BY <1>4 DEF Answers
  <2> QED
    BY <1>1, <1>4, <2>1
<1>5. CASE command = "prepare"
  <2>1. Answers(command) = <<"started", "prepared">>
    BY <1>5 DEF Answers
  <2> QED
    BY <1>1, <1>5, <2>1
<1>6. CASE command = "sleep"
  <2>1. Answers(command) = <<"asleep">>
    BY <1>6 DEF Answers
  <2> QED
    BY <1>1, <1>6, <2>1
<1> QED
  BY <1>3, <1>4, <1>5, <1>6 DEF Tracked

LEMMA PrepareFits ==
  ASSUME NEW b \in Seq(Kinds), NEW on \in BOOLEAN, NEW m \in BOOLEAN, NEW s,
         Fits(s, b, on, m), task # "none"
  PROVE  Fits(prepare_pm(s), b, on, m)
<1>1. CASE s.pm # "Asleep"
  BY <1>1 DEF prepare_pm
<1>2. CASE s.pm = "Asleep"
  <2> DEFINE t == [s EXCEPT !.pm = "Preparing", !.power = TRUE]
  <2>1. b = <<>> /\ s.slot \notin Tracked /\ ~Warming /\ (m => ~s.pending)
    BY <1>2, NothingLeft
  <2>2. /\ t \in Record /\ t.pm = "Preparing" /\ t.power = TRUE /\ t.slot = s.slot
        /\ (m => ~t.pending) /\ prepare_pm(s) = Send(t, "prepare")
    BY <1>2, <2>1 DEF Fits, Record, PmStates, prepare_pm
  <2> HIDE DEF t
  <2>3. Fits(Send(t, "prepare"), b, on, m)
    BY <2>1, <2>2, Asked DEF Tracked
  <2> QED
    BY <2>1, <2>2, <2>3 DEF Fits
<1> QED
  BY <1>1, <1>2

LEMMA MeasureFits ==
  ASSUME NEW b \in Seq(Kinds), NEW on \in BOOLEAN, NEW m \in BOOLEAN, NEW s,
         Fits(s, b, on, m), task # "none",
         s.pm = "Ready", ~s.pending
  PROVE  Fits(start_measurement(s), b, on, m)
<1> DEFINE t == [s EXCEPT !.pending = TRUE]
<1>1. b = <<>> /\ s.slot \notin Tracked /\ ~Warming
  BY NothingLeft
<1>2. /\ t \in Record /\ t.pm = "Ready" /\ t.power /\ t.slot = s.slot /\ t.pending /\ on
      /\ start_measurement(s) = Send(t, "measure")
  BY DEF Fits, Agrees, Says, Record, start_measurement
<1> HIDE DEF t
<1>3. Fits(Send(t, "measure"), b, on, m)
  BY <1>1, <1>2, Asked DEF Tracked
<1> QED
  BY <1>1, <1>2, <1>3 DEF Fits

LEMMA RefreshFits ==
  ASSUME NEW b \in Seq(Kinds), NEW on \in BOOLEAN, NEW m \in BOOLEAN, NEW s,
         Fits(s, b, on, m), task # "none"
  PROVE  Fits(try_refresh(s), b, on, m)
<1>1. CASE ~s.refresh \/ s.pending
  BY <1>1 DEF try_refresh
<1>2. CASE ~(~s.refresh \/ s.pending) /\ s.pm = "Ready"
  BY <1>2, MeasureFits DEF try_refresh
<1>3. CASE ~(~s.refresh \/ s.pending) /\ s.pm # "Ready"
  BY <1>3, PrepareFits DEF try_refresh
<1> QED
  BY <1>1, <1>2, <1>3

LEMMA TestFits ==
  ASSUME NEW b \in Seq(Kinds), NEW on \in BOOLEAN, NEW m \in BOOLEAN, NEW s,
         Fits(s, b, on, m), task # "none"
  PROVE  Fits(try_start_peripheral_sensor_test(s), b, on, m)
<1>1. CASE ~(s.test = "waiting" /\ s.pm = "Ready" /\ ~s.pending)
  BY <1>1 DEF try_start_peripheral_sensor_test
<1>2. CASE s.test = "waiting" /\ s.pm = "Ready" /\ ~s.pending
  <2> DEFINE t == [s EXCEPT !.test = "testing", !.pending = TRUE]
  <2>1. b = <<>> /\ s.slot \notin Tracked /\ ~Warming
    BY <1>2, NothingLeft
  <2>2. /\ t \in Record /\ t.pm = "Ready" /\ t.power /\ t.slot = s.slot /\ t.pending /\ on
        /\ try_start_peripheral_sensor_test(s) = Send(t, "test")
    BY <1>2 DEF Fits, Agrees, Says, Record, Tests, try_start_peripheral_sensor_test
  <2> HIDE DEF t
  <2>3. Fits(Send(t, "test"), b, on, m)
    BY <2>1, <2>2, Asked DEF Tracked
  <2> QED
    BY <2>1, <2>2, <2>3 DEF Fits
<1> QED
  BY <1>1, <1>2

LEMMA SleepFits ==
  ASSUME NEW b \in Seq(Kinds), NEW on \in BOOLEAN, NEW m \in BOOLEAN, NEW s,
         Fits(s, b, on, m), task # "none",
         s.pm = "Ready", ~s.pending
  PROVE  Fits(request_sleep(s), b, on, m)
<1> DEFINE t == [s EXCEPT !.pm = "Sleeping"]
<1>1. b = <<>> /\ s.slot \notin Tracked /\ ~Warming
  BY NothingLeft
<1>2. /\ t \in Record /\ t.pm = "Sleeping" /\ t.power /\ t.slot = s.slot
      /\ ~t.pending /\ request_sleep(s) = Send(t, "sleep")
  BY DEF Fits, Agrees, Says, Record, PmStates, request_sleep
<1> HIDE DEF t
<1>3. Fits(Send(t, "sleep"), b, on, m)
  BY <1>1, <1>2, Asked DEF Tracked
<1> QED
  BY <1>1, <1>2, <1>3 DEF Fits

LEMMA SleepIfIdleFits ==
  ASSUME NEW b \in Seq(Kinds), NEW on \in BOOLEAN, NEW m \in BOOLEAN, NEW s,
         Fits(s, b, on, m), task # "none"
  PROVE  Fits(sleep_pm_if_idle(s), b, on, m)
<1>1. CASE sleep_pm_if_idle(s) = s
  BY <1>1 DEF Fits
<1>2. CASE sleep_pm_if_idle(s) = request_sleep(s) /\ s.pm = "Ready" /\ ~s.pending
  BY <1>2, SleepFits
<1> QED
  BY <1>1, <1>2 DEF sleep_pm_if_idle

-----------------------------------------------------------------------------
(* The orchestrator's handlers: each takes the first answer.                *)

\* The queue e is not empty, and d is what the task is still to post.
LEMMA TakenLine ==
  ASSUME NEW e \in Seq(Kinds), e # <<>>, NEW d \in Seq(Kinds), NEW on,
         NEW m \in BOOLEAN, NEW s, Fits(s, e \o d, on, m)
  PROVE  LET line == (e \o d) \o Answers(s.slot)
             rest == (Tail(e) \o d) \o Answers(s.slot)
         IN /\ line \in Lines /\ line # <<>> /\ Head(line) = Head(e) /\ Tail(line) = rest
            /\ Says(s, e \o d, line, on)
            /\ Len(line) = Len(e) + Len(d) + Len(Answers(s.slot))
<1>1. Answers(s.slot) \in Seq(Kinds)
  BY AnswersKinds
<1>2. Len((e \o d) \o Answers(s.slot)) = Len(e) + Len(d) + Len(Answers(s.slot))
  BY <1>1
<1>3. Says(s, e \o d, (e \o d) \o Answers(s.slot), on)
  BY Zenon DEF Fits, Agrees
<1>4. (e \o d) \o Answers(s.slot) \in Lines
  BY <1>3 DEF Says
<1>5. /\ (e \o d) \o Answers(s.slot) # <<>>
      /\ Head((e \o d) \o Answers(s.slot)) = Head(e)
      /\ Tail((e \o d) \o Answers(s.slot)) = (Tail(e) \o d) \o Answers(s.slot)
  BY <1>1, TakenAnswer, Zenon
<1> QED
  BY <1>2, <1>3, <1>4, <1>5, Zenon

LEMMA StartedFits ==
  ASSUME NEW e \in Seq(Kinds), e # <<>>, NEW d \in Seq(Kinds), Warming => d # <<>>,
         NEW on \in BOOLEAN, NEW m \in BOOLEAN, NEW s, Fits(s, e \o d, on, m), Head(e) = "started"
  PROVE  Fits([s EXCEPT !.pm = "Preparing"], Tail(e) \o d, on, m)
<1> DEFINE line == (e \o d) \o Answers(s.slot)
           rest == (Tail(e) \o d) \o Answers(s.slot)
           t == [s EXCEPT !.pm = "Preparing"]
<1>1. /\ line \in Lines /\ line # <<>> /\ Head(line) = "started" /\ Tail(line) = rest
      /\ Says(s, e \o d, line, on)
  BY TakenLine
<1>2. /\ t \in Record /\ t.pm = "Preparing" /\ t.pending = s.pending /\ t.power = s.power
      /\ t.slot = s.slot
  BY DEF Fits, Record, PmStates
<1>3. Warming => Tail(e) \o d # <<>>
  <2>1. Tail(e) \in Seq(Kinds)
    OBVIOUS
  <2> QED
    BY <2>1, NoAnswer
<1> HIDE DEF line, rest, t
<1>4. \/ line = <<"started", "prepared">> /\ rest = <<"prepared">>
      \/ line = <<"started", "prepared", "data">> /\ rest = <<"prepared", "data">>
  BY <1>1, LinesFollow
<1>5. Says(t, Tail(e) \o d, rest, on)
  BY <1>1, <1>2, <1>3, <1>4, LineSorts DEF Says
<1>6. m => Met(s, line)
  BY DEF Fits, line
<1>7. m => Met(t, rest)
  BY <1>2, <1>4, <1>6, LineSorts DEF Met
<1> QED
  BY <1>2, <1>5, <1>7 DEF Fits, Agrees, rest, t

LEMMA PreparedFits ==
  ASSUME NEW e \in Seq(Kinds), e # <<>>, NEW d, d = Doing(task, warmup),
         NEW on \in BOOLEAN, NEW m \in BOOLEAN, NEW s, Fits(s, e \o d, on, m), Head(e) = "prepared"
  PROVE  Fits([s EXCEPT !.pm = "Ready"], Tail(e) \o d, on, m)
<1> DEFINE line == (e \o d) \o Answers(s.slot)
           rest == (Tail(e) \o d) \o Answers(s.slot)
           t == [s EXCEPT !.pm = "Ready"]
<1>1. d \in Seq(Kinds) /\ Answers(s.slot) \in Seq(Kinds)
  BY DoingKinds, AnswersKinds
<1>2. /\ line \in Lines /\ line # <<>> /\ Head(line) = "prepared" /\ Tail(line) = rest
      /\ Says(s, e \o d, line, on)
      /\ Len(line) = Len(e) + Len(d) + Len(Answers(s.slot))
  BY <1>1, TakenLine
<1>3. /\ t \in Record /\ t.pm = "Ready" /\ t.pending = s.pending /\ t.power = s.power
      /\ t.slot = s.slot
  BY DEF Fits, Record, PmStates
<1>4. warmup => task = "idle" /\ d = <<"prepared">> /\ s.slot \notin Tracked
  BY <1>2 DEF Doing, Says, Warming
<1>5. warmup => Tail(e) \o d # <<>>
  <2>1. Tail(e) \in Seq(Kinds)
    OBVIOUS
  <2> QED
    BY <1>1, <1>4, <2>1, NoAnswer, Sequences, KindsOf
<1>6. Len(e) >= 1 /\ Len(e) \in Nat /\ Len(d) \in Nat /\ Len(Answers(s.slot)) \in Nat
  BY <1>1
<1> HIDE DEF line, rest, t
<1>7. \/ line = <<"prepared">> /\ rest = <<>> /\ Len(line) = 1
      \/ line = <<"prepared", "data">> /\ rest = <<"data">> /\ Len(line) = 2
  BY <1>2, LinesFollow, Sequences, KindsOf
\* Nothing is started any more, so the sensor has been woken.
<1>8. task \notin {"booting", "preparing"} /\ s.slot # "prepare"
  <2>6. Len(line) \in 1..2 /\ Len(line) = Len(e) + Len(d) + Len(Answers(s.slot))
    BY <1>2, <1>7
  <2>7. \A i, j, k \in Nat : i >= 1 /\ i + j + k \in 1..2 => j # 2 /\ k # 2
    OBVIOUS
  <2>1. Len(d) # 2 /\ Len(Answers(s.slot)) # 2
    BY <1>6, <2>6, <2>7, Zenon
  <2>2. task \in {"booting", "preparing"} => d = <<"started", "prepared">>
    BY DEF Doing
  <2>3. s.slot = "prepare" => Answers(s.slot) = <<"started", "prepared">>
    BY DEF Answers
  <2>4. task \in {"booting", "preparing"} => Len(d) = 2
    BY <2>2, Sequences, Zenon
  <2>5. s.slot = "prepare" => Len(Answers(s.slot)) = 2
    BY <2>3, Sequences, Zenon
  <2> QED
    BY <2>1, <2>4, <2>5, Zenon
<1>9. line \in Boundaries \cup BootReadings /\ (rest # <<>> => line \in BootReadings)
  BY <1>7, LineSorts
<1>10. on /\ s.power /\ (rest # <<>> => s.pending)
  BY <1>2, <1>8, <1>9 DEF Says
<1>11. rest \in Lines /\ rest \notin Boundaries \cup BootReadings \cup {<<"asleep">>}
  BY <1>7, LineSorts
<1>12. rest \in Results \cup BootReadings => rest # <<>>
  BY LineSorts
<1>13. Says(t, Tail(e) \o d, rest, on)
  BY <1>3, <1>4, <1>5, <1>8, <1>10, <1>11, <1>12 DEF Says, Warming
<1>14. m => Met(s, line)
  BY DEF Fits, line
<1>15. m => Met(t, rest)
  BY <1>3, <1>7, <1>14, LineSorts DEF Met
<1> QED
  BY <1>3, <1>13, <1>15 DEF Fits, Agrees, rest, t

\* The last answer has been taken: any state of the sensor will do that its supply fits.
LEMMA LastTaken ==
  ASSUME NEW e \in Seq(Kinds), e # <<>>, NEW d, d = Doing(task, warmup),
         NEW on \in BOOLEAN, NEW m \in BOOLEAN, NEW s, Fits(s, e \o d, on, m),
         Head(e) \in {"asleep", "data", "tested"},
         NEW t \in Record, t.slot = s.slot, NEW awoken \in BOOLEAN,
         t.pm # "Asleep" => t.power, t.pm = "Ready" => awoken,
         m => ~t.pending /\ t.pm \in {"Ready", "Asleep"}
  PROVE  Fits(t, Tail(e) \o d, awoken, m)
<1> DEFINE line == (e \o d) \o Answers(s.slot)
           rest == (Tail(e) \o d) \o Answers(s.slot)
<1>1. d \in Seq(Kinds) /\ Answers(s.slot) \in Seq(Kinds) /\ Tail(e) \in Seq(Kinds)
  BY DoingKinds, AnswersKinds
<1>2. /\ line \in Lines /\ line # <<>> /\ Head(line) = Head(e) /\ Tail(line) = rest
      /\ Says(s, e \o d, line, on)
  BY <1>1, TakenLine, SMTT(60)
<1> HIDE DEF line
<1>3. rest = <<>>
  BY <1>2, LinesFollow
<1>4. Tail(e) \o d \in Seq(Kinds)
  BY <1>1
<1>5. d = <<>>
  BY <1>1, <1>3, <1>4, NoAnswer
<1>6. ~Warming
  <2>1. Warming => d \in Boundaries
    BY <1>2 DEF Doing, Says, Warming, Boundaries
  <2> QED
    BY <1>5, <2>1, LineSorts
<1> HIDE DEF rest
<1>7. Says(t, Tail(e) \o d, rest, awoken)
  BY <1>3, <1>6, LineSorts DEF Says, Warming
<1>8. m => Met(t, rest)
  BY DEF Met
<1> QED
  BY <1>7, <1>8 DEF Fits, Agrees, rest

LEMMA PmEventFits ==
  ASSUME NEW e \in Seq(Kinds), e # <<>>, NEW d, d = Doing(task, warmup),
         NEW on \in BOOLEAN, NEW m \in BOOLEAN, NEW s, Fits(s, e \o d, on, m), task # "none",
         Head(e) \in {"started", "prepared", "asleep"}, pause = "no"
  PROVE  Fits(on_pm_event(s, Head(e)), Tail(e) \o d, on, m)
<1> DEFINE b == Tail(e) \o d
           told == CASE Head(e) = "started" -> [s EXCEPT !.pm = "Preparing"]
                     [] Head(e) = "prepared" -> [s EXCEPT !.pm = "Ready"]
                     [] Head(e) = "asleep" -> on_pm_asleep(s)
<1>1. d \in Seq(Kinds) /\ b \in Seq(Kinds)
  BY DoingKinds, TakenRest
<1>2. Fits(told, b, on, m)
  <2>1. CASE Head(e) = "started"
    <3>1. Warming => d # <<>>
      <4>1. warmup => task = "idle"
        BY DEF Fits, Agrees, Says
      <4>2. Warming => d \in Boundaries
        BY <4>1 DEF Doing, Warming, Boundaries
      <4> QED
        BY <4>2, LineSorts
    <3> QED
      BY <1>1, <2>1, <3>1, StartedFits
  <2>2. CASE Head(e) = "prepared"
    BY <2>2, PreparedFits
  <2>3. CASE Head(e) = "asleep"
    <3> DEFINE off == [s EXCEPT !.pm = "Asleep", !.power = FALSE]
    <3>1. /\ off \in Record /\ off.pm = "Asleep" /\ off.slot = s.slot
          /\ off.pending = s.pending
      BY DEF Fits, Record, PmStates
    <3>2. on_pm_asleep(s) \in {off, prepare_pm(off)}
      BY DEF on_pm_asleep
    <3> HIDE DEF off
    <3>6. m => ~s.pending
      <4> DEFINE line == (e \o d) \o Answers(s.slot)
      <4>1. line \in Lines /\ line # <<>> /\ Head(line) = Head(e)
        BY <1>1, TakenLine
      <4>2. m => Met(s, line)
        BY DEF Fits
      <4> HIDE DEF line
      <4>3. line = <<"asleep">>
        BY <2>3, <4>1, LinesFollow
      <4> QED
        BY <4>2, <4>3, LineSorts DEF Met
    <3>3. Fits(off, b, on, m)
      BY <2>3, <3>1, <3>6, LastTaken
    <3>4. Fits(prepare_pm(off), b, on, m)
      BY <1>1, <3>3, PrepareFits DEF Fits
    <3>5. Fits(on_pm_asleep(s), b, on, m)
      BY <3>2, <3>3, <3>4
    <3> QED
      BY <2>3, <3>5
  <2> QED
    BY <2>1, <2>2, <2>3
<1> HIDE DEF b, told
<1>3. Fits(try_refresh(told), b, on, m)
  BY <1>1, <1>2, RefreshFits DEF Fits
<1> DEFINE tried == try_refresh(told)
<1>4. Fits(tried, b, on, m)
  BY <1>2, <1>3
<1> HIDE DEF tried
<1>5. Fits(try_start_peripheral_sensor_test(tried), b, on, m)
  BY <1>1, <1>4, TestFits DEF Fits
<1> QED
  BY <1>5 DEF on_pm_event, told, tried, b

\* A result comes from a sensor that is ready, supplied and measuring.
LEMMA ResultReady ==
  ASSUME NEW e \in Seq(Kinds), e # <<>>, NEW d, d = Doing(task, warmup),
         NEW on, NEW m \in BOOLEAN, NEW s, Fits(s, e \o d, on, m), Head(e) \in {"data", "tested"}
  PROVE  s.pm = "Ready" /\ s.power /\ on
<1> DEFINE line == (e \o d) \o Answers(s.slot)
<1>1. d \in Seq(Kinds)
  BY DoingKinds
<1>2. line \in Lines /\ line # <<>> /\ Head(line) = Head(e) /\ Says(s, e \o d, line, on)
  BY <1>1, TakenLine
<1> HIDE DEF line
<1>3. line \in Results
  BY <1>2, LinesFollow, LineSorts
<1> QED
  BY <1>2, <1>3 DEF Says

LEMMA DataFits ==
  ASSUME NEW e \in Seq(Kinds), e # <<>>, NEW d, d = Doing(task, warmup),
         NEW on \in BOOLEAN, NEW m \in BOOLEAN, NEW s, Fits(s, e \o d, on, m),
         task # "none", Head(e) = "data",
         NEW recover \in BOOLEAN
  PROVE  Fits(on_sensor_data(s, recover), Tail(e) \o d, on /\ ~recover, m)
<1> DEFINE b == Tail(e) \o d
           read == [s EXCEPT !.pending = FALSE, !.refresh = FALSE]
           off == [read EXCEPT !.pm = "Asleep", !.power = TRUE]
           cycled == IF recover THEN prepare_pm(off) ELSE read
           tested == try_start_peripheral_sensor_test(cycled)
           awoken == on /\ ~recover
<1>1. b \in Seq(Kinds) /\ awoken \in BOOLEAN
  BY DoingKinds, TakenRest
<1>2. /\ read \in Record /\ read.slot = s.slot /\ read.pm = s.pm /\ read.power = s.power
      /\ off \in Record /\ off.slot = s.slot /\ off.pm = "Asleep"
      /\ ~read.pending /\ ~off.pending
  BY DEF Fits, Record, PmStates
<1>3. s.pm = "Ready" /\ s.power /\ on
  BY ResultReady
<1>4. Fits(read, b, on, m)
  <2> HIDE DEF read
  <2> QED
    BY <1>2, <1>3, LastTaken
<1>5. Fits(prepare_pm(off), b, FALSE, m)
  <2> HIDE DEF off
  <2>1. Fits(off, b, FALSE, m)
    BY <1>2, LastTaken
  <2> QED
    BY <1>1, <2>1, PrepareFits DEF Fits
<1>6. Fits(cycled, b, awoken, m)
  <2>1. CASE recover
    BY <1>5, <2>1, awoken = FALSE
  <2>2. CASE ~recover
    BY <1>3, <1>4, <2>2, awoken = on
  <2> QED
    BY <2>1, <2>2
<1> HIDE DEF b, cycled, awoken
<1>7. Fits(tested, b, awoken, m)
  BY <1>1, <1>6, TestFits DEF Fits
<1> HIDE DEF tested
<1>9. Fits(sleep_pm_if_idle(tested), b, awoken, m)
  BY <1>1, <1>7, SleepIfIdleFits DEF Fits
<1>11. on_sensor_data(s, recover) = sleep_pm_if_idle(tested)
  BY DEF on_sensor_data, tested, cycled
<1> QED
  BY <1>9, <1>11 DEF b, awoken

LEMMA TestedFits ==
  ASSUME NEW e \in Seq(Kinds), e # <<>>, NEW d, d = Doing(task, warmup),
         NEW on \in BOOLEAN, NEW m \in BOOLEAN, NEW s, Fits(s, e \o d, on, m),
         task # "none", Head(e) = "tested"
  PROVE  Fits(on_sensor_test_done(s), Tail(e) \o d, on, m)
<1> DEFINE b == Tail(e) \o d
           done == [s EXCEPT !.pending = FALSE]
           summary == [done EXCEPT !.test = "summary"]
           tested == try_start_peripheral_sensor_test(done)
           tried == try_refresh(tested)
<1>1. b \in Seq(Kinds)
  BY DoingKinds, TakenRest
<1>2. /\ done \in Record /\ done.slot = s.slot /\ done.pm = s.pm /\ done.power = s.power
      /\ summary \in Record /\ summary.slot = s.slot /\ summary.pm = s.pm
      /\ summary.power = s.power /\ ~done.pending /\ ~summary.pending
  BY DEF Fits, Record, Tests
<1>3. s.pm = "Ready" /\ s.power /\ on
  BY ResultReady
<1> HIDE DEF done, summary
<1>4. Fits(done, b, on, m) /\ Fits(summary, b, on, m)
  BY <1>2, <1>3, LastTaken
<1> HIDE DEF b
<1>5. Fits(tested, b, on, m)
  BY <1>1, <1>4, TestFits DEF Fits
<1> HIDE DEF tested
<1>7. Fits(tried, b, on, m)
  BY <1>1, <1>5, RefreshFits DEF Fits
<1> HIDE DEF tried
<1>9. Fits(sleep_pm_if_idle(tried), b, on, m)
  BY <1>1, <1>7, SleepIfIdleFits DEF Fits
<1>11. on_sensor_test_done(s) \in {summary, sleep_pm_if_idle(tried)}
  BY DEF on_sensor_test_done, summary, done, tested, tried
<1> QED
  BY <1>4, <1>9, <1>11 DEF b

-----------------------------------------------------------------------------
(* Without a task nothing is sent.                                          *)

Stays(s, t) == t \in Record /\ (task = "none" => t.slot = s.slot)

LEMMA StaysThrough ==
  ASSUME NEW s, NEW t, NEW u, Stays(s, t), Stays(t, u)
  PROVE  Stays(s, u)
BY DEF Stays

LEMMA SendStays ==
  ASSUME NEW s \in Record, NEW command \in Commands
  PROVE  Stays(s, Send(s, command))
BY DEF Stays, Send, Record, Slots

LEMMA PrepareStays == ASSUME NEW s \in Record PROVE Stays(s, prepare_pm(s))
<1> DEFINE t == [s EXCEPT !.pm = "Preparing", !.power = TRUE]
<1>1. Stays(s, t) /\ t \in Record
  BY DEF Stays, Record, PmStates
<1>2. prepare_pm(s) \in {s, Send(t, "prepare")}
  BY DEF prepare_pm
<1> HIDE DEF t
<1>3. Stays(t, Send(t, "prepare"))
  BY <1>1, SendStays DEF Commands, Tracked
<1> QED
  BY <1>1, <1>2, <1>3, StaysThrough DEF Stays

LEMMA MeasureStays == ASSUME NEW s \in Record PROVE Stays(s, start_measurement(s))
<1> DEFINE t == [s EXCEPT !.pending = TRUE]
<1>1. Stays(s, t) /\ t \in Record
  BY DEF Stays, Record
<1>2. start_measurement(s) = Send(t, "measure")
  BY DEF start_measurement
<1> HIDE DEF t
<1>3. Stays(t, Send(t, "measure"))
  BY <1>1, SendStays DEF Commands, Tracked
<1> QED
  BY <1>1, <1>2, <1>3, StaysThrough

LEMMA RefreshStays == ASSUME NEW s \in Record PROVE Stays(s, try_refresh(s))
<1>1. try_refresh(s) \in {s, start_measurement(s), prepare_pm(s)}
  BY DEF try_refresh
<1> QED
  BY <1>1, PrepareStays, MeasureStays DEF Stays

LEMMA TestStays == ASSUME NEW s \in Record PROVE Stays(s, try_start_peripheral_sensor_test(s))
<1> DEFINE t == [s EXCEPT !.test = "testing", !.pending = TRUE]
<1>1. Stays(s, t) /\ t \in Record
  BY DEF Stays, Record, Tests
<1>2. try_start_peripheral_sensor_test(s) \in {s, Send(t, "test")}
  BY DEF try_start_peripheral_sensor_test
<1> HIDE DEF t
<1>3. Stays(t, Send(t, "test"))
  BY <1>1, SendStays DEF Commands, Tracked
<1> QED
  BY <1>1, <1>2, <1>3, StaysThrough DEF Stays

LEMMA SleepStays ==
  ASSUME NEW s \in Record
  PROVE  Stays(s, request_sleep(s)) /\ Stays(s, sleep_pm_if_idle(s))
<1> DEFINE t == [s EXCEPT !.pm = "Sleeping"]
<1>1. Stays(s, t) /\ t \in Record
  BY DEF Stays, Record, PmStates
<1>2. request_sleep(s) = Send(t, "sleep")
  BY DEF request_sleep
<1> HIDE DEF t
<1>3. Stays(t, Send(t, "sleep"))
  BY <1>1, SendStays DEF Commands, Tracked
<1>4. Stays(s, request_sleep(s))
  BY <1>1, <1>2, <1>3, StaysThrough
<1>5. sleep_pm_if_idle(s) \in {s, request_sleep(s)}
  BY DEF sleep_pm_if_idle
<1> QED
  BY <1>4, <1>5 DEF Stays

LEMMA DataStays ==
  ASSUME NEW s \in Record, NEW recover \in BOOLEAN
  PROVE  Stays(s, on_sensor_data(s, recover))
<1> DEFINE read == [s EXCEPT !.pending = FALSE, !.refresh = FALSE]
           off == [read EXCEPT !.pm = "Asleep", !.power = TRUE]
           cycled == IF recover THEN prepare_pm(off) ELSE read
           tested == try_start_peripheral_sensor_test(cycled)
<1>1. Stays(s, read) /\ Stays(s, off) /\ off \in Record
  BY DEF Stays, Record, PmStates
<1>2. cycled \in {read, prepare_pm(off)}
  OBVIOUS
<1> HIDE DEF read, off
<1>3. Stays(s, cycled)
  BY <1>1, <1>2, PrepareStays, StaysThrough
<1> HIDE DEF cycled
<1>4. Stays(s, tested)
  BY <1>3, TestStays, StaysThrough DEF Stays
<1> HIDE DEF tested
<1>5. Stays(s, sleep_pm_if_idle(tested))
  BY <1>4, SleepStays, StaysThrough DEF Stays
<1> QED
  BY <1>5 DEF on_sensor_data, tested, cycled, read, off

LEMMA PmEventStays ==
  ASSUME NEW s \in Record, NEW event \in {"started", "prepared", "asleep"}
  PROVE  Stays(s, on_pm_event(s, event))
<1> DEFINE off == [s EXCEPT !.pm = "Asleep", !.power = FALSE]
           told == CASE event = "started" -> [s EXCEPT !.pm = "Preparing"]
                     [] event = "prepared" -> [s EXCEPT !.pm = "Ready"]
                     [] event = "asleep" -> on_pm_asleep(s)
           tried == try_refresh(told)
<1>1. /\ Stays(s, off) /\ off \in Record /\ Stays(s, [s EXCEPT !.pm = "Preparing"])
      /\ Stays(s, [s EXCEPT !.pm = "Ready"])
  BY DEF Stays, Record, PmStates
<1>2. on_pm_asleep(s) \in {off, prepare_pm(off)}
  BY DEF on_pm_asleep
<1> HIDE DEF off
<1>3. Stays(s, on_pm_asleep(s))
  BY <1>1, <1>2, PrepareStays, StaysThrough
<1>4. Stays(s, told)
  BY <1>1, <1>3
<1> HIDE DEF told
<1>5. Stays(s, tried)
  BY <1>4, RefreshStays, StaysThrough DEF Stays
<1> HIDE DEF tried
<1>6. Stays(s, try_start_peripheral_sensor_test(tried))
  BY <1>5, TestStays, StaysThrough DEF Stays
<1>7. on_pm_event(s, event) \in {s, try_start_peripheral_sensor_test(tried)}
  BY DEF on_pm_event, told, tried
<1> QED
  BY <1>6, <1>7 DEF Stays

LEMMA TestedStays == ASSUME NEW s \in Record PROVE Stays(s, on_sensor_test_done(s))
<1> DEFINE done == [s EXCEPT !.pending = FALSE]
           summary == [done EXCEPT !.test = "summary"]
           tested == try_start_peripheral_sensor_test(done)
           tried == try_refresh(tested)
<1>1. Stays(s, done) /\ Stays(s, summary)
  BY DEF Stays, Record, Tests
<1> HIDE DEF done, summary
<1>2. Stays(s, tested)
  BY <1>1, TestStays, StaysThrough DEF Stays
<1> HIDE DEF tested
<1>3. Stays(s, tried)
  BY <1>2, RefreshStays, StaysThrough DEF Stays
<1> HIDE DEF tried
<1>4. Stays(s, sleep_pm_if_idle(tried))
  BY <1>3, SleepStays, StaysThrough DEF Stays
<1>5. on_sensor_test_done(s) \in {summary, sleep_pm_if_idle(tried)}
  BY DEF on_sensor_test_done, summary, done, tested, tried
<1> QED
  BY <1>1, <1>4, <1>5

-----------------------------------------------------------------------------
(* The steps of the orchestrator's loop.                                    *)

\* The ways in which a step loses an answer that is waited for.
AnswerKept ==
  ~Orphaned /\ Orphaned' =>
    \/ slot \in Tracked /\ slot' = "setting"
    \/ task = "testing" /\ task' = "idle" /\ events' = events
    \/ task' = "none"

\* In a pause, and when neither the line nor what is waited for changes, none is lost.
LEMMA PauseKeeps == ASSUME pause' # "no" PROVE AnswerKept
BY DEF AnswerKept, Orphaned

LEMMA LineKeeps ==
  ASSUME Line' = Line, UNCHANGED <<pm, pending, pause>>
  PROVE  AnswerKept
<1>1. \A x : Brings(Line, x)' <=> Brings(Line, x)
  BY DEF Brings
<1> QED
  BY <1>1 DEF AnswerKept, Orphaned

\* No answer is lost exactly when what is waited for is in the line.
LEMMA MetLine ==
  ASSUME pause = "no", Line \in Lines
  PROVE  ~Orphaned <=> Met(Now, Line)
BY LineBrings DEF Orphaned, Met, Now

\* The fields become those of t and the queue q, in a step that leaves the task alone.
LEMMA Looped ==
  ASSUME PipeInv, Looping, NEW t, Stays(Now, t), NEW q \in Seq(Kinds), NEW on \in BOOLEAN,
         Len(q) <= Len(events), Len(q \o Doing(task, warmup)) <= Len(Before),
         task # "none" => Fits(t, q \o Doing(task, warmup), on, ~Orphaned),
         pm' = t.pm, pending' = t.pending, refresh' = t.refresh, test' = t.test,
         power' = t.power, slot' = t.slot, events' = q, awake' \in {on, on /\ t.power},
         UNCHANGED <<pause, stopping, taskVars>>,
         long' \in BOOLEAN, clock' \in {"far", "near", "due"}, acts' \in 0..MaxActs
  PROVE  PipeInv' /\ AnswerKept
<1> USE DEF taskVars
<1>1. /\ t \in Record /\ t.power \in BOOLEAN
      /\ task = "none" => t.slot = slot
  BY DEF Stays, Record, Now
<1>2. Now' \in Record
  BY <1>1 DEF Now, Record
<1>3. Len(events) \in Nat /\ Len(events) <= 3 /\ Len(q) \in Nat /\ awake' \in BOOLEAN
  BY <1>1 DEF PipeInv, FieldTypes
<1>4. FieldTypes'
  <2>1. {stopping, long, warmup, running, awake}' \subseteq BOOLEAN
    BY <1>3 DEF PipeInv, FieldTypes
  <2>2. pause' \in {"no", "setup", "update"} /\ task' \in Tasks
    BY DEF PipeInv, FieldTypes
  <2> QED
    BY <1>2, <1>3, <2>1, <2>2 DEF FieldTypes
<1>5. PauseInv'
  <2>1. events = <<>> => q = <<>>
    <3>1. events = <<>> => Len(events) = 0
      BY Sequences
    <3> QED
      BY <1>3, <3>1
  <2> QED
    BY <1>1, <2>1 DEF PipeInv, PauseInv, Looping
<1>6. CASE task = "none"
  BY <1>1, <1>4, <1>5, <1>6 DEF PipeInv, LineInv, AnswerKept
<1>7. CASE task # "none"
  <2>1. Before' = q \o Doing(task, warmup)
    BY DEF Before
  <2>2. Len(Before') <= 3 /\ (warmup => task \in {"idle", "ended"}) /\ pause = "no" /\ running
    <3>1. pause = "no"
      BY <1>7 DEF PipeInv, PauseInv, Looping, FieldTypes
    <3>2. /\ Len(Before) <= 3 /\ (warmup => task \in {"idle", "ended"}) /\ running
      BY <1>7, <3>1 DEF PipeInv, LineInv
    <3>3. Before \in Seq(Kinds) /\ q \o Doing(task, warmup) \in Seq(Kinds)
      BY DoingKinds DEF Before, PipeInv, FieldTypes
    <3> QED
      BY <2>1, <3>1, <3>2, <3>3
  <2>3. Fits(t, Before', on, ~Orphaned)
    BY <1>7, <2>1
  <2>4. Says(t, Before', Before' \o Answers(t.slot), on)
    BY <2>3 DEF Fits, Agrees
  <2>5. Says(Now, Before, Before \o Answers(slot), awake)'
    <3> DEFINE line == Before' \o Answers(t.slot)
    <3>1. line = (Before \o Answers(slot))'
      OBVIOUS
    <3> HIDE DEF line
    <3>2. Says(t, Before', line, on)
      BY <2>4 DEF line
    <3>3. awake' = on \/ ~t.power
      BY <1>1
    <3> QED
      BY <3>1, <3>2, <3>3 DEF Says, Now, Warming
  <2>6. Agrees(Now, Before, awake)'
    BY <2>5 DEF Agrees, Now
  <2>7. LineInv'
    BY <2>2, <2>6 DEF LineInv
  <2>8. AnswerKept
    <3>1. SUFFICES ASSUME ~Orphaned PROVE ~Orphaned'
      BY DEF AnswerKept
    <3>2. Met(t, Before' \o Answers(t.slot))
      BY <2>3, <3>1 DEF Fits
    <3>3. Line' = Before' \o Answers(t.slot)
      BY DEF Line
    <3>4. Line' \in Lines
      BY <2>4, <3>3 DEF Says
    <3>5. Met(Now, Line)'
      BY <3>2, <3>3 DEF Met, Now
    <3>6. pause' = "no"
      BY <2>2
    <3>7. (~Orphaned <=> Met(Now, Line))'
      <4> DEFINE l == Line'
      <4>1. /\ Brings(l, "data") \/ Brings(l, "tested") <=> l \in Results \cup BootReadings
            /\ Brings(l, "prepared") <=> l \in Boundaries \cup BootReadings
            /\ Brings(l, "asleep") <=> l = <<"asleep">>
        BY <3>4, LineBrings
      <4>2. \A x : Brings(Line, x)' <=> Brings(l, x)
        BY DEF Brings
      <4> HIDE DEF l
      <4> QED
        BY <3>6, <4>1, <4>2 DEF Orphaned, Met, Now, l
    <3> QED
      BY <3>5, <3>7
  <2> QED
    BY <1>4, <1>5, <2>7, <2>8 DEF PipeInv
<1> QED
  BY <1>6, <1>7

\* The same when the queue stays and no event is handled.
LEMMA LoopedAlone ==
  ASSUME PipeInv, Looping, NEW t, Stays(Now, t), task # "none" => Fits(t, Before, awake, ~Orphaned),
         Become(t), UNCHANGED <<events, pause, stopping, taskVars>>,
         long' \in BOOLEAN, clock' \in {"far", "near", "due"}, acts' \in 0..MaxActs
  PROVE  PipeInv' /\ AnswerKept
<1>1. events \in Seq(Kinds) /\ awake \in BOOLEAN
  BY DEF PipeInv, FieldTypes
<1>2. Before \in Seq(Kinds)
  BY <1>1, DoingKinds DEF Before
<1>3. /\ events' = events /\ Len(events) <= Len(events) /\ Len(Before) <= Len(Before)
      /\ awake' \in {awake, awake /\ t.power}
  BY <1>1, <1>2 DEF Become
<1> QED
  BY <1>1, <1>3, Looped DEF Become, Before

\* In the loop the agreement holds of the state a step starts from.
LEMMA LoopFits ==
  ASSUME PipeInv, Looping, task # "none"
  PROVE  pause = "no" /\ Fits(Now, Before, awake, ~Orphaned) /\ running
<1>1. pause = "no" /\ Agrees(Now, Before, awake) /\ running /\ Now \in Record
  BY DEF PipeInv, PauseInv, LineInv, Looping, FieldTypes
<1>2. Line \in Lines /\ Line = Before \o Answers(Now.slot)
  BY <1>1 DEF Agrees, Says, Line, Now
<1> QED
  BY <1>1, <1>2, MetLine DEF Fits

LEMMA Fields ==
  ASSUME PipeInv
  PROVE  /\ Now \in Record /\ events \in Seq(Kinds) /\ awake \in BOOLEAN /\ long \in BOOLEAN
         /\ clock \in {"far", "near", "due"} /\ Rested \in {"far", "near", "due"}
         /\ acts \in 0..MaxActs /\ Before \in Seq(Kinds)
         /\ Before = events \o Doing(task, warmup)
BY DoingKinds DEF PipeInv, FieldTypes, Rested, Before

\* The rest of the queue once its first event is taken.
LEMMA RestOfQueue ==
  ASSUME PipeInv, events # <<>>
  PROVE  /\ Tail(events) \in Seq(Kinds) /\ Len(Tail(events)) <= Len(events)
         /\ Len(Tail(events) \o Doing(task, warmup)) <= Len(Before)
<1>1. Len(events) \in Nat /\ Len(Before) \in Nat
  BY Fields
<1> QED
  BY <1>1, Fields, DoingKinds, TakenRest

LEMMA HandleSteps == ASSUME PipeInv, Handle PROVE PipeInv' /\ AnswerKept
<1> USE DEF Elsewhere, settingVars
<1> DEFINE d == Doing(task, warmup)
           q == Tail(events)
<1>1. Looping /\ events # <<>> /\ events' = q
  BY DEF Handle, HandleData, HandlePmEvent, HandleTested
<1>2. /\ q \in Seq(Kinds) /\ Len(q) <= Len(events) /\ Len(q \o d) <= Len(Before)
  BY <1>1, RestOfQueue
<1>3. task # "none" => pause = "no" /\ Fits(Now, events \o d, awake, ~Orphaned)
  BY <1>1, LoopFits, Fields
<1>4. /\ UNCHANGED <<pause, stopping, taskVars>> /\ long' \in BOOLEAN
      /\ clock' \in {"far", "near", "due"} /\ acts' \in 0..MaxActs
  BY Fields DEF Handle, HandleData, HandlePmEvent, HandleTested
<1> HIDE DEF d, q
<1>5. CASE HandleData
  <2>1. PICK recover \in BOOLEAN :
             LET s == on_sensor_data(Now, recover)
             IN /\ pm' = s.pm /\ pending' = s.pending /\ refresh' = s.refresh
                /\ test' = s.test /\ power' = s.power /\ slot' = s.slot
                /\ awake' = (awake /\ ~recover)
    BY <1>5 DEF HandleData
  <2> DEFINE t == on_sensor_data(Now, recover)
             on == awake /\ ~recover
  <2>2. Stays(Now, t) /\ on \in BOOLEAN
    BY Fields, DataStays
  <2>3. task # "none" => Fits(t, q \o d, on, ~Orphaned)
    BY <1>1, <1>3, <1>5, Fields, DataFits DEF HandleData, q, d
  <2>4. /\ pm' = t.pm /\ pending' = t.pending /\ refresh' = t.refresh
        /\ test' = t.test /\ power' = t.power /\ slot' = t.slot
        /\ awake' \in {on, on /\ t.power}
    BY <2>1
  <2> HIDE DEF t, on
  <2> QED
    BY <1>1, <1>2, <1>4, <2>2, <2>3, <2>4, Looped DEF d
<1>6. CASE HandlePmEvent
  <2> DEFINE t == on_pm_event(Now, Head(events))
  <2>1. Head(events) \in {"started", "prepared", "asleep"}
    BY <1>6 DEF HandlePmEvent
  <2>2. Stays(Now, t)
    BY <2>1, Fields, PmEventStays
  <2>3. task # "none" => Fits(t, q \o d, awake, ~Orphaned)
    BY <1>1, <1>3, <2>1, Fields, PmEventFits DEF q, d
  <2>4. Become(t)
    BY <1>6 DEF HandlePmEvent
  <2> HIDE DEF t
  <2>5. awake' \in {awake, awake /\ t.power}
    BY <2>4 DEF Become
  <2> QED
    BY <1>1, <1>2, <1>4, <2>2, <2>3, <2>4, <2>5, Fields, Looped DEF d, Become
<1>7. CASE HandleTested
  <2> DEFINE t == on_sensor_test_done(Now)
  <2>1. Head(events) = "tested"
    BY <1>7 DEF HandleTested
  <2>2. Stays(Now, t)
    BY Fields, TestedStays
  <2>3. task # "none" => Fits(t, q \o d, awake, ~Orphaned)
    BY <1>1, <1>3, <2>1, Fields, TestedFits DEF q, d
  <2>4. Become(t)
    BY <1>7 DEF HandleTested
  <2> HIDE DEF t
  <2>5. awake' \in {awake, awake /\ t.power}
    BY <2>4 DEF Become
  <2> QED
    BY <1>1, <1>2, <1>4, <2>2, <2>3, <2>4, <2>5, Fields, Looped DEF d, Become
<1> QED
  BY <1>5, <1>6, <1>7 DEF Handle

LEMMA TimerSteps ==
  ASSUME PipeInv, PreWake \/ SensorTimer \/ Shake
  PROVE  PipeInv' /\ AnswerKept
<1> USE DEF Elsewhere, settingVars
<1>1. Looping /\ pause = "no"
  BY DEF PreWake, SensorTimer, Shake
<1>2. /\ UNCHANGED <<events, pause, stopping, taskVars>> /\ long' \in BOOLEAN
      /\ clock' \in {"far", "near", "due"} /\ acts' \in 0..MaxActs
  BY Fields DEF PreWake, SensorTimer, Shake
<1>3. task # "none" => Fits(Now, Before, awake, ~Orphaned)
  BY <1>1, LoopFits
<1>4. CASE PreWake
  <2>1. Stays(Now, prepare_pm(Now))
    BY Fields, PrepareStays
  <2>2. task # "none" => Fits(prepare_pm(Now), Before, awake, ~Orphaned)
    BY <1>3, Fields, PrepareFits
  <2>3. Become(prepare_pm(Now))
    BY <1>4 DEF PreWake
  <2> QED
    BY <1>1, <1>2, <2>1, <2>2, <2>3, LoopedAlone
<1>5. CASE SensorTimer
  <2>1. Stays(Now, start_measurement(Now))
    BY Fields, MeasureStays
  <2>2. Now.pm = "Ready" /\ ~Now.pending
    BY <1>5 DEF SensorTimer, Now
  <2>3. task # "none" => Fits(start_measurement(Now), Before, awake, ~Orphaned)
    BY <1>3, <2>2, Fields, MeasureFits
  <2>4. Become(start_measurement(Now))
    BY <1>5 DEF SensorTimer
  <2> QED
    BY <1>1, <1>2, <2>1, <2>3, <2>4, LoopedAlone
<1>6. CASE Shake
  <2> DEFINE asked == [Now EXCEPT !.refresh = TRUE]
  <2>1. /\ asked \in Record /\ asked.pm = Now.pm /\ asked.pending = Now.pending
        /\ asked.power = Now.power /\ asked.slot = Now.slot
    BY Fields DEF Record
  <2>2. Become(try_refresh(asked))
    BY <1>6 DEF Shake
  <2> HIDE DEF asked
  <2>3. Stays(Now, try_refresh(asked))
    BY <2>1, RefreshStays DEF Stays
  <2>4. ASSUME task # "none" PROVE Fits(try_refresh(asked), Before, awake, ~Orphaned)
    <3>1. Fits(asked, Before, awake, ~Orphaned)
      BY <1>3, <2>1, <2>4, SameFields
    <3>2. Fits(try_refresh(asked), Before, awake, ~Orphaned)
      BY <2>4, <3>1, Fields, RefreshFits DEF Fits
    <3> QED
      BY <3>1, <3>2
  <2> QED
    BY <1>1, <1>2, <2>2, <2>3, <2>4, LoopedAlone
<1> QED
  BY <1>4, <1>5, <1>6

LEMMA TestSteps ==
  ASSUME PipeInv, StartTest \/ ActuatorsDone \/ FinishTest
  PROVE  PipeInv' /\ AnswerKept
<1> USE DEF Elsewhere, settingVars
<1>1. Looping
  BY DEF StartTest, ActuatorsDone, FinishTest
<1>2. /\ UNCHANGED <<events, pause, stopping, taskVars>> /\ long' \in BOOLEAN
      /\ clock' \in {"far", "near", "due"} /\ acts' \in 0..MaxActs
  <2>1. acts' \in {acts, acts + 1} /\ (acts' = acts + 1 => acts < MaxActs \/ acts' = acts)
    BY DEF StartTest, ActuatorsDone, FinishTest
  <2>2. MaxActs \in Nat
    BY PipelineAssumption
  <2>3. acts' \in 0..MaxActs
    BY <2>1, <2>2, Fields
  <2> QED
    BY <2>3, Fields DEF StartTest, ActuatorsDone, FinishTest
<1>3. task # "none" => Fits(Now, Before, awake, ~Orphaned)
  BY <1>1, LoopFits
<1> DEFINE at(x) == [Now EXCEPT !.test = x]
<1>4. \A x \in Tests :
        /\ at(x) \in Record /\ at(x).pm = Now.pm /\ at(x).pending = Now.pending
        /\ at(x).power = Now.power /\ at(x).slot = Now.slot
  BY Fields DEF Record
<1>5. ASSUME task # "none" PROVE \A x \in Tests : Fits(at(x), Before, awake, ~Orphaned)
  <2> SUFFICES ASSUME NEW x \in Tests PROVE Fits(at(x), Before, awake, ~Orphaned)
    OBVIOUS
  <2> DEFINE t == at(x)
  <2>1. /\ t \in Record /\ t.pm = Now.pm /\ t.pending = Now.pending
        /\ t.power = Now.power /\ t.slot = Now.slot
    BY <1>4
  <2> HIDE DEF t
  <2>2. Fits(t, Before, awake, ~Orphaned)
    BY <1>3, <1>5, <2>1, SameFields
  <2> QED
    BY <2>2 DEF t
<1>6. CASE StartTest
  <2> DEFINE begun == at("actuators")
  <2>1. begun \in Record /\ Stays(Now, begun)
    BY <1>4 DEF Tests, Stays
  <2>2. Become(prepare_pm(begun))
    BY <1>6 DEF StartTest
  <2>3. task # "none" => Fits(begun, Before, awake, ~Orphaned)
    BY <1>5 DEF Tests
  <2> HIDE DEF begun, at
  <2>4. Stays(Now, prepare_pm(begun))
    BY <2>1, PrepareStays, StaysThrough
  <2>5. ASSUME task # "none" PROVE Fits(prepare_pm(begun), Before, awake, ~Orphaned)
    BY <2>3, <2>5, Fields, PrepareFits DEF Fits
  <2> QED
    BY <1>1, <1>2, <2>2, <2>4, <2>5, LoopedAlone
<1>7. CASE ActuatorsDone
  <2> DEFINE begun == at("waiting")
  <2>1. begun \in Record /\ Stays(Now, begun)
    BY <1>4 DEF Tests, Stays
  <2>2. Become(try_start_peripheral_sensor_test(begun))
    BY <1>7 DEF ActuatorsDone
  <2>3. task # "none" => Fits(begun, Before, awake, ~Orphaned)
    BY <1>5 DEF Tests
  <2> HIDE DEF begun, at
  <2>4. Stays(Now, try_start_peripheral_sensor_test(begun))
    BY <2>1, TestStays, StaysThrough
  <2>5. ASSUME task # "none"
        PROVE  Fits(try_start_peripheral_sensor_test(begun), Before, awake, ~Orphaned)
    BY <2>3, <2>5, Fields, TestFits DEF Fits
  <2> QED
    BY <1>1, <1>2, <2>2, <2>4, <2>5, LoopedAlone
<1>8. CASE FinishTest
  <2> DEFINE ended == at("off")
             tried == try_refresh(ended)
  <2>1. ended \in Record /\ Stays(Now, ended)
    BY <1>4 DEF Tests, Stays
  <2>2. Become(sleep_pm_if_idle(tried))
    BY <1>8 DEF FinishTest, finish_peripheral_test, Now
  <2>3. task # "none" => Fits(ended, Before, awake, ~Orphaned)
    BY <1>5 DEF Tests
  <2> HIDE DEF ended, at
  <2>4. Stays(Now, tried)
    BY <2>1, RefreshStays, StaysThrough
  <2>5. task # "none" => Fits(tried, Before, awake, ~Orphaned)
    BY <2>3, Fields, RefreshFits DEF Fits
  <2> HIDE DEF tried
  <2>6. Stays(Now, sleep_pm_if_idle(tried))
    BY <2>4, SleepStays, StaysThrough DEF Stays
  <2>7. ASSUME task # "none" PROVE Fits(sleep_pm_if_idle(tried), Before, awake, ~Orphaned)
    BY <2>5, <2>7, Fields, SleepIfIdleFits DEF Fits
  <2> QED
    BY <1>1, <1>2, <2>2, <2>6, <2>7, LoopedAlone
<1> QED
  BY <1>6, <1>7, <1>8

LEMMA ChangeSteps ==
  ASSUME PipeInv, IntervalChange \/ ModeChange
  PROVE  PipeInv' /\ AnswerKept
<1>1. Looping /\ long' \in BOOLEAN /\ acts < MaxActs /\ acts' = acts + 1
      /\ UNCHANGED <<events, pause, stopping, taskVars>>
  BY DEF IntervalChange, ModeChange, Change
<1>2. clock' \in {"far", "near", "due"} /\ acts' \in 0..MaxActs
  <2>1. MaxActs \in Nat
    BY PipelineAssumption
  <2>2. acts' \in 0..MaxActs
    BY <1>1, <2>1, Fields
  <2>3. clock' \in {"far", "near", "due"}
    BY <1>1, Fields DEF IntervalChange, ModeChange
  <2> QED
    BY <2>2, <2>3
<1>3. task # "none" => Fits(Now, Before, awake, ~Orphaned)
  BY <1>1, LoopFits
<1>4. Stays(Now, prepare_pm(Now)) /\ Stays(Now, request_sleep(Now)) /\ Stays(Now, Now)
  BY Fields, PrepareStays, SleepStays DEF Stays
<1>5. task # "none" =>
        Fits(prepare_pm(Now), Before, awake, ~Orphaned) /\ Fits(Now, Before, awake, ~Orphaned)
  BY <1>3, Fields, PrepareFits DEF Fits
<1>6. CASE ModeChange
  <2>1. Become(prepare_pm(Now))
    BY <1>6 DEF ModeChange
  <2> QED
    BY <1>1, <1>2, <1>4, <1>5, <2>1, LoopedAlone
<1>7. CASE IntervalChange
  <2> DEFINE idle == ~pending /\ ~refresh /\ test = "off" /\ pm = "Ready"
             reconciled == CASE long' /\ idle -> request_sleep(Now)
                             [] long' /\ ~idle -> Now
                             [] OTHER -> prepare_pm(Now)
  <2>1. Become(try_refresh(reconciled))
    BY <1>7 DEF IntervalChange
  <2>2. reconciled \in {Now, prepare_pm(Now)} \/ (reconciled = request_sleep(Now) /\ idle)
    BY <1>1
  <2>3. idle => Now.pm = "Ready" /\ ~Now.pending
    BY DEF Now
  <2> HIDE DEF idle, reconciled
  <2>4. Stays(Now, reconciled)
    BY <1>4, <2>2
  <2>5. task # "none" /\ idle => Fits(request_sleep(Now), Before, awake, ~Orphaned)
    BY <1>3, <2>3, Fields, SleepFits
  <2>6. task # "none" => Fits(reconciled, Before, awake, ~Orphaned)
    BY <1>5, <2>2, <2>5
  <2>7. Stays(Now, try_refresh(reconciled))
    BY <2>4, RefreshStays, StaysThrough DEF Stays
  <2>8. ASSUME task # "none" PROVE Fits(try_refresh(reconciled), Before, awake, ~Orphaned)
    BY <2>6, <2>8, Fields, RefreshFits DEF Fits
  <2> QED
    BY <1>1, <1>2, <2>1, <2>7, <2>8, LoopedAlone
<1> QED
  BY <1>6, <1>7

LEMMA Ends ==
  ASSUME NEW b \in Seq(Kinds), NEW x \in Kinds
  PROVE  /\ Len(b \o <<x>>) = Len(b) + 1 /\ (b \o <<x>>)[Len(b) + 1] = x /\ Len(b) \in Nat
         /\ \A i \in 1..Len(b) : (b \o <<x>>)[i] = b[i]
OBVIOUS

LEMMA Less ==
  ASSUME NEW n \in Nat, NEW l
  PROVE  /\ n + 1 = 2 => n = 1 /\ 1 \in 1..n /\ l[n + 1] = l[2]
         /\ n + 1 = 3 => n = 2 /\ 1 \in 1..n /\ 2 \in 1..n /\ l[n + 1] = l[3]
OBVIOUS

LEMMA Tuples ==
  ASSUME NEW l, NEW x, NEW y, NEW z
  PROVE  /\ l = <<x, y>> => Len(l) = 2 /\ l[1] = x /\ l[2] = y
         /\ l = <<x, y, z>> => Len(l) = 3 /\ l[1] = x /\ l[2] = y /\ l[3] = z
OBVIOUS

\* A sequence with its last event taken off.
LEMMA Front2 ==
  ASSUME NEW b \in Seq(Kinds), NEW x \in Kinds, NEW y \in Kinds, NEW z \in Kinds,
         b \o <<x>> = <<y, z>>
  PROVE  b = <<y>> /\ x = z
<1> DEFINE l == b \o <<x>>
           n == Len(b)
<1>1. Len(l) = 2 /\ l[1] = y /\ l[2] = z
  BY Tuples
<1>2. n \in Nat /\ Len(l) = n + 1 /\ l[n + 1] = x /\ \A i \in 1..n : l[i] = b[i]
  BY Ends
<1> HIDE DEF l, n
<1>3. n + 1 = 2
  BY <1>1, <1>2
<1>4. n = 1 /\ 1 \in 1..n /\ l[n + 1] = l[2]
  BY <1>2, <1>3, Less
<1>5. b[1] = y /\ x = z
  BY <1>1, <1>2, <1>4, Zenon
<1> QED
  BY <1>4, <1>5, ShortSequences, Zenon DEF n

LEMMA Front3 ==
  ASSUME NEW b \in Seq(Kinds), NEW x \in Kinds,
         NEW w \in Kinds, NEW y \in Kinds, NEW z \in Kinds, b \o <<x>> = <<w, y, z>>
  PROVE  b = <<w, y>> /\ x = z
<1> DEFINE l == b \o <<x>>
           n == Len(b)
<1>1. Len(l) = 3 /\ l[1] = w /\ l[2] = y /\ l[3] = z
  BY Tuples
<1>2. n \in Nat /\ Len(l) = n + 1 /\ l[n + 1] = x /\ \A i \in 1..n : l[i] = b[i]
  BY Ends
<1> HIDE DEF l, n
<1>3. n + 1 = 3
  BY <1>1, <1>2
<1>4. n = 2 /\ 1 \in 1..n /\ 2 \in 1..n /\ l[n + 1] = l[3]
  BY <1>2, <1>3, Less
<1>5. b[1] = w /\ b[2] = y /\ x = z
  BY <1>1, <1>2, <1>4, Zenon
<1> QED
  BY <1>4, <1>5, ShortSequences, Zenon DEF n

LEMMA ThreeLong ==
  ASSUME NEW b \in Seq(Kinds), NEW x \in Kinds, NEW y \in Kinds, NEW z \in Kinds,
         Len(b) = 3, b[1] = x, b[2] = y, b[3] = z
  PROVE  b = <<x, y, z>>
OBVIOUS

LEMMA Joined ==
  ASSUME NEW x \in Kinds, NEW y \in Kinds, NEW z \in Kinds
  PROVE  <<x>> \o <<y>> = <<x, y>> /\ <<x, y>> \o <<z>> = <<x, y, z>>
<1>1. <<x>> \o <<y>> = <<x, y>>
  <2> DEFINE a == <<x>>
             b == a \o <<y>>
  <2>1. a \in Seq(Kinds) /\ Len(a) = 1 /\ a[1] = x
    OBVIOUS
  <2> HIDE DEF a
  <2>2. b \in Seq(Kinds)
    BY <2>1
  <2>4. /\ Len(b) = Len(a) + 1 /\ b[Len(a) + 1] = y
        /\ \A i \in 1..Len(a) : b[i] = a[i]
    BY <2>1, Ends, Zenon
  <2> HIDE DEF b
  <2>3. Len(b) = 2 /\ b[2] = y /\ b[1] = x
    BY <2>1, <2>4
  <2> QED
    BY <2>2, <2>3, ShortSequences DEF a, b
<1>2. <<x, y>> \o <<z>> = <<x, y, z>>
  <2> DEFINE a == <<x, y>>
             b == a \o <<z>>
  <2>1. a \in Seq(Kinds) /\ Len(a) = 2 /\ a[1] = x /\ a[2] = y
    OBVIOUS
  <2> HIDE DEF a
  <2>2. b \in Seq(Kinds)
    BY <2>1
  <2>5. /\ Len(b) = Len(a) + 1 /\ b[Len(a) + 1] = z
        /\ \A i \in 1..Len(a) : b[i] = a[i]
    BY <2>1, Ends, Zenon
  <2> HIDE DEF b
  <2>3. Len(b) = 3 /\ b[3] = z /\ b[1] = x /\ b[2] = y
    BY <2>1, <2>5
  <2>4. b = <<x, y, z>>
    BY <2>2, <2>3, ThreeLong
  <2> QED
    BY <2>4 DEF a, b
<1> QED
  BY <1>1, <1>2

\* What can come before the answer to a command that waits.
LEMMA LastAnswer ==
  ASSUME NEW b \in Seq(Kinds), NEW c \in Tracked, b \o Answers(c) \in Lines
  PROVE  /\ b # <<>> => c = "measure" /\ b \in Boundaries /\ b \o Answers(c) \in BootReadings
         /\ b = <<>> => b \o Answers(c) = Answers(c)
<1> DEFINE l == b \o Answers(c)
<1>1. b = <<>> => l = Answers(c)
  BY AnswersKinds, EmptyParts
<1>2. ASSUME NEW x \in Kinds, Answers(c) = <<x>>, b # <<>>
      PROVE  /\ x = "data" /\ b \in Boundaries /\ l \in BootReadings
             \/ x = "prepared"
  <2>1. b \o <<x>> = l
    BY <1>2
  <2>2. Len(l) # 0 /\ Len(l) # 1 /\ l \in Lines
    BY <1>2
  <2>7. "started" \in Kinds /\ "prepared" \in Kinds /\ "data" \in Kinds
    BY KindsOf
  <2> HIDE DEF l
  <2>3. ~(Len(l) = 0 \/ Len(l) = 1)
    BY <2>2, Zenon
  <2>4. CASE l = <<"started", "prepared">>
    <3>1. b \o <<x>> = <<"started", "prepared">>
      BY <2>1, <2>4, Zenon
    <3> QED
      BY <2>7, <3>1, Front2
  <2>5. CASE l = <<"prepared", "data">>
    <3>1. b \o <<x>> = <<"prepared", "data">>
      BY <2>1, <2>5, Zenon
    <3>2. b = <<"prepared">> /\ x = "data"
      BY <2>7, <3>1, Front2
    <3> QED
      BY <2>5, <3>2, LineSorts, Zenon
  <2>6. CASE l = <<"started", "prepared", "data">>
    <3>1. b \o <<x>> = <<"started", "prepared", "data">>
      BY <2>1, <2>6, Zenon
    <3>2. b = <<"started", "prepared">> /\ x = "data"
      BY <2>7, <3>1, Front3
    <3> QED
      BY <2>6, <3>2, LineSorts, Zenon
  <2> QED
    BY <2>2, <2>3, <2>4, <2>5, <2>6, LineLengths, Zenon
<1>3. ASSUME Answers(c) = <<"started", "prepared">>, b # <<>>
      PROVE  FALSE
  <2>1. /\ Len(l) = Len(b) + 2 /\ l[Len(l)] = "prepared" /\ Len(b) >= 1
    BY <1>3
  <2>2. l \in Lines
    OBVIOUS
  <2> HIDE DEF l
  <2>3. l # <<"started", "prepared", "data">>
    BY <2>1
  <2>4. Len(l) \in {0, 1, 2}
    BY <2>2, <2>3, LineLengths, Zenon
  <2> QED
    BY <2>1, <2>4
<1>4. b # <<>> => c = "measure" /\ b \in Boundaries /\ l \in BootReadings
  <2>1. CASE c = "measure"
    <3>1. Answers(c) = <<"data">> /\ "data" \in Kinds
      BY <2>1, KindsOf DEF Answers
    <3> QED
      BY <1>2, <2>1, <3>1
  <2>2. CASE c = "test"
    <3>1. Answers(c) = <<"tested">> /\ "tested" \in Kinds
      BY <2>2, KindsOf DEF Answers
    <3> QED
      BY <1>2, <3>1
  <2>3. CASE c = "sleep"
    <3>1. Answers(c) = <<"asleep">> /\ "asleep" \in Kinds
      BY <2>3, KindsOf DEF Answers
    <3> QED
      BY <1>2, <3>1
  <2>4. CASE c = "prepare"
    BY <1>3, <2>4 DEF Answers
  <2> QED
    BY <2>1, <2>2, <2>3, <2>4 DEF Tracked
<1> QED
  BY <1>1, <1>4

-----------------------------------------------------------------------------
(* Settings, pauses and the passing of time.                                *)

\* A setting may take the place of a command; what is left of the line agrees.
LEMMA SettingStep ==
  ASSUME PipeInv, Setting
  PROVE  PipeInv' /\ AnswerKept
<1> USE DEF Elsewhere, settingVars, taskVars, policyVars
<1>1. /\ Looping /\ task # "none" /\ slot' = "setting"
      /\ UNCHANGED <<pm, pending, refresh, test, power, events, awake, pause, stopping, task,
                     warmup, running, clock, long, acts>>
  BY DEF Setting
<1>2. pause = "no" /\ running /\ Fits(Now, Before, awake, ~Orphaned)
  BY <1>1, LoopFits
<1> DEFINE t == [Now EXCEPT !.slot = "setting"]
<1>3. /\ t \in Record /\ t.pm = pm /\ t.pending = pending /\ t.power = power
      /\ t.slot = "setting" /\ t.refresh = refresh /\ t.test = test
  BY Fields DEF Record, Slots, Commands, Now
<1>4. Before' = Before /\ Before \in Seq(Kinds)
  BY <1>1, Fields DEF Before
<1>5. Says(Now, Before, Before \o Answers(slot), awake)
  BY <1>2 DEF Fits, Agrees, Now
<1>6. "setting" \notin Tracked /\ Answers("setting") = <<>> /\ Before \o <<>> = Before
  BY <1>4, EmptyParts DEF Tracked, Answers
<1>7. Says(t, Before, Before, awake)
  <2>1. CASE slot \in Tracked
    <3>1. /\ Before # <<>> => Before \in Boundaries /\ Before \o Answers(slot) \in BootReadings
          /\ Before = <<>> => Before \o Answers(slot) = Answers(slot)
      BY <1>4, <1>5, <2>1, LastAnswer DEF Says
    <3>2. CASE Before = <<>>
      BY <1>3, <1>5, <1>6, <3>2, LineSorts DEF Says, Now
    <3>3. CASE Before # <<>>
      <4>1. pm = "Preparing" /\ Before \in Boundaries /\ slot # "prepare"
        <5>1. slot = "measure"
          BY <1>4, <1>5, <2>1, <3>3, LastAnswer DEF Says
        <5> QED
          BY <1>5, <3>1, <3>3, <5>1 DEF Says, Now
      <4>2. Before \o Answers(slot) # <<>>
        BY <3>1, <3>3, LineSorts
      <4> QED
        BY <1>3, <1>5, <1>6, <4>1, <4>2, LineSorts DEF Says, Now
    <3> QED
      BY <3>2, <3>3
  <2>2. CASE slot \notin Tracked
    <3>1. Before \o Answers(slot) = Before /\ slot # "prepare"
      BY <1>4, <2>2, TrackedAnswers, EmptyParts DEF Tracked
    <3> QED
      BY <1>3, <1>5, <1>6, <3>1 DEF Says, Now
  <2> QED
    BY <2>1, <2>2
<1>8. Now' = t
  BY <1>1 DEF Now
<1>9. Says(Now, Before, Before \o Answers(slot), awake)'
  <2> HIDE DEF t
  <2>1. (Before \o Answers(slot))' = Before
    BY <1>1, <1>4, <1>6
  <2> QED
    BY <1>1, <1>4, <1>7, <1>8, <2>1 DEF Says, Warming
<1>10. FieldTypes'
  BY <1>1, <1>3, <1>8 DEF PipeInv, FieldTypes
<1>11. PauseInv' /\ LineInv'
  <2>1. LineInv'
    BY <1>1, <1>2, <1>4, <1>9 DEF PipeInv, LineInv, Agrees, Now
  <2> QED
    BY <1>1, <1>2, <2>1 DEF PipeInv, PauseInv, Looping
<1>12. AnswerKept
  <2>1. CASE slot \in Tracked
    BY <1>1, <2>1 DEF AnswerKept
  <2>2. CASE slot \notin Tracked
    <3>1. Line' = Line
      BY <1>1, <1>4, <1>6, <2>2, TrackedAnswers DEF Line
    <3> QED
      BY <1>1, <3>1, LineKeeps
  <2> QED
    BY <2>1, <2>2
<1> QED
  BY <1>10, <1>11, <1>12 DEF PipeInv

LEMMA PauseStep ==
  ASSUME PipeInv, NEW why \in {"setup", "update"}, Pause(why)
  PROVE  PipeInv' /\ AnswerKept
<1> USE DEF Pause, settingVars
<1>1. FieldTypes'
  BY DEF PipeInv, FieldTypes, Now, Record, Slots
<1>2. PauseInv'
  BY DEF PipeInv, FieldTypes, PauseInv, Looping
<1>3. LineInv'
  <2>1. Before' = Before
    BY DEF Before
  <2> QED
    BY <2>1 DEF PipeInv, LineInv
<1>4. AnswerKept
  BY PauseKeeps
<1> QED
  BY <1>1, <1>2, <1>3, <1>4 DEF PipeInv

LEMMA StoppedStep == ASSUME PipeInv, Stopped PROVE PipeInv' /\ AnswerKept
<1> USE DEF Stopped, settingVars
<1>1. FieldTypes'
  BY DEF PipeInv, FieldTypes, Now, Record, Slots, PmStates, Tests, Tasks
<1>2. PauseInv' /\ LineInv'
  BY DEF PipeInv, PauseInv, LineInv
<1> QED
  BY <1>1, <1>2 DEF PipeInv, AnswerKept

\* A new task boots with a measurement waiting for it, and nothing of the old one is queued.
LEMMA ResumeStep ==
  ASSUME AlwaysInv, Resume, ~mixed'
  PROVE  PipeInv' /\ AnswerKept
<1> USE DEF settingVars
<1>1. /\ ~stopping /\ pause # "no" /\ task = "none" /\ slot = "none"
  BY DEF Resume, AlwaysInv
<1>2. events' = <<>>
  BY DEF Resume
<1>3. clock' \in {"far", "near", "due"}
  BY DEF Resume, AlwaysInv, Rested
<1>4. PICK created \in BOOLEAN :
        /\ running' = created
        /\ IF created THEN task' = "booting" /\ warmup' = FALSE /\ slot' = "measure"
           ELSE UNCHANGED <<task, warmup, slot>>
  BY DEF Resume
<1>5. /\ pause' = "no" /\ power' = TRUE /\ awake' = FALSE /\ pm' = "Preparing"
      /\ pending' = TRUE /\ UNCHANGED <<refresh, test, stopping, long, acts>>
  BY DEF Resume
<1>7. Now' \in Record
  BY <1>1, <1>4, <1>5 DEF AlwaysInv, Now, Record, Slots, Commands, Tracked, PmStates
<1>8. FieldTypes'
  <2>1. events' \in Seq(Kinds) /\ Len(events') <= 3
    BY <1>2, Sequences
  <2>2. task' \in Tasks /\ {stopping, long, warmup, running, awake}' \subseteq BOOLEAN
    BY <1>4, <1>5 DEF AlwaysInv, Tasks
  <2> QED
    BY <1>3, <1>5, <1>7, <2>1, <2>2 DEF AlwaysInv, FieldTypes
<1>9. PauseInv'
  BY <1>1, <1>2, <1>4, <1>5 DEF PauseInv
<1>10. LineInv' /\ AnswerKept
  <2>1. CASE ~created
    BY <1>1, <1>4, <2>1 DEF LineInv, AnswerKept
  <2>2. CASE created
    <3>1. task' = "booting" /\ warmup' = FALSE /\ slot' = "measure" /\ running' = TRUE
      BY <1>4, <2>2
    <3>2. Before' = <<"started", "prepared">>
      <4>1. Doing(task', warmup') = <<"started", "prepared">>
        BY <3>1 DEF Doing
      <4> QED
        BY <1>2, <4>1 DEF Before
    <3>3. Before' \o Answers(slot') = <<"started", "prepared", "data">>
      <4>1. Answers(slot') = <<"data">>
        BY <3>1 DEF Answers
      <4>2. <<"started", "prepared">> \o <<"data">> = <<"started", "prepared", "data">>
        BY Joined, KindsOf
      <4> QED
        BY <3>2, <4>1, <4>2, Zenon
    <3>4. Len(Before') <= 3
      BY <3>2
    <3>5. Before' \o Answers(slot') \in BootReadings
      BY <3>3, LineSorts
    <3>6. Says(Now, Before, Before \o Answers(slot), awake)'
      BY <1>5, <3>1, <3>5, LineSorts DEF Says, Warming, Now
    <3>7. ~Orphaned'
      <4> DEFINE l == Line'
      <4>1. l = <<"started", "prepared", "data">>
        BY <3>3 DEF Line
      <4>2. Brings(l, "data") /\ Brings(l, "prepared")
        BY <4>1 DEF Brings
      <4>3. \A x : Brings(Line, x)' <=> Brings(l, x)
        BY DEF Brings
      <4> HIDE DEF l
      <4> QED
        BY <1>5, <4>2, <4>3 DEF Orphaned
    <3> QED
      BY <1>5, <3>1, <3>4, <3>6, <3>7 DEF LineInv, Agrees, Now, AnswerKept
  <2> QED
    BY <2>1, <2>2
<1> QED
  BY <1>8, <1>9, <1>10 DEF PipeInv

LEMMA TimeStep == ASSUME PipeInv, TimePasses PROVE PipeInv' /\ AnswerKept
<1> USE DEF TimePasses, settingVars, taskVars, policyVars
<1>1. /\ Now' = Now /\ Before' = Before /\ clock' \in {"far", "near", "due"}
      /\ UNCHANGED <<pause, stopping, long, acts, events, slot, task, warmup, running, awake>>
  BY DEF Now, Before
<1>2. FieldTypes' /\ PauseInv'
  BY <1>1 DEF PipeInv, FieldTypes, PauseInv
<1>3. LineInv'
  BY <1>1 DEF PipeInv, LineInv, Agrees, Says, Warming
<1>4. AnswerKept
  BY <1>1, LineKeeps DEF Line, TimePasses
<1> QED
  BY <1>2, <1>3, <1>4 DEF PipeInv

-----------------------------------------------------------------------------
(* The steps of the task: answers move, and none is added.                  *)

LEMMA TaskMoves ==
  ASSUME PipeInv, task # "none", TaskOnly, task' \in Tasks \ {"none"}, slot' \in {slot, "none"},
         warmup' \in BOOLEAN, awake' \in BOOLEAN, events' \in Seq(Kinds), Len(Before') <= 3,
         warmup' => task' \in {"idle", "ended"},
         pause = "no" => Says(Now, Before, Before \o Answers(slot), awake)',
         \/ pause # "no" \/ (Before \o Answers(slot))' = Before \o Answers(slot)
         \/ task = "testing" /\ task' = "idle" /\ events' = events
  PROVE  PipeInv' /\ AnswerKept
<1> USE DEF TaskOnly, policyVars, settingVars
<1>1. Now' \in Record
  BY DEF PipeInv, FieldTypes, Now, Record, Slots
<1>2. Len(events') <= 3
  <2>1. Before' = events' \o Doing(task', warmup') /\ Doing(task', warmup') \in Seq(Kinds)
    BY DoingKinds DEF Before
  <2> DEFINE d == Doing(task', warmup')
             e == events'
  <2>2. d \in Seq(Kinds) /\ e \in Seq(Kinds) /\ Len(e \o d) <= 3
    BY <2>1
  <2> HIDE DEF d, e
  <2>3. Len(e) <= 3
    BY <2>2
  <2> QED
    BY <2>3 DEF e
<1>3. FieldTypes'
  BY <1>1, <1>2 DEF PipeInv, FieldTypes
<1>4. PauseInv'
  BY DEF PipeInv, PauseInv
<1>5. LineInv'
  BY DEF PipeInv, LineInv, Agrees, Now
<1>6. AnswerKept
  <2>1. CASE pause # "no"
    BY <2>1, PauseKeeps
  <2>2. CASE (Before \o Answers(slot))' = Before \o Answers(slot)
    BY <2>2, LineKeeps DEF Line
  <2>3. CASE task = "testing" /\ task' = "idle" /\ events' = events
    BY <2>3 DEF AnswerKept
  <2> QED
    BY <2>1, <2>2, <2>3
<1> QED
  BY <1>3, <1>4, <1>5, <1>6 DEF PipeInv

\* While the task runs, the line it works on is known.
LEMMA TaskLine ==
  ASSUME PipeInv, task # "none"
  PROVE  /\ events \in Seq(Kinds) /\ Before \in Seq(Kinds) /\ Len(Before) <= 3
         /\ Before = events \o Doing(task, warmup) /\ Doing(task, warmup) \in Seq(Kinds)
         /\ warmup => task \in {"idle", "ended"}
         /\ {warmup, awake, power, running} \subseteq BOOLEAN /\ slot \in Slots
         /\ pause = "no" => running /\ Says(Now, Before, Before \o Answers(slot), awake)
         /\ pause # "no" => ~running
BY DoingKinds, Fields
   DEF PipeInv, FieldTypes, PauseInv, LineInv, Before, Agrees, Now, Record

\* An answer that is posted keeps its place in the line.
LEMMA Posted ==
  ASSUME PipeInv, NEW at \in Tasks \ {"none"}, NEW event \in Kinds,
         NEW next \in Tasks \ {"none", "preparing"}, Post(at, event, next),
         Doing(at, warmup) = <<event>> \o Doing(next, warmup'),
         warmup' \in BOOLEAN, warmup' => at = "preparing" /\ next = "idle",
         awake' = power \/ (awake' = awake /\ at \notin {"booting", "preparing"})
  PROVE  PipeInv' /\ AnswerKept
<1>1. /\ task = at /\ task' = next /\ events' = Append(events, event) /\ slot' = slot /\ TaskOnly
      /\ UNCHANGED <<pm, pending, power, pause>>
  BY DEF Post, TaskOnly, policyVars
<1>2. events' \in Seq(Kinds) /\ Before' = Before
  <2> DEFINE r == Doing(next, warmup')
  <2>1. r \in Seq(Kinds) /\ Doing(at, warmup) = <<event>> \o r
    BY DoingKinds
  <2>2. Before' = Append(events, event) \o r /\ Before = events \o (<<event>> \o r)
    BY <1>1, <2>1, TaskLine DEF Before
  <2> HIDE DEF r
  <2>3. Append(events, event) \o r = events \o (<<event>> \o r)
    BY <1>1, <2>1, TaskLine, MovedAnswer
  <2>4. events' \in Seq(Kinds)
    BY <1>1, TaskLine
  <2> QED
    BY <2>2, <2>3, <2>4
<1>3. awake' \in BOOLEAN
  BY <1>1, TaskLine
<1>4. ASSUME pause = "no"
      PROVE  Says(Now, Before, Before \o Answers(slot), awake)'
  <2> DEFINE line == Before \o Answers(slot)
  <2>1. Says(Now, Before, line, awake)
    BY <1>1, <1>4, TaskLine
  <2>2. (Before \o Answers(slot))' = line
    BY <1>1, <1>2
  <2> HIDE DEF line
  <2>3. warmup' \/ task' = "preparing" => Before # <<>> /\ slot \notin Tracked
    <3>1. task' # "preparing" /\ (warmup' => Warming)
      BY <1>1 DEF Warming
    <3>2. Warming => Before # <<>> /\ slot \notin Tracked
      BY <2>1 DEF Says, Now
    <3> QED
      BY <3>1, <3>2
  <2> QED
    BY <1>1, <1>2, <1>4, <2>1, <2>2, <2>3 DEF Says, Warming, Now
<1> QED
  BY <1>1, <1>2, <1>3, <1>4, TaskLine, TaskMoves

LEMMA PostSteps ==
  ASSUME PipeInv, \/ Boot \/ handle_prepare \/ handle_pm_sleep \/ handle_measurement
                  \/ Post("warmed", "prepared", "idle") /\ UNCHANGED <<warmup, awake>>
                  \/ Post("testing", "tested", "idle") /\ UNCHANGED <<warmup, awake>>
  PROVE  PipeInv' /\ AnswerKept
<1>1. /\ <<"started">> \o <<"prepared">> = <<"started", "prepared">>
      /\ \A x \in Kinds : <<x>> \o <<>> = <<x>>
  BY Joined, EmptyParts, Sequences, KindsOf
<1>2. warmup = FALSE
  BY TaskLine DEF Boot, handle_prepare, handle_pm_sleep, handle_measurement, Post
<1>3. /\ Doing("idle", FALSE) = <<>> /\ Doing("idle", TRUE) = <<"prepared">>
      /\ "started" \in Kinds /\ "prepared" \in Kinds /\ "asleep" \in Kinds
      /\ "data" \in Kinds /\ "tested" \in Kinds
  BY KindsOf DEF Doing
<1>4. CASE Post("booting", "started", "warming") /\ awake' = power /\ UNCHANGED warmup
  <2>1. /\ Doing("booting", warmup) = <<"started", "prepared">>
        /\ Doing("warming", warmup') = <<"prepared">>
    BY DEF Doing
  <2>2. Doing("booting", warmup) = <<"started">> \o Doing("warming", warmup')
    BY <1>1, <2>1
  <2> QED
    BY <1>2, <1>4, <2>2, <1>2, <1>3, Posted DEF Tasks
<1>5. CASE \E at \in {"warming", "warmed"} :
             Post(at, "prepared", "idle") /\ UNCHANGED <<warmup, awake>>
  <2>1. PICK at \in {"warming", "warmed"} :
               Post(at, "prepared", "idle") /\ UNCHANGED <<warmup, awake>>
    BY <1>5
  <2>2. Doing(at, warmup) = <<"prepared">> /\ warmup' = FALSE
    BY <1>2, <2>1 DEF Doing
  <2>3. Doing(at, warmup) = <<"prepared">> \o Doing("idle", warmup')
    BY <1>1, <1>3, <2>2, Zenon
  <2> QED
    BY <2>1, <2>2, <2>3, <1>2, <1>3, Posted DEF Tasks
<1>6. CASE handle_prepare
  <2>1. Doing("preparing", warmup) = <<"started", "prepared">> /\ warmup' = TRUE
    BY <1>6 DEF Doing, handle_prepare
  <2>2. Doing("preparing", warmup) = <<"started">> \o Doing("idle", warmup')
    BY <1>1, <1>3, <2>1, Zenon
  <2> QED
    BY <1>6, <2>1, <2>2, <1>2, <1>3, Posted DEF Tasks, handle_prepare
<1>7. CASE handle_pm_sleep
  <2>1. Doing("sleeping", warmup) = <<"asleep">> /\ warmup' = FALSE
    BY <1>2, <1>7 DEF Doing, handle_pm_sleep
  <2>2. Doing("sleeping", warmup) = <<"asleep">> \o Doing("idle", warmup')
    BY <1>1, <1>3, <2>1, Zenon
  <2> QED
    BY <1>7, <2>1, <2>2, <1>2, <1>3, Posted DEF Tasks, handle_pm_sleep
<1>8. CASE handle_measurement
  <2>1. Doing("measuring", warmup) = <<"data">> /\ warmup' = FALSE
    BY <1>2, <1>8 DEF Doing, handle_measurement
  <2>2. Doing("measuring", warmup) = <<"data">> \o Doing("idle", warmup')
    BY <1>1, <1>3, <2>1, Zenon
  <2> QED
    BY <1>8, <2>1, <2>2, <1>2, <1>3, Posted DEF Tasks, handle_measurement
<1>9. CASE Post("testing", "tested", "idle") /\ UNCHANGED <<warmup, awake>>
  <2>1. Doing("testing", warmup) = <<"tested">> /\ warmup' = FALSE
    BY <1>2, <1>9 DEF Doing
  <2>2. Doing("testing", warmup) = <<"tested">> \o Doing("idle", warmup')
    BY <1>1, <1>3, <2>1, Zenon
  <2> QED
    BY <1>9, <2>1, <2>2, <1>2, <1>3, Posted DEF Tasks
<1> QED
  BY <1>4, <1>5, <1>6, <1>7, <1>8, <1>9 DEF Boot

\* The result of the sweep is lost: it was the last of the line.
LEMMA LostStep ==
  ASSUME PipeInv, task = "testing", task' = "idle", events' = events, TaskOnly,
         UNCHANGED <<slot, warmup, awake>>
  PROVE  PipeInv' /\ AnswerKept
<1>1. warmup = FALSE /\ warmup' = FALSE
  BY TaskLine
<1>2. Before' = events /\ events \in Seq(Kinds) /\ Len(events) <= 3
  <2>1. Doing("idle", FALSE) = <<>>
    BY DEF Doing
  <2>2. Before' = events \o Doing("idle", FALSE)
    BY <1>1 DEF Before
  <2> QED
    BY <2>1, <2>2, TaskLine, EmptyParts DEF PipeInv, FieldTypes
<1>3. ASSUME pause = "no"
      PROVE  Says(Now, Before, Before \o Answers(slot), awake)'
  <2>1. Says(Now, Before, Before \o Answers(slot), awake)
    BY <1>3, TaskLine
  <2>2. Before = events \o Answers("test") /\ Answers("test") = <<"tested">> /\ "test" \in Tracked
    BY TaskLine DEF Doing, Answers, Tracked
  <2>3. Before # <<>>
    <3>1. Answers("test") # <<>>
      BY <2>2, TrackedAnswers
    <3> QED
      BY <1>2, <2>2, <3>1, AnswersKinds, NoAnswer
  <2>4. slot \notin Tracked
    <3>1. SUFFICES ASSUME slot \in Tracked PROVE FALSE
      OBVIOUS
    <3>2. Before \in Boundaries
      BY <2>1, <2>3, <3>1, TaskLine, LastAnswer DEF Says
    <3>3. events # <<>> => Before \in BootReadings
      BY <1>2, <2>2, <3>2, LineSorts, LastAnswer
    <3>4. events = <<>> => Before \in Results
      BY <2>2, EmptyParts, AnswersKinds, LineSorts
    <3> QED
      BY <3>2, <3>3, <3>4, LineSorts
  <2>5. Before \o Answers(slot) = Before /\ Answers(slot) = <<>>
    BY <2>4, TrackedAnswers, TaskLine, EmptyParts
  <2>6. events = <<>>
    BY <1>2, <2>1, <2>2, <2>5, LastAnswer DEF Says
  <2>7. (Before \o Answers(slot))' = <<>> /\ slot # "prepare" /\ ~Warming'
    BY <1>1, <1>2, <2>4, <2>5, <2>6, EmptyParts, Sequences DEF Tracked, Warming
  <2>8. /\ Now' = Now /\ awake' = awake
    BY DEF TaskOnly, policyVars, Now
  <2> QED
    BY <1>1, <2>1, <2>7, <2>8, LineSorts DEF Says, Now
<1>4. /\ Len(Before') <= 3 /\ events' \in Seq(Kinds) /\ awake' \in BOOLEAN
      /\ warmup' \in BOOLEAN /\ task' \in Tasks \ {"none"}
  BY <1>1, <1>2, TaskLine DEF Tasks
<1> QED
  BY <1>1, <1>3, <1>4, TaskMoves

LEMMA SelfTestStep == ASSUME PipeInv, handle_self_test PROVE PipeInv' /\ AnswerKept
<1>1. CASE events' = events
  BY <1>1, LostStep DEF handle_self_test
<1>2. CASE Room /\ events' = Append(events, "tested")
  BY <1>2, PostSteps DEF handle_self_test, Post
<1> QED
  BY <1>1, <1>2 DEF handle_self_test

LEMMA WarmupStep == ASSUME PipeInv, WarmupEnds PROVE PipeInv' /\ AnswerKept
<1>1. CASE Post("warmed", "prepared", "idle") /\ UNCHANGED <<warmup, awake>>
  BY <1>1, PostSteps
<1>2. CASE /\ task = "idle" /\ warmup /\ task' = "warmed" /\ warmup' = FALSE
           /\ TaskOnly /\ UNCHANGED <<events, slot, awake>>
  <2>1. Before' = Before /\ Before \in Seq(Kinds) /\ Len(Before) <= 3
    <3>1. Doing(task, warmup) = <<"prepared">> /\ Doing(task', warmup') = <<"prepared">>
      BY <1>2 DEF Doing
    <3> QED
      BY <1>2, <3>1, TaskLine DEF Before
  <2>2. ASSUME pause = "no"
        PROVE  Says(Now, Before, Before \o Answers(slot), awake)'
    <3>1. Says(Now, Before, Before \o Answers(slot), awake)
      BY <1>2, <2>2, TaskLine
    <3>2. (Before \o Answers(slot))' = Before \o Answers(slot) /\ ~Warming'
      BY <1>2, <2>1 DEF Warming
    <3>3. Now' = Now
      BY <1>2 DEF TaskOnly, policyVars, Now
    <3> QED
      BY <1>2, <2>1, <3>1, <3>2, <3>3 DEF Says, Now
  <2>3. /\ events' \in Seq(Kinds) /\ awake' \in BOOLEAN
        /\ warmup' \in BOOLEAN /\ task' \in Tasks \ {"none"} /\ warmup' = FALSE
    BY <1>2, TaskLine DEF Tasks
  <2> QED
    BY <1>2, <2>1, <2>2, <2>3, TaskMoves
<1> QED
  BY <1>1, <1>2 DEF WarmupEnds

\* The command is taken: its answer is what the task is now doing.
LEMMA TakeStep == ASSUME PipeInv, Take PROVE PipeInv' /\ AnswerKept
<1>1. /\ task = "idle" /\ slot # "none" /\ slot' = "none" /\ events' = events /\ TaskOnly
      /\ events \in Seq(Kinds) /\ Len(events) <= 3 /\ events \o <<>> = events
  BY TaskLine, EmptyParts DEF Take, PipeInv, FieldTypes
<1>2. /\ warmup' \in BOOLEAN /\ awake' \in BOOLEAN /\ (warmup' => warmup)
      /\ Answers("none") = <<>>
  BY <1>1, TaskLine DEF Take, Answers
<1>3. CASE ~running
  <2>1. task' = "ended" /\ pause # "no"
    BY <1>1, <1>3, TaskLine DEF Take
  <2>2. Before' = events
    <3>1. Doing("ended", warmup') = <<>>
      BY DEF Doing
    <3> QED
      BY <1>1, <2>1, <3>1 DEF Before
  <2>3. task' \in Tasks \ {"none"}
    BY <2>1 DEF Tasks
  <2> QED
    BY <1>1, <1>2, <2>1, <2>2, <2>3, TaskMoves
<1>4. CASE running
  <2>1. /\ pause = "no" /\ Says(Now, Before, Before \o Answers(slot), awake)
        /\ Before \in Seq(Kinds) /\ Len(Before) <= 3
    BY <1>1, <1>4, TaskLine
  <2>2. Now' = [Now EXCEPT !.slot = "none"] /\ Now.slot = slot
    BY <1>1 DEF TaskOnly, policyVars, Now
  <2>3. CASE slot \notin Tracked
    <3>1. task' = "idle" /\ warmup' = warmup /\ awake' = awake
      BY <1>1, <1>4, <2>3, TaskLine DEF Take, Tracked
    <3>2. Before' = Before
      BY <1>1, <3>1 DEF Before
    <3>3. Before \o Answers(slot) = Before /\ (Before \o Answers(slot))' = Before
      BY <1>1, <1>2, <2>1, <2>3, <3>2, TrackedAnswers, EmptyParts
    <3>4. Says(Now, Before, Before \o Answers(slot), awake)'
      <4>1. Says(Now, Before, Before, awake)
        BY <2>1, <3>3
      <4> QED
        BY <1>1, <2>2, <2>3, <3>1, <3>2, <3>3, <4>1 DEF Says, Warming, Now, Tracked
    <3>5. task' \in Tasks \ {"none"}
      BY <3>1 DEF Tasks
    <3>6. (Before \o Answers(slot))' = Before \o Answers(slot)
      BY <3>3
    <3>7. warmup' => task' \in {"idle", "ended"}
      BY <3>1
    <3> QED
      BY <1>1, <1>2, <2>1, <3>2, <3>4, <3>5, <3>6, <3>7, TaskMoves
  <2>4. CASE slot \in Tracked
    <3> DEFINE line == Before \o Answers(slot)
    <3>1. warmup = FALSE /\ warmup' = FALSE
      BY <1>1, <1>2, <2>1, <2>4, TaskLine DEF Says, Warming, Now
    <3>2. /\ \/ slot = "measure" /\ task' = "measuring"
             \/ slot = "test" /\ task' = "testing"
             \/ slot = "prepare" /\ task' = "preparing"
             \/ slot = "sleep" /\ task' = "sleeping"
          /\ slot # "sleep" => awake' = awake
      <4>1. slot # "sleep" => awake' = awake
        BY <1>4, TaskLine DEF Take
      <4>2. CASE slot = "measure"
        BY <1>4, <4>1, <4>2 DEF Take
      <4>3. CASE slot = "test"
        BY <1>4, <4>1, <4>3 DEF Take
      <4>4. CASE slot = "prepare"
        BY <1>4, <3>1, <4>1, <4>4 DEF Take
      <4>5. CASE slot = "sleep"
        BY <1>4, <4>1, <4>5 DEF Take
      <4> QED
        BY <2>4, <4>2, <4>3, <4>4, <4>5 DEF Tracked
    <3>3. Doing(task', warmup') = Answers(slot) /\ Doing(task, warmup) = <<>>
      BY <1>1, <3>1, <3>2 DEF Doing, Answers
    <3>4. Before = events /\ Before' = line
      BY <1>1, <3>3 DEF Before
    <3>5. line \in Seq(Kinds) /\ line \in Lines /\ line # <<>> /\ Len(line) <= 3
      <4>1. line \in Lines
        BY <2>1 DEF Says
      <4>2. line # <<>>
        BY <2>1, <2>4, AnswersKinds, NoAnswer, TrackedAnswers
      <4> QED
        BY <4>1, <4>2, LinesKinds
    <3>6. (Before \o Answers(slot))' = line
      BY <1>1, <1>2, <3>4, <3>5, EmptyParts
    <3>7. slot = "sleep" => pm = "Sleeping"
      <4>1. SUFFICES ASSUME slot = "sleep" PROVE pm = "Sleeping"
        OBVIOUS
      <4>2. Before = <<>> /\ line = Answers(slot)
        BY <2>1, <2>4, <4>1, LastAnswer DEF Says
      <4>3. line = <<"asleep">>
        BY <4>1, <4>2 DEF Answers
      <4> QED
        BY <2>1, <4>3 DEF Says, Now
    <3> HIDE DEF line
    <3>8. Says(Now, Before, line, awake)
      BY <2>1 DEF line
    <3>9. Says(Now, Before, Before \o Answers(slot), awake)'
      BY <1>1, <2>2, <3>1, <3>2, <3>4, <3>5, <3>6, <3>7, <3>8 DEF Says, Warming, Now, Tracked
    <3>10. Len(Before') <= 3 /\ task' \in Tasks \ {"none"}
      BY <3>2, <3>4, <3>5 DEF Tasks
    <3>11. (Before \o Answers(slot))' = Before \o Answers(slot)
      BY <3>6 DEF line
    <3> QED
      BY <1>1, <1>2, <3>1, <3>9, <3>10, <3>11, TaskMoves
  <2> QED
    BY <2>3, <2>4
<1> QED
  BY <1>3, <1>4, TaskLine

-----------------------------------------------------------------------------
(* The first state and the steps.                                           *)

LEMMA InitHolds == ASSUME Init PROVE PipeInv
<1> USE DEF Init
<1>1. Now \in Record
  BY DEF Now, Record, PmStates, Tests, Slots, Commands, Tracked
<1>2. events = <<>> /\ task = "booting" /\ warmup = FALSE
  OBVIOUS
<1>3. FieldTypes
  <2>1. events \in Seq(Kinds) /\ Len(events) <= 3
    BY <1>2, Sequences
  <2>2. 0 \in 0..MaxActs
    BY PipelineAssumption
  <2> QED
    BY <1>1, <2>1, <2>2 DEF FieldTypes, Tasks
<1>4. PauseInv
  BY DEF PauseInv
<1>5. Before = <<"started", "prepared">>
  <2>1. Doing(task, warmup) = <<"started", "prepared">>
    BY <1>2 DEF Doing
  <2>2. <<"started", "prepared">> \in Seq(Kinds)
    BY Sequences
  <2> QED
    BY <1>2, <2>1, <2>2, EmptyParts DEF Before
<1>6. Len(Before) <= 3
  BY <1>5
<1>7. Before \o Answers(slot) \in IF pending THEN BootReadings ELSE Boundaries
  <2>1. CASE pending
    <3>1. Answers(slot) = <<"data">>
      BY <2>1 DEF Answers
    <3>2. <<"started", "prepared">> \o <<"data">> = <<"started", "prepared", "data">>
      BY Joined, KindsOf
    <3> QED
      BY <1>5, <2>1, <3>1, <3>2, LineSorts
  <2>2. CASE ~pending
    <3>1. Answers(slot) = <<>>
      BY <2>2 DEF Answers
    <3>2. Before \o <<>> = Before
      BY <1>5, Sequences, EmptyParts
    <3> QED
      BY <1>5, <2>2, <3>1, <3>2, LineSorts
  <2> QED
    BY <2>1, <2>2
<1>8. Says(Now, Before, Before \o Answers(slot), awake)
  BY <1>2, <1>7, LineSorts DEF Says, Warming, Now
<1>9. LineInv
  BY <1>2, <1>6, <1>8 DEF LineInv, Agrees, Now
<1> QED
  BY <1>3, <1>4, <1>9 DEF PipeInv

LEMMA StepHolds ==
  ASSUME Inv, [Next]_vars, ~mixed'
  PROVE  PipeInv' /\ AnswerKept
<1>1. CASE Resume
  BY <1>1, ResumeStep DEF Inv
<1>2. CASE mixed /\ ~Resume
  <2>1. mixed' = mixed
    BY <1>2 DEF vars, Next, Orchestrator, Task, Handle, HandleData, HandlePmEvent, HandleTested,
                PreWake, SensorTimer, Shake, StartTest, ActuatorsDone, FinishTest, IntervalChange,
                ModeChange, Change, Setting, Pause, Stopped, Elsewhere, TimePasses, Boot, Take,
                handle_prepare, handle_pm_sleep, handle_measurement, handle_self_test,
                WarmupEnds, Post, TaskOnly
  <2> QED
    BY <1>2, <2>1
<1>3. CASE ~mixed /\ ~Resume
  <2>1. PipeInv
    BY <1>3 DEF Inv
  <2>2. CASE UNCHANGED vars
    <3> USE <2>2 DEF vars, policyVars, settingVars, taskVars
    <3>1. Now' = Now /\ Before' = Before /\ Line' = Line
      BY DEF Now, Before, Line
    <3>2. FieldTypes' /\ PauseInv'
      BY <2>1, <3>1 DEF PipeInv, FieldTypes, PauseInv
    <3>3. LineInv'
      BY <2>1, <3>1 DEF PipeInv, LineInv, Agrees, Says, Warming
    <3>4. AnswerKept
      BY <3>1, LineKeeps
    <3> QED
      BY <3>2, <3>3, <3>4 DEF PipeInv
  <2>3. CASE Handle
    BY <2>1, <2>3, HandleSteps
  <2>4. CASE PreWake \/ SensorTimer \/ Shake
    BY <2>1, <2>4, TimerSteps
  <2>5. CASE StartTest \/ ActuatorsDone \/ FinishTest
    BY <2>1, <2>5, TestSteps
  <2>6. CASE IntervalChange \/ ModeChange
    BY <2>1, <2>6, ChangeSteps
  <2>7. CASE Setting
    BY <2>1, <2>7, SettingStep
  <2>8. CASE Pause("setup") \/ Pause("update")
    BY <2>1, <2>8, PauseStep
  <2>9. CASE Stopped
    BY <2>1, <2>9, StoppedStep
  <2>10. CASE TimePasses
    BY <2>1, <2>10, TimeStep
  <2>11. CASE Boot \/ handle_prepare \/ handle_pm_sleep \/ handle_measurement
    BY <2>1, <2>11, PostSteps
  <2>12. CASE handle_self_test
    BY <2>1, <2>12, SelfTestStep
  <2>13. CASE WarmupEnds
    BY <2>1, <2>13, WarmupStep
  <2>14. CASE Take
    BY <2>1, <2>14, TakeStep
  <2> QED
    BY <1>3, <2>2, <2>3, <2>4, <2>5, <2>6, <2>7, <2>8, <2>9, <2>10, <2>11, <2>12, <2>13, <2>14
       DEF Next, Orchestrator, Task
<1> QED
  BY <1>1, <1>2, <1>3

-----------------------------------------------------------------------------
(* What holds whatever is queued.                                           *)

LEMMA AlwaysFields ==
  ASSUME AlwaysInv
  PROVE  /\ Now \in Record /\ events \in Seq(Kinds) /\ Len(events) <= QueueLength
         /\ Rested \in {"far", "near", "due"} /\ acts \in Nat /\ acts <= MaxActs
         /\ QueueLength \in Nat \ {0} /\ MaxActs \in Nat
         /\ events # <<>> => Tail(events) \in Seq(Kinds) /\ Len(Tail(events)) <= QueueLength
<1>1. QueueLength \in Nat \ {0} /\ MaxActs \in Nat
  BY PipelineAssumption
<1>2. events \in Seq(Kinds) /\ Len(events) <= QueueLength
  BY DEF AlwaysInv
<1>3. events # <<>> => Tail(events) \in Seq(Kinds) /\ Len(Tail(events)) <= QueueLength
  BY <1>1, <1>2
<1> QED
  BY <1>1, <1>2, <1>3 DEF AlwaysInv, Rested

\* A step of the orchestrator's loop.
LEMMA AlwaysLooped ==
  ASSUME AlwaysInv, NEW t, Stays(Now, t), NEW on \in BOOLEAN,
         pm' = t.pm, pending' = t.pending, refresh' = t.refresh, test' = t.test,
         power' = t.power, slot' = t.slot, awake' \in {on, on /\ t.power},
         events' \in {events, Tail(events)}, events' = events \/ events # <<>>,
         UNCHANGED <<pause, stopping, taskVars, mixed>>,
         long' \in BOOLEAN, clock' \in {"far", "near", "due"}, acts' \in 0..MaxActs
  PROVE  AlwaysInv'
<1> USE DEF taskVars
<1>1. t \in Record /\ t.power \in BOOLEAN /\ (task = "none" => t.slot = slot)
  BY DEF Stays, Record, Now
<1>2. Now' \in Record /\ awake' \in BOOLEAN
  BY <1>1 DEF Now, Record
<1>3. events' \in Seq(Kinds) /\ Len(events') <= QueueLength
  BY AlwaysFields
<1> QED
  BY <1>1, <1>2, <1>3 DEF AlwaysInv

LEMMA AlwaysHandled == ASSUME AlwaysInv, Handle PROVE AlwaysInv'
<1> USE DEF Elsewhere, settingVars
<1>1. /\ events' = Tail(events) /\ events # <<>>
      /\ UNCHANGED <<pause, stopping, taskVars, mixed>>
      /\ long' \in BOOLEAN /\ clock' \in {"far", "near", "due"} /\ acts' \in 0..MaxActs
  BY DEF Handle, HandleData, HandlePmEvent, HandleTested, AlwaysInv
<1>2. Now \in Record /\ awake \in BOOLEAN
  BY DEF AlwaysInv
<1>3. CASE HandleData
  <2>1. PICK recover \in BOOLEAN :
             LET s == on_sensor_data(Now, recover)
             IN /\ pm' = s.pm /\ pending' = s.pending /\ refresh' = s.refresh
                /\ test' = s.test /\ power' = s.power /\ slot' = s.slot
                /\ awake' = (awake /\ ~recover)
    BY <1>3 DEF HandleData
  <2> DEFINE t == on_sensor_data(Now, recover)
             on == awake /\ ~recover
  <2>2. Stays(Now, t) /\ on \in BOOLEAN
    BY <1>2, DataStays
  <2>3. /\ pm' = t.pm /\ pending' = t.pending /\ refresh' = t.refresh
        /\ test' = t.test /\ power' = t.power /\ slot' = t.slot
        /\ awake' \in {on, on /\ t.power}
    BY <2>1
  <2> HIDE DEF t, on
  <2> QED
    BY <1>1, <2>2, <2>3, AlwaysLooped
<1>4. CASE HandlePmEvent \/ HandleTested
  <2>1. PICK t : Stays(Now, t) /\ Become(t)
    <3>1. CASE HandlePmEvent
      BY <1>2, <3>1, PmEventStays DEF HandlePmEvent
    <3>2. CASE HandleTested
      BY <1>2, <3>2, TestedStays DEF HandleTested
    <3> QED
      BY <1>4, <3>1, <3>2
  <2>2. awake' \in {awake, awake /\ t.power}
    BY <2>1 DEF Become
  <2> QED
    BY <1>1, <1>2, <2>1, <2>2, AlwaysLooped DEF Become
<1> QED
  BY <1>3, <1>4 DEF Handle

LEMMA AlwaysAsked ==
  ASSUME AlwaysInv,
         \/ PreWake \/ SensorTimer \/ Shake \/ StartTest \/ ActuatorsDone \/ FinishTest
         \/ IntervalChange \/ ModeChange
  PROVE  AlwaysInv'
<1> DEFINE Asks == \/ PreWake \/ SensorTimer \/ Shake \/ StartTest \/ ActuatorsDone
                   \/ FinishTest \/ IntervalChange \/ ModeChange
<1>1. Now \in Record /\ awake \in BOOLEAN /\ acts \in Nat /\ acts <= MaxActs /\ MaxActs \in Nat
  BY AlwaysFields DEF AlwaysInv
<1>2. events' = events /\ UNCHANGED <<pause, stopping, taskVars, mixed>>
  BY DEF PreWake, SensorTimer, Shake, StartTest, ActuatorsDone, FinishTest, IntervalChange,
         ModeChange, Change, Elsewhere
<1>3. long' \in BOOLEAN /\ clock' \in {"far", "near", "due"}
  BY AlwaysFields
     DEF AlwaysInv, PreWake, SensorTimer, Shake, StartTest, ActuatorsDone, FinishTest,
         IntervalChange, ModeChange, Change, Elsewhere, settingVars
<1>4. acts' \in 0..MaxActs
  <2>1. acts' = acts \/ (acts < MaxActs /\ acts' = acts + 1)
    BY DEF PreWake, SensorTimer, Shake, StartTest, ActuatorsDone, FinishTest, IntervalChange,
           ModeChange, Change, Elsewhere, settingVars
  <2> QED
    BY <1>1, <2>1
<1> DEFINE at(x) == [Now EXCEPT !.test = x]
<1>5. \A x \in Tests : at(x) \in Record /\ Stays(Now, at(x))
  BY <1>1 DEF Record, Stays
<1>6. Stays(Now, Now)
  BY <1>1 DEF Stays
<1>7. \E t : Stays(Now, t) /\ Become(t)
  <2>1. CASE PreWake \/ ModeChange
    BY <1>1, <2>1, PrepareStays DEF PreWake, ModeChange
  <2>2. CASE SensorTimer
    BY <1>1, <2>2, MeasureStays DEF SensorTimer
  <2>3. CASE Shake
    <3> DEFINE asked == [Now EXCEPT !.refresh = TRUE]
    <3>1. asked \in Record /\ Stays(Now, asked) /\ Become(try_refresh(asked))
      BY <1>1, <2>3 DEF Shake, Record, Stays
    <3> HIDE DEF asked
    <3> QED
      BY <3>1, RefreshStays, StaysThrough
  <2>4. CASE StartTest
    <3> DEFINE begun == at("actuators")
    <3>1. begun \in Record /\ Stays(Now, begun) /\ Become(prepare_pm(begun))
      BY <1>5, <2>4 DEF StartTest, Tests
    <3> HIDE DEF begun
    <3> QED
      BY <3>1, PrepareStays, StaysThrough
  <2>5. CASE ActuatorsDone
    <3> DEFINE begun == at("waiting")
    <3>1. /\ begun \in Record /\ Stays(Now, begun)
          /\ Become(try_start_peripheral_sensor_test(begun))
      BY <1>5, <2>5 DEF ActuatorsDone, Tests
    <3> HIDE DEF begun
    <3> QED
      BY <3>1, TestStays, StaysThrough
  <2>6. CASE FinishTest
    <3> DEFINE ended == at("off")
               tried == try_refresh(ended)
    <3>1. ended \in Record /\ Stays(Now, ended) /\ Become(sleep_pm_if_idle(tried))
      BY <1>5, <2>6 DEF FinishTest, Tests, finish_peripheral_test, Now
    <3> HIDE DEF ended
    <3>2. Stays(Now, tried)
      BY <3>1, RefreshStays, StaysThrough
    <3> HIDE DEF tried
    <3> QED
      BY <3>1, <3>2, SleepStays, StaysThrough DEF Stays
  <2>7. CASE IntervalChange
    <3>1. PICK t \in {Now, prepare_pm(Now), request_sleep(Now)} : Become(try_refresh(t))
      <4> DEFINE idle == ~pending /\ ~refresh /\ test = "off" /\ pm = "Ready"
                 reconciled == CASE long' /\ idle -> request_sleep(Now)
                                 [] long' /\ ~idle -> Now
                                 [] OTHER -> prepare_pm(Now)
      <4>1. Become(try_refresh(reconciled))
        BY <2>7 DEF IntervalChange
      <4>2. reconciled \in {Now, prepare_pm(Now), request_sleep(Now)}
        OBVIOUS
      <4> HIDE DEF reconciled
      <4> QED
        BY <4>1, <4>2
    <3>2. Stays(Now, t)
      BY <1>1, <1>6, PrepareStays, SleepStays
    <3> QED
      BY <3>1, <3>2, RefreshStays, StaysThrough DEF Stays
  <2> QED
    BY <2>1, <2>2, <2>3, <2>4, <2>5, <2>6, <2>7
<1>8. PICK t : Stays(Now, t) /\ Become(t)
  BY <1>7
<1>9. awake' \in {awake, awake /\ t.power}
  BY <1>8 DEF Become
<1> QED
  BY <1>1, <1>2, <1>3, <1>4, <1>8, <1>9, AlwaysLooped DEF Become

LEMMA AlwaysPaused ==
  ASSUME AlwaysInv, Setting \/ Pause("setup") \/ Pause("update") \/ Stopped \/ Resume \/ TimePasses
  PROVE  AlwaysInv'
<1> USE AlwaysFields DEF Now, Record, Slots, Commands, Tracked, PmStates, Tests, Tasks, settingVars,
                         taskVars, policyVars, Elsewhere
<1>1. CASE Setting
  BY <1>1 DEF Setting, AlwaysInv
<1>2. CASE Pause("setup") \/ Pause("update")
  BY <1>2 DEF Pause, Looping, AlwaysInv
<1>3. CASE Stopped
  BY <1>3 DEF Stopped, AlwaysInv
<1>4. CASE Resume
  <2>1. task = "none" /\ slot = "none" /\ ~stopping
    BY <1>4 DEF Resume, AlwaysInv
  <2>2. events' \in Seq(Kinds) /\ Len(events') <= QueueLength /\ mixed' \in BOOLEAN
    BY <1>4, Sequences DEF Resume
  <2>3. acts' \in 0..MaxActs
    BY <1>4 DEF Resume
  <2>4. \/ task' = "booting" /\ warmup' = FALSE /\ slot' = "measure" /\ running' = TRUE
        \/ task' = "none" /\ warmup' = warmup /\ slot' = "none" /\ running' = FALSE
    BY <1>4, <2>1 DEF Resume
  <2>5. /\ pause' = "no" /\ power' = TRUE /\ awake' = FALSE /\ pm' = "Preparing"
        /\ pending' = TRUE /\ UNCHANGED <<refresh, test, stopping, long>>
        /\ clock' \in {clock, Rested}
    BY <1>4 DEF Resume
  <2> QED
    BY <2>1, <2>2, <2>3, <2>4, <2>5 DEF AlwaysInv
<1>5. CASE TimePasses
  BY <1>5 DEF TimePasses, AlwaysInv
<1> QED
  BY <1>1, <1>2, <1>3, <1>4, <1>5

LEMMA AlwaysPosted ==
  ASSUME AlwaysInv, Room, NEW event \in Kinds, events' = Append(events, event)
  PROVE  events' \in Seq(Kinds) /\ Len(events') <= QueueLength
BY AlwaysFields DEF Room

LEMMA AlwaysTask == ASSUME AlwaysInv, Task PROVE AlwaysInv'
<1> USE DEF TaskOnly, policyVars, settingVars
<1>1. UNCHANGED <<pm, pending, refresh, test, pause, stopping, clock, long, acts, power, running,
                  mixed>>
  BY DEF Task, Boot, Take, handle_prepare, handle_pm_sleep, handle_measurement, handle_self_test,
         WarmupEnds, Post
<1>2. /\ task # "none" /\ task' \in Tasks \ {"none"} /\ slot' \in {slot, "none"}
      /\ warmup' \in BOOLEAN /\ awake' \in BOOLEAN
  <2>1. CASE Boot \/ handle_prepare \/ handle_pm_sleep \/ handle_measurement \/ WarmupEnds
    BY <2>1 DEF Boot, handle_prepare, handle_pm_sleep, handle_measurement, WarmupEnds, Post,
                AlwaysInv, Tasks, Now, Record
  <2>2. CASE handle_self_test
    BY <2>2 DEF handle_self_test, AlwaysInv, Tasks
  <2>3. CASE Take
    BY <2>3 DEF Take, AlwaysInv, Tasks
  <2> QED
    BY <2>1, <2>2, <2>3 DEF Task
<1>3. events' = events \/ (Room /\ \E event \in Kinds : events' = Append(events, event))
  BY DEF Task, Boot, Take, handle_prepare, handle_pm_sleep, handle_measurement, handle_self_test,
         WarmupEnds, Post, Kinds
<1>4. events' \in Seq(Kinds) /\ Len(events') <= QueueLength
  BY <1>3, AlwaysPosted, AlwaysFields
<1>5. Now' \in Record
  BY <1>1, <1>2 DEF AlwaysInv, Now, Record, Slots
<1> QED
  BY <1>1, <1>2, <1>4, <1>5 DEF AlwaysInv

LEMMA AlwaysStep == ASSUME AlwaysInv, [Next]_vars PROVE AlwaysInv'
<1>1. CASE UNCHANGED vars
  BY <1>1 DEF vars, policyVars, settingVars, taskVars, AlwaysInv, Now
<1> QED
  BY <1>1, AlwaysHandled, AlwaysAsked, AlwaysPaused, AlwaysTask DEF Next, Orchestrator

LEMMA InitAlways == ASSUME Init PROVE AlwaysInv
<1>1. PipeInv
  BY InitHolds
<1>2. events = <<>> /\ Len(<<>>) = 0 /\ QueueLength \in Nat
  BY Sequences, PipelineAssumption DEF Init
<1>3. events \in Seq(Kinds) /\ Len(events) <= QueueLength
  BY <1>2, Sequences
<1>4. task = "booting" /\ ~stopping /\ pause = "no" /\ mixed = FALSE
  BY DEF Init
<1> QED
  BY <1>1, <1>3, <1>4 DEF PipeInv, FieldTypes, AlwaysInv

-----------------------------------------------------------------------------
(* The theorems.                                                            *)

\* The two tasks agree for ever on the answers that are outstanding, unless the last pause ended
\* with events of the deleted task in the queue (go_orchestrator.cpp, go_sensor_producer.cpp).
THEOREM LineAgreed == Spec => []Inv
<1>1. Init => Inv
  BY InitHolds, InitAlways DEF Inv
<1>2. Inv /\ [Next]_vars => Inv'
  BY StepHolds, AlwaysStep DEF Inv
<1> QED
  BY <1>1, <1>2, PTL DEF Spec

\* Types, and never more than three of the producer's events wait in the queue of the
\* orchestrator, those of a deleted task apart (go_sensor_producer.cpp posts without waiting).
THEOREM PipelineTypes == Spec => []PipelineTypeOK
<1>1. Inv => PipelineTypeOK
  <2>1. ASSUME Inv PROVE PipelineTypeOK
    <3>1. events \in Seq(Kinds)
      BY <2>1 DEF Inv, AlwaysInv
    <3>2. \A i \in DOMAIN events : events[i] \in Kinds
      BY <3>1
    <3>3. Len(events) <= IF mixed THEN QueueLength ELSE 3
      BY <2>1 DEF Inv, AlwaysInv, PipeInv, FieldTypes
    <3> QED
      BY <2>1, <3>2, <3>3 DEF Inv, AlwaysInv, PipelineTypeOK, Now, Record, PmStates, Tests, Slots,
                              Tasks, Kinds
  <2> QED
    BY <2>1
<1> QED
  BY <1>1, LineAgreed, PTL

\* What the task is measuring or sweeping was asked of a sensor that is ready or will be.
LEMMA ReadingIsLive == ASSUME PipeInv PROVE ReadsLiveSensor
<1>1. SUFFICES ASSUME task \in {"measuring", "testing"}, ~stopping
               PROVE  power /\ awake
  BY DEF ReadsLiveSensor
<1>2. pause = "no" /\ Says(Now, Before, Before \o Answers(slot), awake)
  BY <1>1, TaskLine DEF PipeInv, PauseInv
<1> DEFINE k == IF task = "measuring" THEN "measure" ELSE "test"
           line == Before \o Answers(slot)
<1>3. /\ events \in Seq(Kinds) /\ Before \in Seq(Kinds) /\ Before = events \o Answers(k)
      /\ k \in Tracked /\ Answers(k) \in Results /\ Answers(k) # <<>>
  <2>1. Doing(task, warmup) = Answers(k) /\ Answers(k) \in Results
    BY <1>1, LineSorts DEF Doing, Answers
  <2> QED
    BY <1>1, <2>1, TaskLine, LineSorts DEF Tracked
<1> HIDE DEF k
<1>4. Before # <<>>
  BY <1>3, AnswersKinds, NoAnswer
<1>5. line \in Results \cup BootReadings /\ slot # "prepare"
  <2>1. line \in Lines
    BY <1>2 DEF Says
  <2>2. CASE slot \in Tracked
    BY <1>3, <1>4, <2>1, <2>2, LastAnswer
  <2>3. CASE slot \notin Tracked
    <3>1. line = Before
      BY <1>3, <2>3, TrackedAnswers, EmptyParts
    <3>2. events # <<>> => Before \in BootReadings
      BY <1>3, <2>1, <3>1, LastAnswer
    <3>3. events = <<>> => Before = Answers(k)
      BY <1>3, EmptyParts, AnswersKinds
    <3> QED
      BY <1>3, <2>3, <3>1, <3>2, <3>3 DEF Tracked
  <2> QED
    BY <2>2, <2>3
<1> HIDE DEF line
<1>6. Says(Now, Before, line, awake)
  BY <1>2 DEF line
<1>7. pm \in {"Ready", "Preparing"} /\ line # <<>>
  BY <1>5, <1>6, LineSorts DEF Says, Now
<1> QED
  BY <1>1, <1>5, <1>6, <1>7 DEF Says, Now

\* While the task takes a measurement or the sweep, the PM sensor is supplied and measuring:
\* no sleep command, no power cut of on_pm_asleep() and no recovery comes between the request
\* and the reading, whatever tests, shakes, intervals and modes the user goes through.
THEOREM LiveReadings == Spec => []ReadsLiveSensor
<1>1. Inv => ReadsLiveSensor
  <2>1. mixed => ReadsLiveSensor
    BY DEF ReadsLiveSensor
  <2> QED
    BY <2>1, ReadingIsLive DEF Inv
<1> QED
  BY <1>1, LineAgreed, PTL

\* An answer that the orchestrator waits for is only lost to a setting or calibration sent over the
\* waiting command (go_sensor_producer.cpp:77), to a full queue at the end of a sweep, or to a task
\* that could not be created: what the orchestrator itself asks for never replaces a command that
\* waits, and no handler forgets what it waits for.
THEOREM AnswersCome == Spec => AnswersComing
<1>1. Inv /\ [Next]_vars => (~mixed' => AnswerKept)
  BY StepHolds
<1>2. (~mixed' => AnswerKept) <=>
        (~Orphaned /\ Orphaned' /\ ~mixed' =>
           \/ slot \in Tracked /\ slot' = "setting"
           \/ task = "testing" /\ task' = "idle" /\ events' = events
           \/ task' = "none")
  BY DEF AnswerKept
<1> QED
  BY <1>1, <1>2, LineAgreed, PTL DEF Spec, AnswersComing

=============================================================================
