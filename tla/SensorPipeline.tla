---------------------------- MODULE SensorPipeline ----------------------------
(***************************************************************************)
(* The sensor producer task (go_sensor_producer.cpp) and the orchestrator  *)
(* that drives it (go_orchestrator.cpp): preparing and sleeping the PM     *)
(* sensor, scheduled measurements, shake refreshes, the sensor sweep of    *)
(* the hardware test, and the pauses around provisioning and a firmware    *)
(* update, which delete the task and start it again.                       *)
(*                                                                         *)
(* Commands go down through one task-notification value that a later       *)
(* command overwrites; results come up through the event queue.  The       *)
(* orchestrator's handlers chain, so each is an operator from the state it *)
(* finds to the state it leaves, and an action takes Now to one of them.   *)
(* What a reading says, its origin, the gas sampler and the screens are    *)
(* left out.                                                               *)
(***************************************************************************)
EXTENDS Naturals, Sequences

CONSTANTS
  QueueLength,   \* slots of the orchestrator's event queue
  MaxActs        \* bound: hardware tests, changes of the interval or the mode, and ends of
                 \* provisioning that leave events of the deleted task in the queue

VARIABLES
  pm,        \* _pm_state
  pending,   \* _measurement_pending
  refresh,   \* _refresh_pending
  test,      \* the hardware test: _periph.active and .step
  pause,     \* why the services are paused: "no", "setup" or "update"
  stopping,  \* SensorProducer::stop() is in its 10 ms delay
  clock,     \* how far the regular measurement is: beyond the sleep threshold, near, due
  long,      \* the interval reaches the threshold and the mode is not Offline
  acts,      \* hardware tests and changes so far
  power,     \* the PM sensor's load switch
  events,    \* the orchestrator's queue, of the producer's events
  slot,      \* the notification value that waits for the task
  task,      \* what the producer task is doing
  warmup,    \* _pm_warmup_active
  running,   \* _running
  awake,     \* the PM sensor is powered and measuring
  mixed      \* history: the last pause ended with events of the deleted task in the queue

policyVars == <<pm, pending, refresh, test>>
settingVars == <<long, acts>>
taskVars == <<task, warmup, running>>
vars == <<policyVars, pause, stopping, clock, settingVars, power, events, slot, taskVars, awake,
          mixed>>

ASSUME PipelineAssumption == QueueLength \in Nat \ {0} /\ MaxActs \in Nat

\* Commands whose completion the orchestrator waits for, and those it only passes on.
Tracked == {"measure", "test", "prepare", "sleep"}
Commands == Tracked \cup {"setting"}

Init ==
  /\ pm = "Preparing" /\ refresh = FALSE /\ test = "off"
  /\ pending \in BOOLEAN /\ slot = IF pending THEN "measure" ELSE "none"
  /\ pause = "no" /\ stopping = FALSE
  /\ long \in BOOLEAN /\ clock = (IF long THEN "far" ELSE "near") /\ acts = 0
  /\ power = TRUE /\ events = <<>>
  /\ task = "booting" /\ warmup = FALSE /\ running = TRUE /\ awake = FALSE
  /\ mixed = FALSE

-----------------------------------------------------------------------------
(* The orchestrator's operations.                                           *)

Now == [pm |-> pm, pending |-> pending, refresh |-> refresh, test |-> test,
        power |-> power, slot |-> slot]

\* A handler leaves s; cutting the supply puts the sensor to sleep.
Become(s) ==
  /\ pm' = s.pm /\ pending' = s.pending /\ refresh' = s.refresh /\ test' = s.test
  /\ power' = s.power /\ slot' = s.slot /\ awake' = (awake /\ s.power)

\* request_*(): the value overwrites what the task has not taken.
Send(s, command) == IF task = "none" THEN s ELSE [s EXCEPT !.slot = command]

prepare_pm(s) ==
  IF s.pm = "Asleep"
  THEN Send([s EXCEPT !.pm = "Preparing", !.power = TRUE], "prepare") ELSE s

start_measurement(s) == Send([s EXCEPT !.pending = TRUE], "measure")

try_refresh(s) ==
  IF ~s.refresh \/ s.pending THEN s
  ELSE IF s.pm = "Ready" THEN start_measurement(s) ELSE prepare_pm(s)

try_start_peripheral_sensor_test(s) ==
  IF s.test = "waiting" /\ s.pm = "Ready" /\ ~s.pending
  THEN Send([s EXCEPT !.test = "testing", !.pending = TRUE], "test") ELSE s

request_sleep(s) == Send([s EXCEPT !.pm = "Sleeping"], "sleep")

\* Broken variant: an outstanding sweep does not keep the sensor.
sleep_pm_if_idle_Greedy(s) ==
  IF s.test = "off" /\ ~s.refresh /\ s.pm = "Ready" /\ long /\ clock = "far"
  THEN request_sleep(s) ELSE s

\* Nothing needs the sensor, and the next measurement is beyond the threshold.
sleep_pm_if_idle(s) ==
  IF s.test = "off" /\ ~s.pending /\ ~s.refresh /\ s.pm = "Ready" /\ long /\ clock = "far"
  THEN request_sleep(s) ELSE s

-----------------------------------------------------------------------------
(* The orchestrator's handlers.                                             *)

\* on_sensor_data(), with V1's power cycle after PM readings have long been invalid.
on_sensor_data(s, recover) ==
  LET read == [s EXCEPT !.pending = FALSE, !.refresh = FALSE]
      cycled == IF recover THEN prepare_pm([read EXCEPT !.pm = "Asleep", !.power = TRUE])
                ELSE read
  IN sleep_pm_if_idle(try_start_peripheral_sensor_test(cycled))

\* Broken variant: the interval is not looked at again when the sensor has fallen asleep.
on_pm_asleep_Settled(s) ==
  LET off == [s EXCEPT !.pm = "Asleep", !.power = FALSE]
  IN IF s.test # "off" THEN prepare_pm(off) ELSE off

on_pm_asleep(s) ==
  LET off == [s EXCEPT !.pm = "Asleep", !.power = FALSE]
  IN IF s.test # "off" \/ ~long THEN prepare_pm(off) ELSE off

\* Broken variant: the refresh is not tried again at a boundary.
on_pm_event_Once(s, event) ==
  LET told == CASE event = "started" -> [s EXCEPT !.pm = "Preparing"]
                [] event = "prepared" -> [s EXCEPT !.pm = "Ready"]
                [] event = "asleep" -> on_pm_asleep(s)
  IN IF pause # "no" THEN s ELSE try_start_peripheral_sensor_test(told)

on_pm_event(s, event) ==
  LET told == CASE event = "started" -> [s EXCEPT !.pm = "Preparing"]
                [] event = "prepared" -> [s EXCEPT !.pm = "Ready"]
                [] event = "asleep" -> on_pm_asleep(s)
  IN IF pause # "no" THEN s ELSE try_start_peripheral_sensor_test(try_refresh(told))

on_sensor_test_done(s) ==
  LET done == [s EXCEPT !.pending = FALSE]
  IN IF s.test = "testing" THEN [done EXCEPT !.test = "summary"]
     ELSE sleep_pm_if_idle(try_refresh(try_start_peripheral_sensor_test(done)))

\* The orchestrator is between two events: not in stop() and not blocked by an update.
Looping == ~stopping /\ pause # "update"

Elsewhere == UNCHANGED <<pause, stopping, settingVars, taskVars, mixed>>

HandleData ==
  /\ Looping /\ events # <<>> /\ Head(events) = "data"
  /\ events' = Tail(events)
  /\ \E recover \in BOOLEAN :
       LET s == on_sensor_data(Now, recover)
       IN /\ pm' = s.pm /\ pending' = s.pending /\ refresh' = s.refresh /\ test' = s.test
          /\ power' = s.power /\ slot' = s.slot /\ awake' = (awake /\ ~recover)
  /\ UNCHANGED clock /\ Elsewhere

HandlePmEvent ==
  /\ Looping /\ events # <<>> /\ Head(events) \in {"started", "prepared", "asleep"}
  /\ events' = Tail(events)
  /\ Become(on_pm_event(Now, Head(events)))
  /\ UNCHANGED clock /\ Elsewhere

HandleTested ==
  /\ Looping /\ events # <<>> /\ Head(events) = "tested"
  /\ events' = Tail(events)
  /\ Become(on_sensor_test_done(Now))
  /\ UNCHANGED clock /\ Elsewhere

Handle == HandleData \/ HandlePmEvent \/ HandleTested

-----------------------------------------------------------------------------
(* Timers, the user and the settings.                                       *)

Rested == IF long THEN "far" ELSE "near"

TimePasses ==
  /\ clock # "due"
  /\ clock' = IF clock = "far" THEN "near" ELSE "due"
  /\ UNCHANGED <<policyVars, pause, stopping, settingVars, power, events, slot, taskVars, awake,
                 mixed>>

\* check_timers(): wake the sensor ahead of the next measurement.
PreWake ==
  /\ Looping /\ pause = "no" /\ long /\ pm = "Asleep" /\ clock # "far"
  /\ Become(prepare_pm(Now))
  /\ UNCHANGED <<clock, events>> /\ Elsewhere

\* Broken variant: the sensor's state is not looked at.
SensorTimer_Blind ==
  /\ Looping /\ pause = "no" /\ clock = "due" /\ ~pending
  /\ Become(start_measurement(Now))
  /\ clock' = Rested
  /\ UNCHANGED events /\ Elsewhere

\* Broken variant: a measurement may be asked for while one is outstanding.
SensorTimer_Hasty ==
  /\ Looping /\ pause = "no" /\ clock = "due" /\ pm = "Ready"
  /\ Become(start_measurement(Now))
  /\ clock' = Rested
  /\ UNCHANGED events /\ Elsewhere

\* check_timers(): the regular measurement.
SensorTimer ==
  /\ Looping /\ pause = "no" /\ clock = "due" /\ ~pending /\ pm = "Ready"
  /\ Become(start_measurement(Now))
  /\ clock' = Rested
  /\ UNCHANGED events /\ Elsewhere

\* on_shake_detected()
Shake ==
  /\ Looping /\ pause = "no" /\ ~refresh /\ test = "off"
  /\ Become(try_refresh([Now EXCEPT !.refresh = TRUE]))
  /\ UNCHANGED <<clock, events>> /\ Elsewhere

\* start_peripheral_test()
StartTest ==
  /\ Looping /\ pause = "no" /\ test = "off" /\ acts < MaxActs
  /\ Become(prepare_pm([Now EXCEPT !.test = "actuators"]))
  /\ acts' = acts + 1
  /\ UNCHANGED <<pause, stopping, clock, long, events, taskVars, mixed>>

\* peripheral_step_result() for the last of the actuators.
ActuatorsDone ==
  /\ Looping /\ test = "actuators"
  /\ Become(try_start_peripheral_sensor_test([Now EXCEPT !.test = "waiting"]))
  /\ UNCHANGED <<clock, events>> /\ Elsewhere

\* finish_peripheral_test(), at any step.
finish_peripheral_test(s) ==
  IF s.test = "off" THEN s ELSE sleep_pm_if_idle(try_refresh([s EXCEPT !.test = "off"]))

FinishTest ==
  /\ Looping /\ test # "off"
  /\ Become(finish_peripheral_test(Now))
  /\ UNCHANGED <<clock, events>> /\ Elsewhere

Change ==
  /\ Looping /\ acts < MaxActs /\ acts' = acts + 1 /\ long' \in BOOLEAN
  /\ UNCHANGED <<pause, stopping, events, taskVars, mixed>>

\* reschedule_sensor_timer(): asleep at once, or back to always on.
IntervalChange ==
  /\ Change
  /\ clock' = IF long' THEN "far" ELSE "near"
  /\ LET idle == ~pending /\ ~refresh /\ test = "off" /\ pm = "Ready"
         reconciled == CASE long' /\ idle -> request_sleep(Now)
                         [] long' /\ ~idle -> Now
                         [] OTHER -> prepare_pm(Now)
     IN Become(try_refresh(reconciled))

\* apply_mode_transition() on a device that stays up.
ModeChange ==
  /\ Change /\ pause = "no"
  /\ Become(prepare_pm(Now))
  /\ UNCHANGED clock

\* CO2 calibration, and the CO2 and gas settings: sent whatever is under way, over a command
\* that waits.
Setting ==
  /\ Looping /\ task # "none"
  /\ slot' = "setting"
  /\ UNCHANGED <<policyVars, clock, power, events, awake>> /\ Elsewhere

-----------------------------------------------------------------------------
(* Pauses.                                                                  *)

\* pause_provisioning_sensitive_services() up to the delay of stop(), which there is only
\* for a task.
Pause(why) ==
  /\ Looping /\ pause = "no"
  /\ pause' = why
  /\ refresh' = FALSE
  /\ running' = FALSE
  /\ awake' = FALSE
  /\ stopping' = TRUE
  /\ slot' = IF task = "none" THEN slot ELSE "zero"
  /\ UNCHANGED <<pm, pending, test, clock, settingVars, power, events, task, warmup, mixed>>

\* The task is deleted wherever it is.
Stopped ==
  /\ stopping
  /\ stopping' = FALSE
  /\ task' = "none" /\ slot' = "none"
  /\ pending' = FALSE /\ pm' = "Asleep" /\ test' = "off"
  /\ power' = FALSE /\ awake' = FALSE
  /\ UNCHANGED <<refresh, pause, clock, settingVars, events, warmup, running, mixed>>

\* resume_provisioning_sensitive_services(): the task may not be created.  After an update
\* exit_ota() empties the queue; what ends provisioning may be a button press, queued before
\* the last events of the deleted task.
Resume ==
  /\ ~stopping /\ pause # "no"
  /\ pause' = "no"
  /\ power' = TRUE /\ awake' = FALSE
  /\ pm' = "Preparing" /\ pending' = TRUE
  /\ \E created \in BOOLEAN :
       /\ running' = created
       /\ IF created THEN task' = "booting" /\ warmup' = FALSE /\ slot' = "measure"
          ELSE UNCHANGED <<task, warmup, slot>>
  /\ events' = IF pause = "update" THEN <<>> ELSE events
  /\ mixed' = (events' # <<>>)
  /\ IF mixed' THEN acts < MaxActs /\ acts' = acts + 1 ELSE acts' = acts
  /\ clock' \in {clock, Rested}
  /\ UNCHANGED <<refresh, test, stopping, long>>

Orchestrator ==
  \/ Handle \/ PreWake \/ SensorTimer \/ Shake
  \/ StartTest \/ ActuatorsDone \/ FinishTest
  \/ IntervalChange \/ ModeChange \/ Setting
  \/ Pause("setup") \/ Pause("update") \/ Stopped \/ Resume

-----------------------------------------------------------------------------
(* The producer task.                                                       *)

Room == Len(events) < QueueLength

TaskOnly == UNCHANGED <<policyVars, pause, stopping, clock, settingVars, power, running, mixed>>

\* A boundary or a result is posted when the queue has room, and the task goes on.
Post(at, event, next) ==
  /\ task = at /\ Room
  /\ events' = Append(events, event)
  /\ task' = next
  /\ TaskOnly /\ UNCHANGED slot

\* run() up to its loop: announce, wake the sensor, warm up, announce.
Boot ==
  \/ Post("booting", "started", "warming") /\ awake' = power /\ UNCHANGED warmup
  \/ Post("warming", "prepared", "idle") /\ UNCHANGED <<warmup, awake>>

\* The loop takes the notification, or leaves when it is no longer running.
Take ==
  /\ task = "idle" /\ slot # "none"
  /\ slot' = "none"
  /\ task' = CASE ~running -> "ended"
               [] running /\ slot = "measure" -> "measuring"
               [] running /\ slot = "test" -> "testing"
               [] running /\ slot = "sleep" -> "sleeping"
               [] running /\ slot = "prepare" /\ ~warmup -> "preparing"
               [] OTHER -> "idle"
  /\ warmup' = (warmup /\ ~(running /\ slot = "sleep"))
  /\ awake' = (awake /\ ~(running /\ slot = "sleep"))
  /\ TaskOnly /\ UNCHANGED events

handle_prepare ==
  Post("preparing", "started", "idle") /\ warmup' = TRUE /\ awake' = power

handle_pm_sleep == Post("sleeping", "asleep", "idle") /\ UNCHANGED <<warmup, awake>>

handle_measurement == Post("measuring", "data", "idle") /\ UNCHANGED <<warmup, awake>>

\* The result of the sweep does not wait for room, which others may have used up.
handle_self_test ==
  /\ task = "testing" /\ task' = "idle"
  /\ events' = events \/ (Room /\ events' = Append(events, "tested"))
  /\ TaskOnly /\ UNCHANGED <<slot, warmup, awake>>

\* handle_pm_warmup_tick() after the last of the paced iterations.
WarmupEnds ==
  \/ /\ task = "idle" /\ warmup /\ task' = "warmed" /\ warmup' = FALSE
     /\ TaskOnly /\ UNCHANGED <<events, slot, awake>>
  \/ Post("warmed", "prepared", "idle") /\ UNCHANGED <<warmup, awake>>

Task ==
  \/ Boot \/ Take \/ handle_prepare \/ handle_pm_sleep \/ handle_measurement
  \/ handle_self_test \/ WarmupEnds

Next == Orchestrator \/ TimePasses \/ Task

\* Events are handled, the delay of stop() ends and the task runs; each pass of its loop
\* looks at the warm-up.
Fairness ==
  WF_vars(Handle) /\ WF_vars(Stopped) /\ WF_vars(Task) /\ SF_vars(WarmupEnds)

\* Time passes, and every pass of the orchestrator's loop looks at the timers.
Timers == WF_vars(TimePasses) /\ WF_vars(PreWake) /\ WF_vars(SensorTimer)

Spec == Init /\ [][Next]_vars /\ Fairness

-----------------------------------------------------------------------------
(* Properties.                                                              *)

\* The events that what the task is doing will still post, and those that answer a command.
Doing(t, warming) ==
  CASE t \in {"booting", "preparing"} -> <<"started", "prepared">>
    [] t \in {"warming", "warmed"} \/ (t = "idle" /\ warming) -> <<"prepared">>
    [] t = "measuring" -> <<"data">>
    [] t = "testing" -> <<"tested">>
    [] t = "sleeping" -> <<"asleep">>
    [] OTHER -> <<>>
Answers(command) ==
  CASE command = "measure" -> <<"data">>
    [] command = "test" -> <<"tested">>
    [] command = "prepare" -> <<"started", "prepared">>
    [] command = "sleep" -> <<"asleep">>
    [] OTHER -> <<>>

\* What the orchestrator will still handle, before the answer to the waiting command and in all.
Before == events \o Doing(task, warmup)
Line == Before \o Answers(slot)

Brings(line, event) == \E i \in DOMAIN line : line[i] = event

\* The orchestrator waits for an answer that nothing will bring.
Orphaned ==
  /\ pause = "no"
  /\ \/ pending /\ ~Brings(Line, "data") /\ ~Brings(Line, "tested")
     \/ pm = "Preparing" /\ ~Brings(Line, "prepared")
     \/ pm = "Sleeping" /\ ~Brings(Line, "asleep")

\* Types, and the producer's share of the queue: as each command is sent after the answer to
\* the one before, never more than a result and the two boundaries of a preparation wait, and
\* the producer by itself never fills the queue, unless the events of a deleted task came on top.
PipelineTypeOK ==
  /\ pm \in {"Preparing", "Ready", "Sleeping", "Asleep"}
  /\ {pending, refresh, stopping, long, power, warmup, running, awake, mixed} \subseteq BOOLEAN
  /\ test \in {"off", "actuators", "waiting", "testing", "summary"}
  /\ pause \in {"no", "setup", "update"}
  /\ clock \in {"far", "near", "due"}
  /\ acts \in 0..MaxActs
  /\ Len(events) <= IF mixed THEN QueueLength ELSE 3
  /\ \A i \in DOMAIN events : events[i] \in {"started", "prepared", "asleep", "data", "tested"}
  /\ slot \in Commands \cup {"none", "zero"}
  /\ task \in {"none", "booting", "warming", "idle", "measuring", "testing", "preparing",
               "sleeping", "warmed", "ended"}

\* While the task takes a measurement or the sweep that it was asked for, the PM sensor is
\* supplied and measuring, except in stop(), whose caller puts it to sleep beside the task,
\* and after a pause that ended with events of the deleted task, which it takes for the new
\* one's, in the queue.
ReadsLiveSensor == task \in {"measuring", "testing"} /\ ~stopping /\ ~mixed => power /\ awake

\* The orchestrator loses an answer it waits for in three ways only: a calibration or setting
\* replaces the waiting command, as sensor_producer.md:320 says of any request; the queue has no
\* room for the result of a sweep; or the task could not be created.  Its own measurements, sweeps,
\* preparations and sleeps never replace one another.
AnswersComing ==
  [][~Orphaned /\ Orphaned' /\ ~mixed' =>
       \/ slot \in Tracked /\ slot' = "setting"
       \/ task = "testing" /\ task' = "idle" /\ events' = events
       \/ task' = "none"]_vars

\* A refresh that a shake asked for ends, whatever the sensor was doing and however far the
\* next regular measurement is: no timer is needed.  The summary of a hardware test, which
\* on_sensor_test_done() shows without trying the refresh, keeps it for the user or a timer,
\* and an answer that was lost keeps it until a pause.
RefreshAnswered == refresh ~> (~refresh \/ test = "summary" \/ Orphaned)

\* Measuring never stops for good: as long as time passes, outside a pause a reading or a
\* sweep always comes back again, whatever sleeps, tests, pauses and settings come between,
\* unless an answer was lost.
Returned == events # <<>> /\ Head(events) \in {"data", "tested"}
SensingGoesOn == Timers => []<>(Returned \/ pause # "no" \/ Orphaned)
=============================================================================
