-------------------------------- MODULE Tracking --------------------------------
(***************************************************************************)
(* The tracking session of the orchestrator (go_orchestrator.cpp) over the *)
(* route files of RouteStorage: start, pause, resume and stop, the         *)
(* measurement that records a point, data clear and factory reset, history *)
(* deletion, the mode change that ends a session, deep sleep with its      *)
(* RTC-retained state, shutdown and power cuts.  Every handler runs on the *)
(* orchestrator's task, so one handler is one step.                        *)
(***************************************************************************)
EXTENDS RouteStorage

CONSTANT Periods   \* measurement intervals the settings allow, in clock ticks

ASSUME PeriodsAssumption == Periods \subseteq Nat \ {0}

VARIABLES
  trackingState,  \* _tracking_state
  trackingId,     \* _tracking_session_id
  offline,        \* _mode = OperatingMode::Offline (Energy Saving)
  savedOffline,   \* the operating mode saved in NVS
  asleep,         \* deep sleep or power off: no orchestrator is running
  rtc,            \* tracking part of the RtcAppState that deep sleep retains
  period,         \* active_measure_interval_seconds()
  sinceMeasure,   \* now - _last_measurement_ms, while awake
  unsyncedAge     \* ghost: age of the oldest accepted point that is not durable, or none

modeVars == <<offline, savedOffline>>
vars == <<storeVars, trackingState, trackingId, modeVars, asleep, rtc, period, sinceMeasure, unsyncedAge>>

NoAge == -1
IdleRtc == [state |-> "Idle", id |-> NoSession]
SessionActive == trackingState \in {"Recording", "Paused"}   \* tracking_session_active()
IsRecording == trackingState = "Recording" /\ open # NoSession
Snapshot == [state |-> trackingState, id |-> trackingId]     \* snapshot_state()

\* Ghost bookkeeping of a step of the storage layer.
Pending == open # NoSession /\ durable[open] < Len(file[open]) + Len(buf)
AgeFollows == unsyncedAge' = IF ~Pending' THEN NoAge ELSE IF unsyncedAge = NoAge THEN 0 ELSE unsyncedAge

Becomes(state, s) == trackingState' = state /\ trackingId' = s
Awake == ~asleep
KeepsTime == UNCHANGED <<period, sinceMeasure>>
KeepsSession == UNCHANGED <<trackingState, trackingId>>

-----------------------------------------------------------------------------
\* start_tracking(): the id is one generate_tracking_session_id() found free.
\* The UI hides tracking in Energy Saving and BLE is up in Portable only.
StartTracking(s, ok) ==
  /\ Awake /\ ~SessionActive /\ ~offline
  /\ CreateRoute(s, ok)
  /\ IF ok THEN Becomes("Recording", s) ELSE KeepsSession
  /\ AgeFollows /\ KeepsTime
  /\ UNCHANGED <<modeVars, asleep, rtc>>

\* Broken variant of pause_tracking(): the route stays open.
PauseWithoutClose ==
  /\ Awake /\ trackingState = "Recording"
  /\ Becomes("Paused", trackingId)
  /\ UNCHANGED <<storeVars, modeVars, asleep, rtc>>
  /\ AgeFollows /\ KeepsTime

\* pause_tracking(): Paused whether or not the close saved the points.
PauseTracking ==
  /\ Awake /\ trackingState = "Recording"
  /\ \E saved \in BOOLEAN : EndRoute(saved)
  /\ Becomes("Paused", trackingId)
  /\ AgeFollows /\ KeepsTime
  /\ UNCHANGED <<modeVars, asleep, rtc>>

\* resume_tracking(): stays Paused when the route does not open.
ResumeTracking(ok) ==
  /\ Awake /\ trackingState = "Paused"
  /\ ResumeRoute(trackingId, ok)
  /\ Becomes(IF ok THEN "Recording" ELSE "Paused", trackingId)
  /\ AgeFollows /\ KeepsTime
  /\ UNCHANGED <<modeVars, asleep, rtc>>

\* stop_tracking()
StopTracking ==
  /\ Awake /\ SessionActive
  /\ \E saved \in BOOLEAN : EndRoute(saved)
  /\ Becomes("Idle", NoSession)
  /\ AgeFollows /\ KeepsTime
  /\ UNCHANGED <<modeVars, asleep, rtc>>

\* on_sensor_data() of a scheduled measurement: a failed append changes nothing
\* in the session.
Measure ==
  /\ Awake /\ sinceMeasure >= period
  /\ sinceMeasure' = 0
  /\ IF IsRecording THEN AppendRoutePoint ELSE UNCHANGED storeVars
  /\ AgeFollows /\ KeepsSession
  /\ UNCHANGED <<modeVars, asleep, rtc, period>>

\* clear_data(): stop_tracking() closes the route that clear_routes() would.
ClearData(gone) ==
  /\ Awake
  /\ ClearRoutes(gone)
  /\ Becomes("Idle", NoSession)
  /\ AgeFollows /\ KeepsTime
  /\ UNCHANGED <<modeVars, asleep, rtc>>

\* factory_reset(): clear_data() and, when everything was cleared, the default
\* settings, whose mode is Portable.
FactoryReset(gone, ok) ==
  /\ Awake
  /\ ClearRoutes(gone)
  /\ ok => exists' = {} /\ mounted
  /\ Becomes("Idle", NoSession)
  /\ IF ok THEN offline' = FALSE /\ savedOffline' = FALSE ELSE UNCHANGED modeVars
  /\ AgeFollows /\ KeepsTime
  /\ UNCHANGED <<asleep, rtc>>

\* Broken variant of the history delete: refused only while points are recorded.
DeleteWhilePaused(s) ==
  /\ Awake /\ ~(IsRecording /\ trackingId = s)
  /\ DeleteRoute(s)
  /\ AgeFollows /\ KeepsSession /\ KeepsTime
  /\ UNCHANGED <<modeVars, asleep, rtc>>

\* BLE history delete: refused for the active session, open or paused.
HistoryDelete(s) ==
  /\ Awake /\ ~(SessionActive /\ trackingId = s)
  /\ DeleteRoute(s)
  /\ AgeFollows /\ KeepsSession /\ KeepsTime
  /\ UNCHANGED <<modeVars, asleep, rtc>>

\* activate_settings_candidate() with another mode; persist is false in the
\* manufacturing mode.  Entering Energy Saving ends the session.
ChangeMode(persist) ==
  /\ Awake
  /\ offline' = ~offline
  /\ savedOffline' = IF persist THEN offline' ELSE savedOffline
  /\ IF offline' /\ SessionActive
       THEN (\E saved \in BOOLEAN : EndRoute(saved)) /\ Becomes("Idle", NoSession)
       ELSE UNCHANGED storeVars /\ KeepsSession
  /\ AgeFollows /\ KeepsTime
  /\ UNCHANGED <<asleep, rtc>>

\* Broken variant of the interval change: the timer anchor is left where it was.
ChangePeriodOnly(p) ==
  /\ Awake /\ p # period
  /\ period' = p
  /\ UNCHANGED <<storeVars, trackingState, trackingId, modeVars, asleep, rtc, unsyncedAge, sinceMeasure>>

\* activate_settings_candidate() with another interval: reschedule_sensor_timer().
ChangePeriod(p) ==
  /\ Awake /\ p # period
  /\ period' = p /\ sinceMeasure' = 0
  /\ UNCHANGED <<storeVars, trackingState, trackingId, modeVars, asleep, rtc, unsyncedAge>>

\* try_enter_sleep() with its prepare_for_sleep(), in Energy Saving.
DeepSleep ==
  /\ Awake /\ offline
  /\ \E saved \in BOOLEAN : EndRoute(saved)
  /\ rtc' = Snapshot
  /\ asleep' = TRUE
  /\ AgeFollows /\ KeepsSession /\ KeepsTime
  /\ UNCHANGED modeVars

\* shutdown(): to ship mode or, on USB power, into the charging-only boot.  A unit
\* in manufacturing mode is factory-reset first, as far as that gets.
Shutdown ==
  /\ Awake
  /\ \/ (\E saved \in BOOLEAN : EndRoute(saved)) /\ UNCHANGED modeVars
     \/ \E gone \in SUBSET Sessions :
          /\ ClearRoutes(gone)
          /\ \/ UNCHANGED modeVars
             \/ exists' = {} /\ mounted /\ offline' = FALSE /\ savedOffline' = FALSE
  /\ Becomes("Idle", NoSession)
  /\ rtc' = IdleRtc
  /\ asleep' = TRUE
  /\ AgeFollows /\ KeepsTime

\* init() after deep sleep.  The mode is the saved one; outside Energy Saving
\* the session comes back from RTC memory, and a recording one only together
\* with its route.
Wake ==
  /\ asleep
  /\ asleep' = FALSE /\ offline' = savedOffline /\ sinceMeasure' = 0
  /\ LET back == IF savedOffline THEN IdleRtc ELSE rtc IN
       IF back.state = "Recording"
         THEN \/ ResumeRoute(back.id, TRUE) /\ Becomes("Recording", back.id)
              \/ ResumeRoute(back.id, FALSE) /\ Becomes("Idle", NoSession)
              \/ UNCHANGED storeVars /\ Becomes("Idle", NoSession)
         ELSE UNCHANGED storeVars /\ Becomes(back.state, back.id)
  /\ AgeFollows
  /\ UNCHANGED <<savedOffline, rtc, period>>

\* A power cut, panic or watchdog reset: init() restores nothing on PowerOn.
Restart ==
  /\ PowerCut
  /\ Becomes("Idle", NoSession)
  /\ asleep' = FALSE /\ offline' = savedOffline /\ sinceMeasure' = 0
  /\ rtc' = IdleRtc
  /\ AgeFollows
  /\ UNCHANGED <<savedOffline, period>>

\* Time passes between events, not beyond a due measurement.
Pass ==
  /\ Awake /\ sinceMeasure < period
  /\ sinceMeasure' = sinceMeasure + 1
  /\ unsyncedAge' = IF unsyncedAge = NoAge THEN NoAge ELSE Smaller(unsyncedAge + 1, Interval + 1)
  /\ Tick
  /\ KeepsSession
  /\ UNCHANGED <<modeVars, asleep, rtc, period>>

-----------------------------------------------------------------------------
Init ==
  /\ StoreInit
  /\ trackingState = "Idle" /\ trackingId = NoSession
  /\ offline \in BOOLEAN /\ savedOffline = offline
  /\ asleep = FALSE /\ rtc = IdleRtc
  /\ period \in Periods /\ sinceMeasure = 0
  /\ unsyncedAge = NoAge

Next ==
  \/ \E s \in Sessions, ok \in BOOLEAN : StartTracking(s, ok)
  \/ PauseTracking
  \/ \E ok \in BOOLEAN : ResumeTracking(ok)
  \/ StopTracking
  \/ Measure
  \/ \E gone \in SUBSET Sessions : ClearData(gone)
  \/ \E gone \in SUBSET Sessions, ok \in BOOLEAN : FactoryReset(gone, ok)
  \/ \E s \in Sessions : HistoryDelete(s)
  \/ \E persist \in BOOLEAN : ChangeMode(persist)
  \/ \E p \in Periods : ChangePeriod(p)
  \/ DeepSleep
  \/ Shutdown
  \/ Wake
  \/ Restart
  \/ Pass

Spec == Init /\ [][Next]_vars

-----------------------------------------------------------------------------
\* Type invariant of the store and the session, with the measurement clock within its period.
TrackingTypeOK ==
  /\ TypeOK
  /\ trackingState \in {"Idle", "Recording", "Paused"}
  /\ trackingId \in Sessions \cup {NoSession}
  /\ {offline, savedOffline, asleep} \subseteq BOOLEAN
  /\ rtc \in [state : {"Idle", "Recording", "Paused"}, id : Sessions \cup {NoSession}]
  /\ period \in Periods /\ sinceMeasure \in 0..period
  /\ unsyncedAge \in NoAge..(Interval + 1)

\* What the tracking icon and the BLE status say is what happens: a session shows
\* as recording exactly while its own route is open for writing.
RecordingHasRoute ==
  /\ (trackingState = "Recording") <=> (open # NoSession)
  /\ open # NoSession => open = trackingId /\ Awake

\* The file of a session in progress, paused ones included, exists and its name
\* outlives a power cut: neither a history delete, nor a failed close, nor a sleep
\* takes it away while the user still sees the session.  Nor is there a session in
\* Energy Saving or asleep, where init() would drop it from the RTC state.
ActiveSessionStored ==
  SessionActive => /\ trackingId \in exists /\ durable[trackingId] # NoEntry
                   /\ ~offline /\ ~asleep

\* The durability budget as products/go/docs/storage_service.md:196 states it: "bounding
\* the worst-case data loss on a power cut to the configured window regardless of
\* the measurement period".
LossWindow == unsyncedAge <= Interval

\* An append that fails leaves the session able to record, as
\* products/go/docs/orchestrator.md:432 has it: "the session keeps running so
\* subsequent appends can retry against a recovered NAND".
RetryKeepsFraming == \A s \in exists : Framed(s)

AcceptedUnits(s) == IF s = open THEN file[s] \o buf ELSE file[s]
AcceptedPoints(s) ==
  [i \in 1..(Len(AcceptedUnits(s)) \div RecordUnits) |-> AcceptedUnits(s)[RecordUnits * i - 1][1]]
UserLog == INSTANCE DurableLog WITH
  LogSessions <- Sessions, LogPoints <- 1..MaxAppends, Closed <- NoSession,
  live <- exists, writing <- open,
  log <- [s \in Sessions |-> AcceptedPoints(s)],
  safe <- [s \in Sessions |-> IF durable[s] = NoEntry THEN 0 ELSE durable[s] \div RecordUnits]
\* The session as its user sees it: points kept in order, only the newest unsynced
\* ones lost, and only to a power cut.
ImplementsUserLog == UserLog!LogSpec
=============================================================================
