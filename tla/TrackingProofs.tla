----------------------------- MODULE TrackingProofs -----------------------------
(***************************************************************************)
(* Proofs about Tracking: for any number of sessions, any intervals and    *)
(* any faults of the medium, the state of a session agrees with the route  *)
(* storage below it, and the session layer uses the storage only as the    *)
(* proofs about the storage allow.  On a medium whose writes do not fail,  *)
(* the whole implements DurableLog.                                        *)
(***************************************************************************)
EXTENDS Tracking, RouteStorageProofs

States == {"Idle", "Recording", "Paused"}

SessionTypes ==
  /\ trackingState \in States /\ trackingId \in Sessions \cup {NoSession}
  /\ offline \in BOOLEAN /\ savedOffline \in BOOLEAN /\ asleep \in BOOLEAN

ClockTypes ==
  /\ period \in Periods /\ sinceMeasure \in 0..period
  /\ unsyncedAge \in NoAge..(Interval + 1)

\* A device falls asleep only without a session: the RTC memory never holds one.
RtcIdle == rtc.state = "Idle" /\ rtc \in [state : States, id : Sessions \cup {NoSession}]

TrackInv ==
  /\ StoreInv /\ SessionTypes /\ ClockTypes /\ RtcIdle
  /\ RecordingHasRoute /\ ActiveSessionStored

\* The file of s is there, and its name is safe.
Stored(s) == s \in exists /\ durable[s] # NoEntry

-----------------------------------------------------------------------------
(* What the storage does is always a step of RouteStorage.                  *)

LEMMA EndIsStep ==
  ASSUME NEW saved \in BOOLEAN, EndRoute(saved)
  PROVE  [StoreNext]_storeVars
BY DEF EndRoute, StoreNext

LEMMA StoreMoves ==
  ASSUME TrackInv, [Next]_vars
  PROVE  [StoreNext]_storeVars
<1>1. CASE UNCHANGED vars
  BY <1>1 DEF vars
<1>2. ASSUME NEW s \in Sessions, NEW ok \in BOOLEAN, StartTracking(s, ok)
      PROVE  [StoreNext]_storeVars
  BY <1>2 DEF StartTracking, StoreNext
<1>3. CASE PauseTracking
  BY <1>3, EndIsStep DEF PauseTracking
<1>4. ASSUME NEW ok \in BOOLEAN, ResumeTracking(ok)
      PROVE  [StoreNext]_storeVars
  <2>1. trackingId \in Sessions
    BY <1>4 DEF TrackInv, ResumeTracking, ActiveSessionStored, SessionActive, StoreInv, TypeOK
  <2> QED
    BY <1>4, <2>1 DEF ResumeTracking, StoreNext
<1>5. CASE StopTracking
  BY <1>5, EndIsStep DEF StopTracking
<1>6. CASE Measure
  BY <1>6 DEF Measure, StoreNext
<1>7. ASSUME NEW gone \in SUBSET Sessions, ClearRoutes(gone)
      PROVE  [StoreNext]_storeVars
  BY <1>7 DEF StoreNext
<1>8. ASSUME NEW s \in Sessions, HistoryDelete(s)
      PROVE  [StoreNext]_storeVars
  <2>1. s # open
    BY <1>8, SessionsAssumption DEF HistoryDelete, TrackInv, RecordingHasRoute, SessionActive
  <2> QED
    BY <1>8, <2>1 DEF HistoryDelete, StoreNext
<1>9. ASSUME NEW persist \in BOOLEAN, ChangeMode(persist)
      PROVE  [StoreNext]_storeVars
  BY <1>9, EndIsStep DEF ChangeMode
<1>10. CASE DeepSleep
  BY <1>10, EndIsStep DEF DeepSleep
<1>11. CASE Shutdown
  BY <1>7, <1>11, EndIsStep DEF Shutdown
<1>12. CASE Wake
  <2>1. UNCHANGED storeVars
    BY <1>12 DEF Wake, TrackInv, RtcIdle, IdleRtc
  <2> QED
    BY <2>1
<1>13. CASE Restart
  BY <1>13 DEF Restart, StoreNext
<1>14. CASE Pass
  BY <1>14 DEF Pass, StoreNext
<1>15. ASSUME NEW p \in Periods, ChangePeriod(p)
       PROVE  [StoreNext]_storeVars
  BY <1>15 DEF ChangePeriod
<1> QED
  BY <1>1, <1>2, <1>3, <1>4, <1>5, <1>6, <1>7, <1>8, <1>9, <1>10, <1>11, <1>12, <1>13, <1>14, <1>15
     DEF Next, ClearData, FactoryReset
-----------------------------------------------------------------------------
(* What the storage keeps of a session's file.                              *)

\* A sync makes more durable, never less.
LEMMA SyncKeepsName ==
  ASSUME StoreInv, open # NoSession, NEW data \in Seq(Unit), NEW b \in Seq(Unit),
         Len(file[open]) <= Len(data), NEW y \in SyncOutcomes(data, b), durable[open] # NoEntry
  PROVE  DurableAfter(y, durable[open]) # NoEntry
<1>1. durable[open] \in Nat \cup {NoEntry} /\ durable[open] <= Len(file[open])
  BY DEF StoreInv, TypeOK, StoreShape
<1>2. Len(data) \in Nat /\ Len(file[open]) \in Nat
  BY LenProperties DEF StoreInv, TypeOK
<1>3. durable[open] \in Nat /\ durable[open] <= Len(data)
  BY <1>1, <1>2
<1>4. /\ DurableAfter(y, durable[open]) \in Nat \cup {NoEntry}
      /\ durable[open] <= DurableAfter(y, durable[open])
  BY <1>3, SyncFacts
<1> QED
  BY <1>3, <1>4 DEF NoEntry

\* end_route() keeps every file and its name, whether or not it saved the points.
LEMMA EndKeeps ==
  ASSUME StoreInv, NEW saved \in BOOLEAN, EndRoute(saved), NEW s \in Sessions, Stored(s)
  PROVE  Stored(s)'
<1>1. CASE UNCHANGED storeVars
  BY <1>1 DEF storeVars, Stored
<1>2. CASE CloseRoute(saved)
  <2>1. PICK y \in SyncOutcomes(file[open], buf) :
          durable' = [durable EXCEPT ![open] = DurableAfter(y, durable[open])]
    BY <1>2 DEF CloseRoute
  <2>2. open # NoSession /\ exists' = exists
    BY <1>2 DEF CloseRoute
  <2>3. file[open] \in Seq(Unit) /\ buf \in Seq(Unit) /\ Len(file[open]) <= Len(file[open])
    BY <2>2, LenProperties DEF StoreInv, TypeOK, StoreShape
  <2>4. CASE s = open
    BY <2>1, <2>2, <2>3, <2>4, SyncKeepsName DEF Stored, StoreInv, TypeOK
  <2>5. CASE s # open
    BY <2>1, <2>2, <2>5 DEF Stored, StoreInv, TypeOK
  <2> QED
    BY <2>4, <2>5
<1> QED
  BY <1>1, <1>2 DEF EndRoute

LEMMA EndCloses ==
  ASSUME NEW saved \in BOOLEAN, EndRoute(saved)
  PROVE  open' = NoSession
BY DEF EndRoute, CloseRoute, CloseWriter, storeVars

\* append_route_point() keeps them too, torn or not.
LEMMA AppendKeeps ==
  ASSUME StoreInv, AppendRoutePoint, NEW s \in Sessions, Stored(s)
  PROVE  Stored(s)' /\ open' = open
<1>1. open # NoSession /\ exists' = exists /\ open' = open /\ appends + 1 \in 1..MaxAppends
  BY BoundsAssumption DEF AppendRoutePoint, StoreInv, TypeOK
<1>2. CASE UNCHANGED durable
  BY <1>1, <1>2 DEF Stored
<1>3. CASE ~UNCHANGED durable
  <2>1. PICK w \in WriteOutcomes(file[open], buf, Record(appends + 1)) :
          \E y \in SyncOutcomes(w.data, w.buf) :
            durable' = [durable EXCEPT ![open] = DurableAfter(y, durable[open])]
    BY <1>3 DEF AppendRoutePoint
  <2>2. PICK y \in SyncOutcomes(w.data, w.buf) :
          durable' = [durable EXCEPT ![open] = DurableAfter(y, durable[open])]
    BY <2>1
  <2>3. file[open] \in Seq(Unit) /\ buf \in Seq(Unit)
    BY <1>1 DEF StoreInv, TypeOK, StoreShape
  <2>4. Record(appends + 1) \in Seq(Unit) /\ Len(Record(appends + 1)) = RecordUnits
    BY <1>1, RecordType
  <2>5. w.data \in Seq(Unit) /\ Begins(w.data, file[open]) /\ w.buf \in Seq(Unit)
    BY <2>3, <2>4, WriteFacts
  <2>6. durable[open] # NoEntry => DurableAfter(y, durable[open]) # NoEntry
    BY <1>1, <2>5, SyncKeepsName DEF Begins
  <2>7. CASE s = open
    BY <1>1, <2>2, <2>6, <2>7 DEF Stored, StoreInv, TypeOK
  <2>8. CASE s # open
    BY <1>1, <2>2, <2>8 DEF Stored, StoreInv, TypeOK
  <2> QED
    BY <1>1, <2>7, <2>8
<1> QED
  BY <1>1, <1>2, <1>3

\* resume_route() may cut a torn record off, and keeps the file.
LEMMA ResumeKeeps ==
  ASSUME StoreInv, StoreInv', NEW s \in Sessions, NEW ok \in BOOLEAN, ResumeRoute(s, ok), Stored(s)
  PROVE  Stored(s)' /\ open' = IF ok THEN s ELSE NoSession
<1>1. open' = IF ok THEN s ELSE NoSession
  BY DEF ResumeRoute, writer
<1>2. exists' = exists
  BY DEF ResumeRoute
<1>3. file[s] \in Seq(Unit) /\ durable[s] \in Nat
  BY DEF StoreInv, TypeOK, Stored, NoEntry
<1>4. Len(file[s]) \in Nat
  BY <1>3, LenProperties
<1>5. Len(file[s]) - TornUnits(s) \in 0..Len(file[s])
  BY <1>4, DropOdd DEF TornUnits, RecordUnits
<1>6. Len(TruncatedFile(s)) \in Nat
  BY <1>3, <1>5, PrefixFacts DEF TruncatedFile
<1>7. durable'[s] = Smaller(durable[s], Len(TruncatedFile(s)))
  BY <1>3 DEF ResumeRoute, StoreInv, TypeOK
<1>8. durable'[s] \in Nat
  BY <1>3, <1>6, <1>7 DEF Smaller
<1> QED
  BY <1>1, <1>2, <1>8 DEF Stored, NoEntry

-----------------------------------------------------------------------------
(* The session above it.                                                    *)

\* The clocks, whatever the handler does.
LEMMA ClockStep ==
  ASSUME TrackInv, [Next]_vars
  PROVE  ClockTypes'
<1> USE PeriodsAssumption, BoundsAssumption DEF TrackInv, ClockTypes, NoAge
<1>0. period \in Nat \ {0} /\ Interval + 1 \in Nat \ {0}
  OBVIOUS
<1>1. CASE UNCHANGED vars
  BY <1>1 DEF vars
<1>2. CASE AgeFollows /\ KeepsTime
  BY <1>2 DEF AgeFollows, KeepsTime
<1>3. CASE AgeFollows /\ period' = period /\ sinceMeasure' = 0
  BY <1>0, <1>3 DEF AgeFollows
<1>4. CASE Pass
  <2>1. sinceMeasure' \in 0..period /\ period' = period
    BY <1>0, <1>4 DEF Pass
  <2>2. unsyncedAge' \in -1..(Interval + 1)
    BY <1>0, <1>4 DEF Pass, Smaller
  <2> QED
    BY <2>1, <2>2
<1>5. ASSUME NEW p \in Periods, ChangePeriod(p)
      PROVE  ClockTypes'
  BY <1>5 DEF ChangePeriod
<1> QED
  BY <1>1, <1>2, <1>3, <1>4, <1>5
     DEF Next, StartTracking, PauseTracking, ResumeTracking, StopTracking, Measure, ClearData,
         FactoryReset, HistoryDelete, ChangeMode, DeepSleep, Shutdown, Wake, Restart

\* A step that ends the session, or leaves it ended, with the route closed.
LEMMA NoSessionStep ==
  ASSUME trackingState' = "Idle", open' = NoSession
  PROVE  RecordingHasRoute' /\ ActiveSessionStored'
BY DEF RecordingHasRoute, ActiveSessionStored, SessionActive

\* A step of a session in progress that keeps its file.
LEMMA SessionStep ==
  ASSUME trackingState' \in {"Recording", "Paused"},
         trackingState' = "Recording" <=> open' # NoSession,
         open' # NoSession => open' = trackingId', ~asleep', ~offline', Stored(trackingId)'
  PROVE  RecordingHasRoute' /\ ActiveSessionStored'
BY DEF RecordingHasRoute, ActiveSessionStored, SessionActive, Stored, Awake

LEMMA ActiveFacts ==
  ASSUME TrackInv, SessionActive
  PROVE  trackingId \in Sessions /\ Stored(trackingId) /\ ~offline /\ ~asleep
BY DEF TrackInv, ActiveSessionStored, StoreInv, TypeOK, Stored

LEMMA ClearCloses ==
  ASSUME NEW gone \in SUBSET Sessions, ClearRoutes(gone)
  PROVE  open' = NoSession
BY DEF ClearRoutes, CloseWriter, writer

\* Types of the session and of what deep sleep retains, which is never a session.
LEMMA TypesStep ==
  ASSUME TrackInv, [Next]_vars
  PROVE  SessionTypes' /\ RtcIdle'
<1> USE DEF TrackInv, SessionTypes, RtcIdle, States
<1>1. CASE UNCHANGED vars
  BY <1>1 DEF vars, modeVars
<1>2. ASSUME NEW s \in Sessions, NEW ok \in BOOLEAN, StartTracking(s, ok)
      PROVE  SessionTypes' /\ RtcIdle'
  BY <1>2 DEF StartTracking, Becomes, KeepsSession, modeVars
<1>3. CASE PauseTracking \/ StopTracking
  BY <1>3 DEF PauseTracking, StopTracking, Becomes, modeVars
<1>4. ASSUME NEW ok \in BOOLEAN, ResumeTracking(ok)
      PROVE  SessionTypes' /\ RtcIdle'
  BY <1>4 DEF ResumeTracking, Becomes, modeVars
<1>5. CASE Measure \/ Pass \/ \E s \in Sessions : HistoryDelete(s)
  BY <1>5 DEF Measure, Pass, HistoryDelete, KeepsSession, modeVars
<1>6. CASE \E gone \in SUBSET Sessions : ClearData(gone)
  BY <1>6 DEF ClearData, Becomes, modeVars
<1>7. ASSUME NEW gone \in SUBSET Sessions, NEW ok \in BOOLEAN, FactoryReset(gone, ok)
      PROVE  SessionTypes' /\ RtcIdle'
  BY <1>7 DEF FactoryReset, Becomes, modeVars
<1>8. ASSUME NEW persist \in BOOLEAN, ChangeMode(persist)
      PROVE  SessionTypes' /\ RtcIdle'
  BY <1>8 DEF ChangeMode, Becomes, KeepsSession
<1>9. ASSUME NEW p \in Periods, ChangePeriod(p)
      PROVE  SessionTypes' /\ RtcIdle'
  BY <1>9 DEF ChangePeriod, modeVars
<1>10. CASE DeepSleep
  <2>1. trackingState = "Idle"
    BY <1>10, ActiveFacts DEF DeepSleep, SessionActive
  <2> QED
    BY <1>10, <2>1 DEF DeepSleep, Snapshot, KeepsSession, modeVars
<1>11. CASE Shutdown
  BY <1>11 DEF Shutdown, Becomes, IdleRtc, modeVars
<1>12. CASE Wake
  BY <1>12 DEF Wake, Becomes, IdleRtc
<1>13. CASE Restart
  BY <1>13 DEF Restart, Becomes, IdleRtc
<1> QED
  BY <1>1, <1>2, <1>3, <1>4, <1>5, <1>6, <1>7, <1>8, <1>9, <1>10, <1>11, <1>12, <1>13 DEF Next

LEMMA RouteStep ==
  ASSUME TrackInv, StoreInv', [Next]_vars
  PROVE  RecordingHasRoute' /\ ActiveSessionStored'
<1> DEFINE Goal == RecordingHasRoute' /\ ActiveSessionStored'
<1>a. StoreInv /\ RecordingHasRoute /\ trackingState \in States
  BY DEF TrackInv, SessionTypes
<1>b. ASSUME UNCHANGED <<exists, durable, open, trackingState, trackingId, offline, asleep>>
      PROVE  Goal
  BY <1>b DEF TrackInv, RecordingHasRoute, ActiveSessionStored, SessionActive, Awake
<1>1. CASE UNCHANGED vars
  BY <1>1, <1>b DEF vars, storeVars, modeVars
<1>2. ASSUME NEW s \in Sessions, NEW ok \in BOOLEAN, StartTracking(s, ok)
      PROVE  Goal
  <2>1. CASE ok
    <3>1. open' = s /\ s \in exists' /\ durable'[s] = 0
      BY <1>2, <1>a, <2>1 DEF StartTracking, CreateRoute, StoreInv, TypeOK, writer
    <3>2. trackingState' = "Recording" /\ trackingId' = s /\ ~asleep' /\ ~offline'
      BY <1>2, <2>1 DEF StartTracking, Becomes, Awake, modeVars
    <3> QED
      BY <3>1, <3>2, SessionStep, SessionsAssumption DEF Stored, NoEntry
  <2>2. CASE ~ok
    <3>1. open' = NoSession /\ trackingState' = trackingState /\ trackingState = "Idle"
      BY <1>2, <1>a, <2>2 DEF StartTracking, CreateRoute, writer, KeepsSession, SessionActive, States
    <3> QED
      BY <3>1, NoSessionStep
  <2> QED
    BY <2>1, <2>2
<1>3. CASE PauseTracking
  <2>1. SessionActive /\ trackingState' = "Paused" /\ UNCHANGED <<trackingId, offline, asleep>>
    BY <1>3 DEF PauseTracking, SessionActive, Becomes, modeVars
  <2>2. PICK saved \in BOOLEAN : EndRoute(saved)
    BY <1>3 DEF PauseTracking
  <2>3. open' = NoSession /\ Stored(trackingId)'
    BY <1>a, <2>1, <2>2, ActiveFacts, EndKeeps, EndCloses DEF Stored
  <2> QED
    BY <2>1, <2>3, ActiveFacts, SessionStep
<1>4. ASSUME NEW ok \in BOOLEAN, ResumeTracking(ok)
      PROVE  Goal
  <2>1. /\ SessionActive /\ trackingState' = (IF ok THEN "Recording" ELSE "Paused")
        /\ UNCHANGED <<trackingId, offline, asleep>> /\ ResumeRoute(trackingId, ok)
    BY <1>4 DEF ResumeTracking, SessionActive, Becomes, modeVars
  <2>2. trackingId \in Sessions /\ Stored(trackingId) /\ ~offline /\ ~asleep
    BY <2>1, ActiveFacts
  <2>3. open' = (IF ok THEN trackingId ELSE NoSession) /\ Stored(trackingId)'
    BY <1>a, <2>1, <2>2, ResumeKeeps DEF Stored
  <2> QED
    BY <2>1, <2>2, <2>3, SessionStep, SessionsAssumption
<1>5. CASE StopTracking
  <2>1. trackingState' = "Idle" /\ open' = NoSession
    BY <1>5, EndCloses DEF StopTracking, Becomes
  <2> QED
    BY <2>1, NoSessionStep
<1>6. CASE Measure
  <2>1. CASE IsRecording
    <3>1. SessionActive /\ trackingState = "Recording" /\ AppendRoutePoint
      BY <1>6, <2>1 DEF Measure, IsRecording, SessionActive
    <3>2. Stored(trackingId)' /\ open' = open
      BY <1>6, <1>a, <3>1, ActiveFacts, AppendKeeps DEF Measure, KeepsSession, Stored
    <3>3. UNCHANGED <<trackingState, trackingId, offline, asleep>>
      BY <1>6 DEF Measure, KeepsSession, modeVars
    <3> QED
      BY <1>a, <3>1, <3>2, <3>3, ActiveFacts, SessionStep DEF RecordingHasRoute
  <2>2. CASE ~IsRecording
    BY <1>6, <1>b, <2>2 DEF Measure, KeepsSession, modeVars, storeVars
  <2> QED
    BY <2>1, <2>2
<1>7. ASSUME NEW gone \in SUBSET Sessions, ClearRoutes(gone), trackingState' = "Idle"
      PROVE  Goal
  BY <1>7, ClearCloses, NoSessionStep
<1>8. ASSUME NEW s \in Sessions, HistoryDelete(s)
      PROVE  Goal
  <2>1. UNCHANGED <<open, trackingState, trackingId, offline, asleep>>
    BY <1>8 DEF HistoryDelete, DeleteRoute, KeepsSession, modeVars
  <2>2. CASE SessionActive
    <3>1. trackingId # s /\ Stored(trackingId) /\ trackingId \in Sessions
      BY <1>8, <2>2, ActiveFacts DEF HistoryDelete
    <3>2. Stored(trackingId)'
      BY <1>8, <2>1, <3>1 DEF HistoryDelete, DeleteRoute, Unlinked, Stored
    <3> QED
      BY <1>a, <2>1, <2>2, <3>2, ActiveFacts, SessionStep DEF RecordingHasRoute, SessionActive
  <2>3. CASE ~SessionActive
    <3>1. trackingState' = "Idle" /\ open' = NoSession
      BY <1>a, <2>1, <2>3 DEF SessionActive, States, RecordingHasRoute
    <3> QED
      BY <3>1, NoSessionStep
  <2> QED
    BY <2>2, <2>3
<1>9. ASSUME NEW persist \in BOOLEAN, ChangeMode(persist)
      PROVE  Goal
  <2>1. CASE offline' /\ SessionActive
    <3>1. trackingState' = "Idle" /\ open' = NoSession
      BY <1>9, <2>1, EndCloses DEF ChangeMode, Becomes
    <3> QED
      BY <3>1, NoSessionStep
  <2>2. CASE ~(offline' /\ SessionActive)
    <3>1. UNCHANGED <<storeVars, trackingState, trackingId>>
      BY <1>9, <2>2 DEF ChangeMode, KeepsSession
    <3>2. ~SessionActive
      BY <1>9, <2>2, ActiveFacts DEF ChangeMode
    <3>3. trackingState' = "Idle" /\ open' = NoSession
      BY <1>a, <3>1, <3>2 DEF SessionActive, States, RecordingHasRoute, storeVars
    <3> QED
      BY <3>3, NoSessionStep
  <2> QED
    BY <2>1, <2>2
<1>10. ASSUME NEW p \in Periods, ChangePeriod(p)
       PROVE  Goal
  BY <1>10, <1>b DEF ChangePeriod, storeVars, modeVars
<1>11. CASE DeepSleep
  <2>1. trackingState = "Idle" /\ trackingState' = "Idle"
    BY <1>a, <1>11, ActiveFacts DEF DeepSleep, SessionActive, States, KeepsSession
  <2>2. open' = NoSession
    BY <1>11, EndCloses DEF DeepSleep
  <2> QED
    BY <2>1, <2>2, NoSessionStep
<1>12. CASE Shutdown
  <2>1. trackingState' = "Idle"
    BY <1>12 DEF Shutdown, Becomes
  <2> QED
    BY <1>7, <1>12, <2>1, EndCloses, NoSessionStep DEF Shutdown
<1>13. CASE Wake
  <2>1. trackingState' = "Idle" /\ UNCHANGED storeVars
    BY <1>13 DEF Wake, TrackInv, RtcIdle, IdleRtc, Becomes
  <2>2. open = NoSession
    BY <1>13, <1>a DEF Wake, RecordingHasRoute, Awake
  <2> QED
    BY <2>1, <2>2, NoSessionStep DEF storeVars
<1>14. CASE Restart
  BY <1>14, NoSessionStep DEF Restart, PowerCut, CloseWriter, Becomes
<1>15. CASE Pass
  BY <1>15, <1>b DEF Pass, Tick, KeepsSession, modeVars
<1> QED
  BY <1>1, <1>2, <1>3, <1>4, <1>5, <1>6, <1>7, <1>8, <1>9, <1>10, <1>11, <1>12, <1>13, <1>14, <1>15
     DEF Next, ClearData, FactoryReset, Becomes

-----------------------------------------------------------------------------
(* Everything together.                                                     *)

LEMMA InitTrack == Init => TrackInv
<1> SUFFICES ASSUME Init PROVE TrackInv
  OBVIOUS
<1>1. StoreInv
  BY InitStore DEF Init
<1>2. SessionTypes /\ RtcIdle
  BY DEF Init, SessionTypes, States, RtcIdle, IdleRtc
<1>3. ClockTypes
  BY PeriodsAssumption, BoundsAssumption DEF Init, ClockTypes, NoAge
<1>4. RecordingHasRoute /\ ActiveSessionStored
  BY DEF Init, StoreInit, RecordingHasRoute, ActiveSessionStored, SessionActive
<1> QED
  BY <1>1, <1>2, <1>3, <1>4 DEF TrackInv

LEMMA NextTrack ==
  ASSUME TrackInv, [Next]_vars
  PROVE  TrackInv'
<1>1. StoreInv'
  BY StoreMoves, StoreStep DEF TrackInv
<1> QED
  BY <1>1, ClockStep, TypesStep, RouteStep DEF TrackInv

\* The invariant of the session and its storage.
THEOREM TrackingSafe == Spec => []TrackInv
BY InitTrack, NextTrack, PTL DEF Spec

\* Types of the composed system; the measurement clock stays within its period.
THEOREM TrackingTypes == Spec => []TrackingTypeOK
<1>1. TrackInv => TrackingTypeOK
  BY DEF TrackInv, StoreInv, SessionTypes, States, ClockTypes, RtcIdle, TrackingTypeOK
<1> QED
  BY <1>1, TrackingSafe, PTL

\* A session shows as recording exactly while its own route is open, whatever fails below.
THEOREM RouteFollowsState == Spec => []RecordingHasRoute
<1>1. TrackInv => RecordingHasRoute
  BY DEF TrackInv
<1> QED
  BY <1>1, TrackingSafe, PTL

\* The file of a session in progress is never taken away, and its name outlives a power cut;
\* no session is in progress asleep or in Energy Saving.
THEOREM SessionStored == Spec => []ActiveSessionStored
<1>1. TrackInv => ActiveSessionStored
  BY DEF TrackInv
<1> QED
  BY <1>1, TrackingSafe, PTL

\* The handlers use the storage only as its specification allows (they never delete the route
\* that is open), so that whatever is proved of the storage holds of the whole.
THEOREM UsesStorage == Spec => StoreSpec
<1>1. Init => StoreInit
  BY DEF Init
<1> QED
  BY <1>1, StoreMoves, TrackingSafe, PTL DEF Spec, StoreSpec

\* A record that an fsync covered is never lost, moved or changed while its file exists:
\* through pauses, mode changes, sleeps, history deletes and power cuts of the whole device.
THEOREM SyncedPointsKept == Spec => DurableKept
BY UsesStorage, DurableRecordsKept, PTL

\* Through all of these a reader finds whole records in order in a session no write of which
\* failed part-way, and the count on the status screen is what it would find.
THEOREM ReadersAgree == Spec => [](FramingIntact /\ CountAgrees)
BY UsesStorage, RecordsWhole, CountShown, PTL

-----------------------------------------------------------------------------
(* The log of a session, read off its bytes.                                *)

Points(u) == [i \in 1..(Len(u) \div RecordUnits) |-> u[RecordUnits * i - 1][1]]
Point == 1..MaxAppends

\* The points of whole records, half of one at the end left out.
LEMMA PointsType ==
  ASSUME NEW u \in Seq(Unit)
  PROVE  /\ Points(u) \in Seq(Point)
         /\ Len(Points(u)) = Len(u) \div 2 /\ Len(u) \div 2 \in Nat
         /\ \A i \in 1..(Len(u) \div 2) : Points(u)[i] = u[2 * i - 1][1]
<1> DEFINE n == Len(u) \div 2
<1>1. Len(u) \in Nat /\ n \in Nat /\ 2 * n <= Len(u)
  BY LenProperties, DropOdd, Halves
<1>2. ASSUME NEW i \in 1..n PROVE u[2 * i - 1][1] \in Point
  <2>1. 2 * i - 1 \in 1..Len(u)
    BY <1>1
  <2>2. u[2 * i - 1] \in Unit
    BY <2>1, ElementOfSeq
  <2> QED
    BY <2>2 DEF Unit, Point
<1>3. Points(u) = [i \in 1..n |-> u[2 * i - 1][1]]
  BY DEF Points, RecordUnits
<1> HIDE DEF n
<1>4. Points(u) \in [1..n -> Point]
  BY <1>2, <1>3
<1>5. Points(u) \in Seq(Point) /\ Len(Points(u)) = n
  BY <1>1, <1>4, SeqDef
<1> QED
  BY <1>1, <1>3, <1>5 DEF n

\* A file that begins another holds a first part of its points.
LEMMA PointsOfBeginning ==
  ASSUME NEW c \in Seq(Unit), NEW d \in Seq(Unit), Begins(d, c)
  PROVE  /\ Len(Points(c)) <= Len(Points(d))
         /\ Points(c) = SubSeq(Points(d), 1, Len(Points(c)))
         /\ Len(c) \div 2 = Len(d) \div 2 => Points(c) = Points(d)
<1> DEFINE n == Len(c) \div 2
           m == Len(d) \div 2
<1>1. Len(c) \in Nat /\ Len(d) \in Nat /\ Len(c) <= Len(d)
  BY LenProperties DEF Begins
<1>2. n \in Nat /\ m \in Nat /\ n <= m /\ 2 * n <= Len(c)
  BY <1>1, Halves, DropOdd
<1>3. ASSUME NEW i \in 1..n PROVE d[2 * i - 1] = c[2 * i - 1]
  <2>1. 2 * i - 1 \in 1..Len(c)
    BY <1>1, <1>2
  <2> QED
    BY <2>1 DEF Begins
<1>4. /\ Points(c) \in Seq(Point) /\ Len(Points(c)) = n
      /\ Points(d) \in Seq(Point) /\ Len(Points(d)) = m
      /\ \A i \in 1..n : Points(c)[i] = c[2 * i - 1][1]
      /\ \A i \in 1..m : Points(d)[i] = d[2 * i - 1][1]
  BY PointsType
<1> HIDE DEF n, m
<1>5. ASSUME NEW i \in 1..n PROVE i \in 1..m /\ Points(c)[i] = Points(d)[i]
  <2>1. i \in 1..m
    BY <1>2
  <2>2. Points(c)[i] = c[2 * i - 1][1] /\ Points(d)[i] = d[2 * i - 1][1]
    BY <1>4, <2>1, Zenon
  <2> QED
    BY <1>3, <2>1, <2>2, Zenon
<1>6. SubSeq(Points(d), 1, n) \in Seq(Point) /\ Len(SubSeq(Points(d), 1, n)) = n
      /\ \A i \in 1..n : SubSeq(Points(d), 1, n)[i] = Points(d)[i]
  <2>1. \A i \in 1..n : Points(d)[i] \in Point
    BY <1>4, <1>5, ElementOfSeq
  <2> QED
    BY <1>2, <2>1, SubSeqProperties
<1>7. Points(c) = SubSeq(Points(d), 1, n)
  BY <1>4, <1>5, <1>6, SeqEqual
<1>8. n = m => Points(c) = Points(d)
  BY <1>4, <1>7, SubSeqFull
<1> QED
  BY <1>2, <1>4, <1>7, <1>8 DEF n, m

LEMMA NoPoints == Points(<<>>) = <<>>
<1>1. <<>> \in Seq(Unit) /\ Len(<<>>) = 0 /\ 0 \div 2 = 0
  BY EmptySeq
<1>2. Points(<<>>) \in Seq(Point) /\ Len(Points(<<>>)) = 0
  BY <1>1, PointsType
<1> QED
  BY <1>2, EmptySeq

\* A record added to whole records adds its point.
LEMMA PointsAppended ==
  ASSUME NEW u \in Seq(Unit), NEW n \in Nat, Len(u) = 2 * n, NEW p \in Point
  PROVE  Points(u \o Record(p)) = Append(Points(u), p)
<1> DEFINE v == u \o Record(p)
<1>1. Record(p) \in Seq(Unit) /\ Len(Record(p)) = 2 /\ Record(p)[1] = <<p, 1>>
  BY RecordType DEF RecordUnits, Record, Point
<1>2. /\ v \in Seq(Unit) /\ Len(v) = Len(u) + Len(Record(p))
      /\ \A i \in 1..Len(u) + Len(Record(p)) : v[i] = IF i <= Len(u) THEN u[i] ELSE Record(p)[i - Len(u)]
  BY <1>1, ConcatProperties
<1> HIDE DEF v
<1>3. Len(v) = 2 * n + 2 /\ Len(u) \div 2 = n /\ Len(v) \div 2 = n + 1
  BY <1>1, <1>2
<1>4. /\ Points(u) \in Seq(Point) /\ Len(Points(u)) = n
      /\ \A i \in 1..n : Points(u)[i] = u[2 * i - 1][1]
  BY <1>3, PointsType
<1>5. /\ Points(v) \in Seq(Point) /\ Len(Points(v)) = n + 1
      /\ \A i \in 1..n + 1 : Points(v)[i] = v[2 * i - 1][1]
  BY <1>2, <1>3, PointsType
<1> DEFINE a == Append(Points(u), p)
<1>6. /\ a \in Seq(Point) /\ Len(a) = n + 1 /\ a[n + 1] = p
      /\ \A i \in 1..n : a[i] = Points(u)[i]
  BY <1>4, AppendProperties
<1> HIDE DEF a
<1>7. ASSUME NEW i \in 1..n PROVE Points(v)[i] = a[i]
  <2>1. /\ i \in 1..n + 1 /\ 2 * i - 1 \in 1..Len(u) + Len(Record(p))
        /\ 2 * i - 1 <= Len(u)
    BY <1>1
  <2>2. v[2 * i - 1] = u[2 * i - 1]
    BY <1>2, <2>1, Zenon
  <2>3. Points(v)[i] = v[2 * i - 1][1] /\ Points(u)[i] = u[2 * i - 1][1] /\ a[i] = Points(u)[i]
    BY <1>4, <1>5, <1>6, <2>1, Zenon
  <2> QED
    BY <2>2, <2>3, Zenon
<1>8. Points(v)[n + 1] = a[n + 1]
  <2>1. /\ n + 1 \in 1..n + 1 /\ 2 * (n + 1) - 1 \in 1..Len(u) + Len(Record(p))
        /\ ~(2 * (n + 1) - 1 <= Len(u)) /\ 2 * (n + 1) - 1 - Len(u) = 1
    BY <1>1
  <2>2. v[2 * (n + 1) - 1] = Record(p)[1]
    BY <1>2, <2>1, Zenon
  <2>3. Points(v)[n + 1] = <<p, 1>>[1]
    BY <1>1, <1>5, <2>1, <2>2, Zenon
  <2> QED
    BY <1>6, <2>3
<1>9. \A i \in 1..n + 1 : i \in 1..n \/ i = n + 1
  OBVIOUS
<1> QED
  BY <1>5, <1>6, <1>7, <1>8, <1>9, SeqEqual DEF v, a

-----------------------------------------------------------------------------
(* Each step of the storage is a step of the log, or none of it.            *)

SafeOf(d) == IF d = NoEntry THEN 0 ELSE d \div RecordUnits
SafePoints(s) == SafeOf(durable[s])
Log == [s \in Sessions |-> AcceptedPoints(s)]
Safe == [s \in Sessions |-> SafePoints(s)]

LEMMA HalfMonotone ==
  ASSUME NEW m \in Nat, NEW n \in Nat, m <= n
  PROVE  m \div 2 \in Nat /\ n \div 2 \in Nat /\ m \div 2 <= n \div 2
BY Halves, DropOdd

\* No more is safe than was accepted.
LEMMA LogFacts ==
  ASSUME StoreInv, NEW s \in Sessions
  PROVE  /\ AcceptedUnits(s) \in Seq(Unit) /\ AcceptedPoints(s) = Points(AcceptedUnits(s))
         /\ AcceptedPoints(s) \in Seq(Point)
         /\ Begins(AcceptedUnits(s), file[s])
         /\ SafePoints(s) \in Nat /\ SafePoints(s) <= Len(AcceptedPoints(s))
<1>1. file[s] \in Seq(Unit) /\ buf \in Seq(Unit) /\ durable[s] \in Nat \cup {NoEntry}
      /\ durable[s] <= Len(file[s])
  BY DEF StoreInv, TypeOK, StoreShape
<1>2. AcceptedUnits(s) \in Seq(Unit) /\ Begins(AcceptedUnits(s), file[s])
  <2>1. CASE s = open
    BY <1>1, <2>1, ConcatBegins DEF AcceptedUnits
  <2>2. CASE s # open
    BY <1>1, <2>2, LenProperties DEF AcceptedUnits, Begins
  <2> QED
    BY <2>1, <2>2
<1>3. AcceptedPoints(s) = Points(AcceptedUnits(s))
  BY DEF AcceptedPoints, Points
<1>4. /\ AcceptedPoints(s) \in Seq(Point)
      /\ Len(AcceptedPoints(s)) = Len(AcceptedUnits(s)) \div 2
      /\ Len(AcceptedPoints(s)) \in Nat
  BY <1>2, <1>3, PointsType
<1>5. SafePoints(s) \in Nat /\ SafePoints(s) <= Len(AcceptedPoints(s))
  <2>1. CASE durable[s] = NoEntry
    BY <1>4, <2>1 DEF SafePoints, SafeOf
  <2>2. CASE durable[s] # NoEntry
    <3>1. durable[s] \in Nat /\ Len(AcceptedUnits(s)) \in Nat /\ durable[s] <= Len(AcceptedUnits(s))
      BY <1>1, <1>2, <2>2, LenProperties DEF Begins
    <3> QED
      BY <1>4, <2>2, <3>1, HalfMonotone DEF SafePoints, SafeOf, RecordUnits
  <2> QED
    BY <2>1, <2>2
<1> QED
  BY <1>2, <1>3, <1>4, <1>5

\* Nothing is torn on a medium whose writes do not fail.
LEMMA NothingTorn ==
  ASSUME "write" \notin Faults, NEW data, NEW b
  PROVE  /\ \A rec : \A w \in WriteOutcomes(data, b, rec) : w.res = "ok"
         /\ \A y \in SyncOutcomes(data, b) : y.res # "torn"
<1>1. \A u, end : Short(data, u, end) = {}
  BY DEF Short, StopsAt
<1> QED
  BY <1>1 DEF WriteOutcomes, Spilled, SyncOutcomes, FlushOutcomes, Flushed

LEMMA CreateBegins ==
  ASSUME StoreInv, NEW s \in Sessions, NEW ok \in BOOLEAN, CreateRoute(s, ok)
  PROVE  UserLog!Begin(s)
<1>1. /\ open = NoSession /\ s \notin exists /\ exists' = exists \cup {s}
      /\ open' \in {s, NoSession} /\ (open' = s => buf' = <<>>)
      /\ file' = [file EXCEPT ![s] = <<>>] /\ file[s] = <<>>
      /\ durable[s] = NoEntry /\ durable' \in {[durable EXCEPT ![s] = 0], [durable EXCEPT ![s] = NoEntry]}
      /\ file \in [Sessions -> Seq(Unit)] /\ durable \in [Sessions -> Nat \cup {NoEntry}]
  BY DEF CreateRoute, writer, StoreInv, TypeOK, StoreShape
<1>2. <<>> \o <<>> = <<>>
  BY EmptyClean
<1>3. Log' = Log
  <2>1. ASSUME NEW t \in Sessions PROVE AcceptedUnits(t)' = AcceptedUnits(t)
    <3>1. AcceptedUnits(t) = file[t]
      BY <1>1, SessionsAssumption DEF AcceptedUnits
    <3>2. AcceptedUnits(t)' = file'[t]
      <4>1. CASE t = open'
        <5>1. t = s /\ file'[t] = <<>> /\ buf' = <<>>
          BY <1>1, <4>1, SessionsAssumption
        <5> QED
          BY <1>2, <4>1, <5>1 DEF AcceptedUnits
      <4>2. CASE t # open'
        BY <4>2 DEF AcceptedUnits
      <4> QED
        BY <4>1, <4>2
    <3> QED
      BY <1>1, <3>1, <3>2
  <2> QED
    BY <2>1 DEF Log, AcceptedPoints
<1>4. Safe' = Safe
  <2>1. 0 \div 2 = 0
    OBVIOUS
  <2> QED
    BY <1>1, <2>1 DEF Safe, SafePoints, SafeOf, RecordUnits, NoEntry
<1> QED
  <2>1. UNCHANGED Log /\ UNCHANGED Safe
    BY <1>3, <1>4
  <2>2. UNCHANGED <<Log, Safe>>
    BY <2>1
  <2> QED
    BY <1>1, <2>2, Zenon DEF UserLog!Begin, Log, Safe, SafePoints, SafeOf

\* Whatever is safe of a file was accepted from the recorder.
LEMMA SafeWithin ==
  ASSUME NEW u \in Seq(Unit), NEW data \in Seq(Unit), Begins(u, data),
         NEW d \in Nat \cup {NoEntry}, d <= Len(data)
  PROVE  SafeOf(d) \in Nat /\ SafeOf(d) <= Len(Points(u))
<1>1. Len(u) \in Nat /\ Len(data) \in Nat /\ Len(data) <= Len(u)
  BY LenProperties DEF Begins
<1>2. Len(Points(u)) = Len(u) \div 2 /\ Len(u) \div 2 \in Nat
  BY PointsType
<1> HIDE DEF Points
<1>3. CASE d = NoEntry
  BY <1>1, <1>2, <1>3 DEF SafeOf
<1>4. CASE d # NoEntry
  <2>1. d \in Nat /\ d <= Len(u)
    BY <1>1, <1>4
  <2>2. d \div 2 \in Nat /\ d \div 2 <= Len(u) \div 2
    BY <1>1, <2>1, HalfMonotone
  <2> QED
    BY <1>2, <1>4, <2>2 DEF SafeOf, RecordUnits
<1> QED
  BY <1>3, <1>4

LEMMA SafeGrows ==
  ASSUME NEW d \in Nat \cup {NoEntry}, NEW e \in Nat \cup {NoEntry}, d <= e
  PROVE  SafeOf(d) <= SafeOf(e)
<1>1. CASE d = NoEntry
  <2>1. e # NoEntry => e \div 2 \in Nat
    BY HalfMonotone
  <2> QED
    BY <1>1, <2>1 DEF SafeOf, RecordUnits
<1>2. CASE d # NoEntry
  <2>1. d \in Nat /\ e \in Nat /\ e # NoEntry
    BY <1>2 DEF NoEntry
  <2>2. d \div 2 <= e \div 2
    BY <2>1, HalfMonotone
  <2> QED
    BY <1>2, <2>1, <2>2 DEF SafeOf, RecordUnits
<1> QED
  BY <1>1, <1>2

\* What is safe of one file, before and after a step.
LEMMA SafeStep ==
  ASSUME StoreInv, StoreInv', NEW s \in Sessions, NEW u \in Seq(Unit), Begins(u, file'[s])
  PROVE  /\ SafePoints(s) \in Nat /\ SafeOf(durable'[s]) \in Nat
         /\ SafeOf(durable'[s]) <= Len(Points(u))
         /\ durable[s] <= durable'[s] => SafePoints(s) <= SafeOf(durable'[s])
<1>1. /\ durable[s] \in Nat \cup {NoEntry} /\ durable'[s] \in Nat \cup {NoEntry}
      /\ file'[s] \in Seq(Unit) /\ durable'[s] <= Len(file'[s])
  BY DEF StoreInv, TypeOK, StoreShape
<1>2. SafePoints(s) = SafeOf(durable[s])
  BY DEF SafePoints
<1>3. SafeOf(durable'[s]) \in Nat /\ SafeOf(durable'[s]) <= Len(Points(u))
  BY <1>1, SafeWithin
<1>4. durable[s] <= durable'[s] => SafeOf(durable[s]) <= SafeOf(durable'[s])
  BY <1>1, SafeGrows
<1>5. SafePoints(s) \in Nat
  BY LogFacts
<1> QED
  BY <1>2, <1>3, <1>4, <1>5

\* The points of a session are those of the bytes accepted for it, before and after a step.
LEMMA AcceptedMeans ==
  ASSUME NEW s
  PROVE  /\ AcceptedPoints(s) = Points(AcceptedUnits(s))
         /\ AcceptedPoints(s)' = Points(AcceptedUnits(s)')
         /\ AcceptedUnits(s)' = IF s = open' THEN file'[s] \o buf' ELSE file'[s]
BY DEF AcceptedPoints, Points, AcceptedUnits

\* end_route() writes everything out, and nothing safe becomes unsafe.
LEMMA CloseEffect ==
  ASSUME "write" \notin Faults, StoreInv, NEW saved \in BOOLEAN, CloseRoute(saved)
  PROVE  /\ open \in Sessions /\ open' = NoSession /\ exists' = exists /\ faulted' = faulted
         /\ file'[open] = Written /\ durable[open] <= durable'[open]
         /\ \A t \in Sessions \ {open} : file'[t] = file[t] /\ durable'[t] = durable[t]
<1>1. /\ open \in Sessions /\ open' = NoSession /\ exists' = exists
      /\ file[open] \in Seq(Unit) /\ buf \in Seq(Unit)
      /\ durable[open] \in Nat \cup {NoEntry} /\ durable[open] <= Len(file[open])
      /\ file \in [Sessions -> Seq(Unit)] /\ durable \in [Sessions -> Nat \cup {NoEntry}]
  BY DEF CloseRoute, CloseWriter, StoreInv, TypeOK, StoreShape
<1>2. PICK y \in SyncOutcomes(file[open], buf) :
        \E data \in CloseOutcomes(y.data, y.buf) :
          /\ file' = [file EXCEPT ![open] = data]
          /\ durable' = [durable EXCEPT ![open] = DurableAfter(y, durable[open])]
          /\ faulted' = faulted \cup FaultedBy(y)
  BY DEF CloseRoute
<1>3. y.res # "torn"
  BY NothingTorn
<1>4. durable[open] <= DurableAfter(y, durable[open])
  BY <1>1, SyncFacts
<1>5. \A data \in CloseOutcomes(y.data, y.buf) : data = Written
  BY <1>1, <1>3, ClosedWhole DEF Written
<1> QED
  BY <1>1, <1>2, <1>3, <1>4, <1>5 DEF FaultedBy

LEMMA CloseEnds ==
  ASSUME "write" \notin Faults, StoreInv, StoreInv', NEW saved \in BOOLEAN, CloseRoute(saved)
  PROVE  UserLog!End
<1>1. /\ open \in Sessions /\ open' = NoSession /\ exists' = exists
      /\ file'[open] = Written /\ durable[open] <= durable'[open]
      /\ \A t \in Sessions \ {open} : file'[t] = file[t] /\ durable'[t] = durable[t]
  BY CloseEffect
<1>2. ASSUME NEW t \in Sessions PROVE AcceptedUnits(t)' = AcceptedUnits(t)
  BY <1>1, SessionsAssumption DEF AcceptedUnits, Written
<1>3. Log' = Log
  BY <1>2, AcceptedMeans DEF Log
<1>4. Written \in Seq(Unit) /\ Begins(Written, Written)
  <2>1. file[open] \in Seq(Unit) /\ buf \in Seq(Unit)
    BY <1>1 DEF StoreInv, TypeOK
  <2>2. Written \in Seq(Unit)
    BY <2>1, ConcatProperties DEF Written
  <2> QED
    BY <2>2, LenProperties DEF Begins
<1> DEFINE n == SafeOf(durable'[open])
<1>5. n \in Safe[open]..Len(Log'[open])
  <2>1. Points(Written) = Log'[open]
    <3>1. AcceptedUnits(open) = Written
      BY DEF AcceptedUnits, Written
    <3>2. Log[open] = AcceptedPoints(open)
      BY <1>1 DEF Log
    <3> QED
      BY <1>3, <3>1, <3>2, AcceptedMeans
  <2>2. /\ SafePoints(open) \in Nat /\ n \in Nat /\ n <= Len(Points(Written))
        /\ SafePoints(open) <= n
    BY <1>1, <1>4, SafeStep DEF SafePoints
  <2>3. Len(Points(Written)) \in Nat
    BY <1>4, PointsType
  <2> QED
    BY <1>1, <2>1, <2>2, <2>3 DEF Safe
<1>6. Safe' = [Safe EXCEPT ![open] = n]
  BY <1>1 DEF Safe, SafePoints, SafeOf
<1>7. \E m \in Safe[open]..Len(Log'[open]) : Safe' = [Safe EXCEPT ![open] = m]
  BY <1>5, <1>6
<1>8. open # NoSession
  BY <1>1, SessionsAssumption
<1> QED
  BY <1>1, <1>3, <1>7, <1>8, Zenon DEF UserLog!End, UserLog!Safer, Log, Safe, SafePoints, SafeOf

\* append_route_point() makes nothing unsafe, in the open file or another.
LEMMA AppendEffect ==
  ASSUME "write" \notin Faults, StoreInv, AppendRoutePoint
  PROVE  /\ open \in Sessions /\ open' = open /\ exists' = exists /\ faulted' = faulted
         /\ appends + 1 \in Point /\ durable[open] <= durable'[open]
         /\ \A t \in Sessions \ {open} : file'[t] = file[t] /\ durable'[t] = durable[t]
<1>1. /\ open \in Sessions /\ open' = open /\ exists' = exists
      /\ file[open] \in Seq(Unit) /\ buf \in Seq(Unit) /\ appends + 1 \in 1..MaxAppends
      /\ durable[open] \in Nat \cup {NoEntry} /\ durable[open] <= Len(file[open])
      /\ file \in [Sessions -> Seq(Unit)] /\ durable \in [Sessions -> Nat \cup {NoEntry}]
      /\ \A t \in Sessions \ {open} : file'[t] = file[t]
  BY BoundsAssumption DEF AppendRoutePoint, StoreInv, TypeOK, StoreShape
<1>2. Record(appends + 1) \in Seq(Unit) /\ Len(Record(appends + 1)) = RecordUnits
  BY <1>1, RecordType
<1>3. PICK w \in WriteOutcomes(file[open], buf, Record(appends + 1)) :
        \/ w.res = "torn"
        \/ UNCHANGED <<durable, faulted>>
        \/ \E y \in SyncOutcomes(w.data, w.buf) :
             /\ durable' = [durable EXCEPT ![open] = DurableAfter(y, durable[open])]
             /\ faulted' = faulted \cup FaultedBy(y)
  BY DEF AppendRoutePoint
<1>4. w.res = "ok" /\ w.data \in Seq(Unit) /\ Begins(w.data, file[open]) /\ w.buf \in Seq(Unit)
  BY <1>1, <1>2, NothingTorn, WriteFacts
<1>5. CASE UNCHANGED <<durable, faulted>>
  BY <1>1, <1>5 DEF Point, NoEntry
<1>6. ASSUME NEW y \in SyncOutcomes(w.data, w.buf),
             durable' = [durable EXCEPT ![open] = DurableAfter(y, durable[open])],
             faulted' = faulted \cup FaultedBy(y)
      PROVE  /\ durable[open] <= durable'[open] /\ faulted' = faulted
             /\ \A t \in Sessions \ {open} : durable'[t] = durable[t]
  <2>1. durable[open] <= Len(w.data)
    <3>1. Len(file[open]) \in Nat /\ Len(w.data) \in Nat
      BY <1>1, <1>4, LenProperties
    <3> QED
      BY <1>1, <1>4, <3>1 DEF Begins, NoEntry
  <2>2. durable[open] <= DurableAfter(y, durable[open])
    BY <1>1, <1>4, <2>1, SyncFacts
  <2>3. y.res # "torn"
    BY NothingTorn
  <2> QED
    BY <1>1, <1>6, <2>2, <2>3 DEF FaultedBy
<1> QED
  BY <1>1, <1>3, <1>4, <1>5, <1>6 DEF Point

LEMMA AppendPuts ==
  ASSUME "write" \notin Faults, StoreInv, StoreInv', FramingInv, faulted = {}, AppendRoutePoint
  PROVE  UserLog!Put(appends + 1)
<1>1. /\ open \in Sessions /\ open' = open /\ exists' = exists /\ faulted' = {}
      /\ appends + 1 \in Point /\ durable[open] <= durable'[open]
      /\ \A t \in Sessions \ {open} : file'[t] = file[t] /\ durable'[t] = durable[t]
  BY AppendEffect
<1>2. open # NoSession /\ open \in exists /\ count \in Nat
  BY <1>1, SessionsAssumption DEF StoreInv, TypeOK, StoreShape
<1>3. Written' = Written \o Record(appends + 1)
  BY <1>1, AppendWritten
<1>4. Len(Written) = 2 * count
  BY <1>2 DEF FramingInv
<1>5. Written \in Seq(Unit) /\ Written' \in Seq(Unit) /\ Begins(Written', file'[open])
  <2>1. file[open] \in Seq(Unit) /\ buf \in Seq(Unit) /\ file'[open] \in Seq(Unit) /\ buf' \in Seq(Unit)
    BY <1>1 DEF StoreInv, TypeOK
  <2> QED
    BY <1>1, <2>1, ConcatBegins DEF Written
<1>6. Points(Written') = Append(Points(Written), appends + 1)
  BY <1>1, <1>2, <1>3, <1>4, <1>5, PointsAppended
<1>7. AcceptedUnits(open) = Written /\ AcceptedUnits(open)' = Written'
  BY <1>1 DEF AcceptedUnits, Written
<1>8. Log' = [Log EXCEPT ![open] = Append(Log[open], appends + 1)]
  <2>1. ASSUME NEW t \in Sessions \ {open} PROVE AcceptedPoints(t)' = AcceptedPoints(t)
    BY <1>1, <2>1, AcceptedMeans DEF AcceptedUnits
  <2>2. AcceptedPoints(open)' = Append(AcceptedPoints(open), appends + 1)
    <3>1. AcceptedPoints(open)' = Points(AcceptedUnits(open)')
      BY <1>1 DEF AcceptedPoints, Points, AcceptedUnits
    <3>2. AcceptedPoints(open) = Points(Written)
      BY <1>7, AcceptedMeans
    <3> QED
      BY <1>6, <1>7, <3>1, <3>2
  <2> QED
    BY <1>1, <2>1, <2>2 DEF Log
<1> DEFINE n == SafeOf(durable'[open])
<1>9. n \in Safe[open]..Len(Log'[open])
  <2>1. Log'[open] = Points(Written')
    <3>1. Log[open] = Points(Written)
      BY <1>1, <1>7, AcceptedMeans DEF Log
    <3>2. Log \in [Sessions -> Seq(Point)]
      BY LogFacts DEF Log
    <3> QED
      BY <1>1, <1>6, <1>8, <3>1, <3>2
  <2>2. /\ SafePoints(open) \in Nat /\ n \in Nat /\ n <= Len(Points(Written'))
        /\ SafePoints(open) <= n
    BY <1>1, <1>5, SafeStep
  <2>3. Len(Points(Written')) \in Nat
    BY <1>5, PointsType
  <2> QED
    BY <1>1, <2>1, <2>2, <2>3 DEF Safe
<1>10. Safe' = [Safe EXCEPT ![open] = n]
  BY <1>1 DEF Safe, SafePoints, SafeOf
<1>11. \E m \in Safe[open]..Len(Log'[open]) : Safe' = [Safe EXCEPT ![open] = m]
  BY <1>9, <1>10
<1> QED
  BY <1>1, <1>2, <1>8, <1>11, Zenon DEF UserLog!Put, UserLog!Safer, Log, Safe, SafePoints, SafeOf

\* A file without the half record at its end has the same points.
LEMMA TruncatedPoints ==
  ASSUME NEW v \in Seq(Unit)
  PROVE  LET u == Prefix(v, Len(v) - (Len(v) % 2))
         IN  /\ u \in Seq(Unit) /\ Points(u) = Points(v)
             /\ Len(v) \in Nat /\ Len(u) = 2 * (Len(v) \div 2)
<1> DEFINE len == Len(v)
           k == len - (len % 2)
           u == Prefix(v, k)
<1>1. len \in Nat
  BY LenProperties
<1>2. k = 2 * (len \div 2) /\ k \in 0..len /\ len \div 2 \in Nat
  BY <1>1, DropOdd
<1> HIDE DEF k, len
<1>3. u \in Seq(Unit) /\ Len(u) = k /\ \A i \in 1..k : u[i] = v[i]
  BY <1>2, PrefixFacts DEF len
<1> HIDE DEF u
<1>4. k <= len
  BY <1>1, <1>2
<1>5. Begins(v, u)
  BY <1>3, <1>4 DEF Begins, len
<1>6. k \div 2 = len \div 2
  <2>1. \A m \in Nat : (2 * m) \div 2 = m
    OBVIOUS
  <2> QED
    BY <1>2, <2>1
<1>7. Points(u) = Points(v)
  <2>1. Len(u) \div 2 = Len(v) \div 2
    BY <1>3, <1>6 DEF len
  <2> QED
    BY <1>3, <1>5, <2>1, PointsOfBeginning
<1> QED
  BY <1>1, <1>2, <1>3, <1>7 DEF u, k, len

\* Nor does it have fewer safe ones.
LEMMA TruncatedSafe ==
  ASSUME NEW n \in Nat, NEW m \in Nat, m = 2 * (n \div 2), NEW d \in Nat \cup {NoEntry}, d <= n
  PROVE  SafeOf(Smaller(d, m)) = SafeOf(d)
<1>1. CASE d <= m
  BY <1>1 DEF Smaller
<1>2. CASE ~(d <= m)
  <2>1. d \in Nat /\ m <= d /\ Smaller(d, m) = m
    BY <1>2 DEF Smaller, NoEntry
  <2>2. n \div 2 \in Nat /\ d \div 2 \in Nat /\ m \div 2 <= d \div 2 /\ d \div 2 <= n \div 2
    BY <2>1, HalfMonotone
  <2>3. m \div 2 = n \div 2
    <3>1. \A j \in Nat : (2 * j) \div 2 = j
      OBVIOUS
    <3> QED
      BY <2>2, <3>1
  <2>4. m \div 2 = d \div 2
    BY <2>2, <2>3
  <2>5. d # NoEntry /\ m # NoEntry
    BY <2>1 DEF NoEntry
  <2> QED
    BY <2>1, <2>4, <2>5 DEF SafeOf, RecordUnits
<1> QED
  BY <1>1, <1>2

\* resume_route() drops half a record at most, which was no point.
LEMMA ResumeReopens ==
  ASSUME StoreInv, StoreInv', NEW s \in Sessions, NEW ok \in BOOLEAN, ResumeRoute(s, ok)
  PROVE  UserLog!Reopen(s) \/ UNCHANGED UserLog!logVars
<1> DEFINE u == TruncatedFile(s)
<1>1. /\ open = NoSession /\ s \in exists /\ exists' = exists /\ open' \in {s, NoSession}
      /\ open' = s => buf' = <<>>
      /\ file[s] \in Seq(Unit) /\ durable[s] \in Nat \cup {NoEntry} /\ durable[s] <= Len(file[s])
      /\ file'[s] = u /\ durable'[s] = Smaller(durable[s], Len(u))
      /\ \A t \in Sessions \ {s} : file'[t] = file[t] /\ durable'[t] = durable[t]
  BY DEF ResumeRoute, writer, StoreInv, TypeOK, StoreShape
<1>2. /\ u \in Seq(Unit) /\ Points(u) = Points(file[s])
      /\ Len(file[s]) \in Nat /\ Len(u) = 2 * (Len(file[s]) \div 2)
  <2>1. u = Prefix(file[s], Len(file[s]) - (Len(file[s]) % 2))
    BY DEF TruncatedFile, TornUnits, RecordUnits
  <2> HIDE DEF u
  <2>2. file[s] \in Seq(Unit)
    BY <1>1
  <2>3. /\ Prefix(file[s], Len(file[s]) - (Len(file[s]) % 2)) \in Seq(Unit)
        /\ Points(Prefix(file[s], Len(file[s]) - (Len(file[s]) % 2))) = Points(file[s])
        /\ Len(file[s]) \in Nat
        /\ Len(Prefix(file[s], Len(file[s]) - (Len(file[s]) % 2))) = 2 * (Len(file[s]) \div 2)
    BY <2>2, TruncatedPoints
  <2> QED
    BY <2>1, <2>3, Zenon
<1> HIDE DEF u
<1>3. ASSUME NEW t \in Sessions PROVE AcceptedPoints(t)' = AcceptedPoints(t)
  <2>1. AcceptedUnits(t) = file[t]
    BY <1>1, SessionsAssumption DEF AcceptedUnits
  <2>2. AcceptedUnits(t)' = file'[t]
    <3>1. t = open' => t = s /\ buf' = <<>>
      BY <1>1, SessionsAssumption
    <3>2. u \o <<>> = u
      BY <1>2, ConcatEmptySeq
    <3> QED
      BY <1>1, <3>1, <3>2, AcceptedMeans
  <2>3. AcceptedPoints(t)' = Points(file'[t]) /\ AcceptedPoints(t) = Points(file[t])
    BY <2>1, <2>2, AcceptedMeans
  <2> QED
    BY <1>1, <1>2, <2>3
<1>4. SafeOf(durable'[s]) = SafeOf(durable[s])
  <2>1. Len(u) \in Nat
    BY <1>2, LenProperties
  <2>2. SafeOf(Smaller(durable[s], Len(u))) = SafeOf(durable[s])
    BY <1>1, <1>2, <2>1, TruncatedSafe, Zenon
  <2> QED
    BY <1>1, <2>2
<1>5. UNCHANGED <<Log, Safe>>
  <2>1. Log' = Log
    BY <1>3 DEF Log
  <2>2. ASSUME NEW t \in Sessions PROVE SafePoints(t)' = SafePoints(t)
    BY <1>1, <1>4 DEF SafePoints, SafeOf
  <2>3. Safe' = Safe
    BY <2>2 DEF Safe
  <2> QED
    BY <2>1, <2>3
<1>6. CASE open' = s
  BY <1>1, <1>5, <1>6, Zenon DEF UserLog!Reopen, Log, Safe, SafePoints, SafeOf
<1>7. CASE open' = NoSession
  <2>1. open' = open
    BY <1>1, <1>7
  <2> QED
    BY <1>1, <1>5, <2>1, Zenon DEF UserLog!logVars, Log, Safe, SafePoints, SafeOf
<1> QED
  BY <1>1, <1>6, <1>7

\* A file written out is safe as far as its log goes, and no less than before.
LEMMA AcceptedShape ==
  ASSUME StoreInv, StoreInv', NEW s \in Sessions, file'[s] = AcceptedUnits(s), durable[s] <= durable'[s]
  PROVE  SafePoints(s) <= SafeOf(durable'[s]) /\ SafeOf(durable'[s]) <= Len(AcceptedPoints(s))
<1>1. AcceptedUnits(s) \in Seq(Unit) /\ AcceptedPoints(s) = Points(AcceptedUnits(s))
  BY LogFacts
<1>2. Begins(AcceptedUnits(s), file'[s])
  BY <1>1, LenProperties DEF Begins
<1> QED
  BY <1>1, <1>2, SafeStep

\* clear_routes() writes the open file out, unless it unlinks it.
LEMMA ClearEffect ==
  ASSUME "write" \notin Faults, StoreInv, NEW gone \in SUBSET Sessions, ClearRoutes(gone)
  PROVE  /\ open' = NoSession /\ gone \subseteq exists /\ exists' = exists \ gone
         /\ faulted = {} => faulted' = {}
         /\ \A t \in gone : file'[t] = <<>> /\ durable'[t] = NoEntry
         /\ \A t \in Sessions \ gone : file'[t] = AcceptedUnits(t) /\ durable[t] <= durable'[t]
<1>1. open' = NoSession /\ gone \subseteq exists /\ exists' = exists \ gone
  BY DEF ClearRoutes, CloseWriter, Unlinked, writer
<1>2. /\ \A t \in Sessions : durable[t] \in Nat \cup {NoEntry} /\ durable[t] <= Len(file[t])
      /\ file \in [Sessions -> Seq(Unit)] /\ buf \in Seq(Unit)
  BY DEF StoreInv, TypeOK, StoreShape
<1>3. \A t \in Sessions : durable[t] <= durable[t]
  BY <1>2 DEF NoEntry
<1>4. CASE open = NoSession
  BY <1>1, <1>3, <1>4, SessionsAssumption DEF ClearRoutes, Unlinked, AcceptedUnits
<1>5. CASE open # NoSession
  <2>1. open \in Sessions
    BY <1>5 DEF StoreInv, TypeOK
  <2>2. PICK y \in SyncOutcomes(file[open], buf) :
          \E data \in CloseOutcomes(y.data, y.buf) :
            /\ file' = [s \in Sessions |-> IF s \in gone THEN <<>>
                                           ELSE IF s = open THEN data ELSE file[s]]
            /\ durable' = [s \in Sessions |-> IF s \in gone THEN NoEntry
                                           ELSE IF s = open THEN DurableAfter(y, durable[s])
                                           ELSE durable[s]]
            /\ faulted' = (faulted \cup FaultedBy(y)) \ gone
    BY <1>5 DEF ClearRoutes
  <2>3. y.res # "torn"
    BY NothingTorn
  <2>4. durable[open] <= DurableAfter(y, durable[open])
    BY <1>2, <2>1, SyncFacts
  <2>5. \A data \in CloseOutcomes(y.data, y.buf) : data = file[open] \o buf
    BY <2>1, <2>3, ClosedWhole
  <2> QED
    BY <1>1, <1>3, <2>1, <2>2, <2>3, <2>4, <2>5 DEF FaultedBy, AcceptedUnits
<1> QED
  BY <1>4, <1>5

LEMMA ClearRemoves ==
  ASSUME "write" \notin Faults, StoreInv, StoreInv', NEW gone \in SUBSET Sessions, ClearRoutes(gone)
  PROVE  UserLog!Remove(gone)
<1>1. /\ open' = NoSession /\ gone \subseteq exists /\ exists' = exists \ gone
      /\ \A t \in gone : file'[t] = <<>> /\ durable'[t] = NoEntry
      /\ \A t \in Sessions \ gone : file'[t] = AcceptedUnits(t) /\ durable[t] <= durable'[t]
  BY ClearEffect
<1>2. \A t \in Sessions : AcceptedUnits(t)' = file'[t]
  BY <1>1, SessionsAssumption DEF AcceptedUnits
<1>3. Log' = [t \in Sessions |-> IF t \in gone THEN <<>> ELSE Log[t]]
  <2>1. ASSUME NEW t \in gone PROVE AcceptedPoints(t)' = <<>>
    BY <1>1, <1>2, AcceptedMeans, NoPoints
  <2>2. ASSUME NEW t \in Sessions \ gone PROVE AcceptedPoints(t)' = AcceptedPoints(t)
    BY <1>1, <1>2, AcceptedMeans
  <2> QED
    BY <2>1, <2>2 DEF Log
<1>4. ASSUME NEW t \in Sessions
      PROVE  IF t \in gone THEN SafePoints(t)' = 0
             ELSE SafePoints(t) <= SafePoints(t)' /\ SafePoints(t)' <= Len(Log[t])
  <2>1. SafePoints(t)' = SafeOf(durable'[t])
    BY DEF SafePoints, SafeOf
  <2>2. CASE t \in gone
    BY <1>1, <2>1, <2>2 DEF SafeOf
  <2>3. CASE t \notin gone
    <3>1. Log[t] = AcceptedPoints(t)
      BY DEF Log
    <3> QED
      BY <1>1, <1>2, <2>1, <2>3, <3>1, AcceptedShape
  <2> QED
    BY <2>2, <2>3
<1>5. Safe' \in [Sessions -> Nat]
  <2>1. ASSUME NEW t \in Sessions PROVE SafePoints(t)' \in Nat
    <3>1. file'[t] \in Seq(Unit) /\ durable'[t] \in Nat \cup {NoEntry} /\ durable'[t] <= Len(file'[t])
      BY DEF StoreInv, TypeOK, StoreShape
    <3>2. Begins(file'[t], file'[t])
      BY <3>1, LenProperties DEF Begins
    <3>3. SafePoints(t)' = SafeOf(durable'[t])
      BY DEF SafePoints, SafeOf
    <3> QED
      BY <3>1, <3>2, <3>3, SafeWithin
  <2> QED
    BY <2>1 DEF Safe
<1>6. \A t \in Sessions : IF t \in gone THEN Safe'[t] = 0
                          ELSE Safe[t] <= Safe'[t] /\ Safe'[t] <= Len(Log[t])
  BY <1>4 DEF Safe
<1>7. open' \in {open, NoSession} /\ open' \notin gone
  BY <1>1, SessionsAssumption
<1> QED
  BY <1>1, <1>3, <1>5, <1>6, <1>7, Zenon DEF UserLog!Remove, Log, Safe, SafePoints, SafeOf

\* delete_route() takes one log away and touches no other.
LEMMA DeleteRemoves ==
  ASSUME StoreInv, StoreInv', NEW s \in Sessions \ {open}, DeleteRoute(s)
  PROVE  UserLog!Remove({s})
<1>1. /\ s \in exists /\ exists' = exists \ {s} /\ open' = open /\ buf' = buf
      /\ file'[s] = <<>> /\ durable'[s] = NoEntry
      /\ \A t \in Sessions \ {s} : file'[t] = file[t] /\ durable'[t] = durable[t]
  BY DEF DeleteRoute, Unlinked
<1>2. ASSUME NEW t \in Sessions
      PROVE  AcceptedUnits(t)' = IF t \in {s} THEN <<>> ELSE AcceptedUnits(t)
  BY <1>1, AcceptedMeans DEF AcceptedUnits
<1>3. Log' = [t \in Sessions |-> IF t \in {s} THEN <<>> ELSE Log[t]]
  <2>1. AcceptedPoints(s)' = <<>>
    BY <1>2, AcceptedMeans, NoPoints
  <2>2. ASSUME NEW t \in Sessions \ {s} PROVE AcceptedPoints(t)' = AcceptedPoints(t)
    BY <1>2, AcceptedMeans
  <2> QED
    BY <2>1, <2>2 DEF Log
<1>4. \A t \in Sessions : SafePoints(t)' = IF t \in {s} THEN 0 ELSE SafePoints(t)
  BY <1>1 DEF SafePoints, SafeOf
<1>5. \A t \in Sessions : /\ SafePoints(t) \in Nat /\ SafePoints(t) <= SafePoints(t)
                          /\ SafePoints(t) <= Len(AcceptedPoints(t))
  BY LogFacts
<1>6. Safe' \in [Sessions -> Nat]
  BY <1>4, <1>5 DEF Safe
<1>7. \A t \in Sessions : IF t \in {s} THEN Safe'[t] = 0
                          ELSE Safe[t] <= Safe'[t] /\ Safe'[t] <= Len(Log[t])
  BY <1>4, <1>5 DEF Safe, Log
<1>8. {s} \subseteq exists /\ open' \in {open, NoSession} /\ open' \notin {s}
  BY <1>1
<1> QED
  BY <1>1, <1>3, <1>6, <1>7, <1>8, Zenon DEF UserLog!Remove, Log, Safe, SafePoints, SafeOf

\* A power cut leaves a first part of each log, everything safe in it.
LEMMA PowerCutLoses ==
  ASSUME StoreInv, StoreInv', PowerCut
  PROVE  UserLog!Lose
<1>1. open' = NoSession
  BY DEF PowerCut, CloseWriter
<1>2. PICK gone \in SUBSET {s \in exists : durable[s] = NoEntry} :
      \E keep \in [Sessions -> 0..(MaxAppends * RecordUnits)] :
       /\ \A s \in Sessions : durable[s] <= keep[s] /\ keep[s] <= Len(file[s])
       /\ exists' = exists \ gone
       /\ file' = [s \in Sessions |-> IF s \in gone THEN <<>> ELSE Prefix(file[s], keep[s])]
       /\ durable' = [s \in Sessions |-> IF s \in exists \ gone THEN keep[s] ELSE NoEntry]
  BY DEF PowerCut
<1>3. PICK keep \in [Sessions -> 0..(MaxAppends * RecordUnits)] :
       /\ \A s \in Sessions : durable[s] <= keep[s] /\ keep[s] <= Len(file[s])
       /\ exists' = exists \ gone
       /\ file' = [s \in Sessions |-> IF s \in gone THEN <<>> ELSE Prefix(file[s], keep[s])]
       /\ durable' = [s \in Sessions |-> IF s \in exists \ gone THEN keep[s] ELSE NoEntry]
  BY <1>2
<1>4. \A s \in Sessions : AcceptedUnits(s)' = file'[s]
  BY <1>1, SessionsAssumption DEF AcceptedUnits
<1>5. ASSUME NEW s \in Sessions
      PROVE  /\ file[s] \in Seq(Unit) /\ file'[s] \in Seq(Unit) /\ Begins(AcceptedUnits(s), file'[s])
             /\ durable[s] \in Nat \cup {NoEntry} /\ durable[s] <= Len(file'[s])
             /\ durable'[s] = NoEntry \/ durable'[s] = Len(file'[s])
             /\ durable'[s] = NoEntry => file'[s] = <<>>
  <2>1. /\ file[s] \in Seq(Unit) /\ Len(file[s]) \in Nat /\ durable[s] \in Nat \cup {NoEntry}
        /\ AcceptedUnits(s) \in Seq(Unit) /\ Begins(AcceptedUnits(s), file[s])
    BY LogFacts, LenProperties DEF StoreInv, TypeOK
  <2>2. keep[s] \in 0..Len(file[s]) /\ keep[s] \in Nat
    <3>1. MaxAppends * RecordUnits \in Nat
      BY BoundsAssumption DEF RecordUnits
    <3> QED
      BY <1>3, <2>1, <3>1
  <2>3. CASE s \in gone
    <3>1. file'[s] = <<>> /\ durable'[s] = NoEntry /\ durable[s] = NoEntry
      BY <1>3, <2>3
    <3>2. <<>> \in Seq(Unit) /\ Len(<<>>) = 0 /\ Len(AcceptedUnits(s)) \in Nat
      BY <2>1, EmptySeq, LenProperties
    <3>3. Begins(AcceptedUnits(s), <<>>)
      BY <3>2 DEF Begins
    <3> QED
      BY <2>1, <3>1, <3>2, <3>3 DEF NoEntry
  <2>4. CASE s \notin gone
    <3>1. file'[s] = Prefix(file[s], keep[s])
      BY <1>3, <2>4
    <3>2. /\ file'[s] \in Seq(Unit) /\ Len(file'[s]) = keep[s]
          /\ \A i \in 1..keep[s] : file'[s][i] = file[s][i]
      <4> DEFINE u == Prefix(file[s], keep[s])
      <4>1. u \in Seq(Unit) /\ Len(u) = keep[s] /\ \A i \in 1..keep[s] : u[i] = file[s][i]
        BY <2>1, <2>2, PrefixFacts
      <4> HIDE DEF u
      <4>2. file'[s] = u
        BY <3>1 DEF u
      <4> QED
        BY <4>1, <4>2, Zenon
    <3>3. Begins(AcceptedUnits(s), file'[s])
      <4>1. Len(AcceptedUnits(s)) \in Nat
        BY <2>1, LenProperties
      <4> QED
        BY <2>1, <2>2, <3>2, <4>1 DEF Begins
    <3>4. durable[s] <= keep[s]
      BY <1>3
    <3>5. CASE s \in exists
      BY <1>3, <2>1, <2>2, <2>4, <3>2, <3>3, <3>4, <3>5 DEF NoEntry
    <3>6. CASE s \notin exists
      <4>1. file[s] = <<>> /\ Len(file[s]) = 0
        BY <3>6, EmptySeq DEF StoreInv, StoreShape
      <4>2. Len(file'[s]) = 0 /\ durable'[s] = NoEntry
        BY <1>3, <2>2, <3>2, <3>6, <4>1
      <4> QED
        BY <2>1, <2>2, <3>2, <3>3, <3>4, <4>2, EmptySeq
    <3> QED
      BY <3>5, <3>6
  <2> QED
    BY <2>3, <2>4
<1>6. ASSUME NEW s \in Sessions
      PROVE  /\ Log'[s] = Points(file'[s]) /\ Log[s] = Points(AcceptedUnits(s))
             /\ Points(file'[s]) \in Seq(Point) /\ Len(Points(file'[s])) = Len(file'[s]) \div 2
             /\ Len(Points(file'[s])) <= Len(Log[s])
             /\ Points(file'[s]) = SubSeq(Log[s], 1, Len(Points(file'[s])))
  <2>1. Log'[s] = Points(file'[s]) /\ Log[s] = Points(AcceptedUnits(s))
    BY <1>4, AcceptedMeans DEF Log
  <2>2. AcceptedUnits(s) \in Seq(Unit)
    BY LogFacts
  <2> QED
    BY <1>5, <2>1, <2>2, PointsOfBeginning, PointsType
<1>7. ASSUME NEW s \in Sessions
      PROVE  Safe'[s] = Len(Log'[s]) /\ Safe[s] <= Len(Log'[s])
  <2>1. Safe'[s] = SafeOf(durable'[s]) /\ Safe[s] = SafeOf(durable[s])
    BY DEF Safe, SafePoints, SafeOf
  <2>2. Len(Log'[s]) = Len(file'[s]) \div 2 /\ Len(file'[s]) \in Nat
    BY <1>5, <1>6, LenProperties
  <2>3. SafeOf(durable'[s]) = Len(file'[s]) \div 2
    <3>1. CASE durable'[s] = NoEntry
      <4>1. Len(file'[s]) = 0 /\ 0 \div 2 = 0
        BY <1>5, <3>1, EmptySeq
      <4> QED
        BY <3>1, <4>1 DEF SafeOf
    <3>2. CASE durable'[s] # NoEntry
      BY <1>5, <3>2 DEF SafeOf, RecordUnits
    <3> QED
      BY <3>1, <3>2
  <2>4. Begins(file'[s], file'[s])
    BY <2>2 DEF Begins
  <2>5. SafeOf(durable[s]) <= Len(Points(file'[s]))
    BY <1>5, <2>4, SafeWithin
  <2> QED
    BY <1>6, <2>1, <2>2, <2>3, <2>5
<1>8. Log' \in [Sessions -> Seq(Point)]
  <2>1. Log' = [s \in Sessions |-> Log'[s]]
    BY DEF Log
  <2> QED
    BY <1>6, <2>1
<1>9. Safe' = [s \in Sessions |-> Len(Log'[s])]
  <2>1. Safe' = [s \in Sessions |-> Safe'[s]]
    BY DEF Safe
  <2> QED
    BY <1>7, <2>1
<1>10. \A s \in Sessions :
         /\ Safe[s] <= Len(Log'[s]) /\ Len(Log'[s]) <= Len(Log[s])
         /\ Log'[s] = SubSeq(Log[s], 1, Len(Log'[s]))
  BY <1>6, <1>7
<1>11. exists' \subseteq exists /\ \A s \in exists \ exists' : Safe[s] = 0
  BY <1>3 DEF StoreInv, TypeOK, Safe, SafePoints, SafeOf
<1> QED
  BY <1>1, <1>8, <1>9, <1>10, <1>11, Zenon DEF UserLog!Lose, Log, Safe, SafePoints, SafeOf, Point

-----------------------------------------------------------------------------
\* Nor does a medium whose writes do not fail mark a file.
LEMMA NeverFaulted ==
  ASSUME "write" \notin Faults, StoreInv, faulted = {}, [StoreNext]_storeVars
  PROVE  faulted' = {}
<1>1. ASSUME NEW s \in Sessions, NEW ok \in BOOLEAN, CreateRoute(s, ok) \/ ResumeRoute(s, ok)
      PROVE  faulted' = {}
  BY <1>1 DEF CreateRoute, ResumeRoute
<1>2. CASE AppendRoutePoint
  BY <1>2, AppendEffect
<1>3. CASE \E saved \in BOOLEAN : CloseRoute(saved)
  BY <1>3, CloseEffect
<1>4. CASE \E s \in Sessions \ {open} : DeleteRoute(s)
  BY <1>4 DEF DeleteRoute, Unlinked
<1>5. CASE \E gone \in SUBSET Sessions : ClearRoutes(gone)
  BY <1>5, ClearEffect
<1>6. CASE Tick \/ PowerCut \/ UNCHANGED storeVars
  BY <1>6 DEF Tick, PowerCut, storeVars
<1> QED
  BY <1>1, <1>2, <1>3, <1>4, <1>5, <1>6 DEF StoreNext

LEMMA LogStep ==
  ASSUME "write" \notin Faults, StoreInv, StoreInv', FramingInv, faulted = {}, [StoreNext]_storeVars
  PROVE  [UserLog!LogNext]_(UserLog!logVars)
<1> USE Zenon DEF UserLog!LogNext
<1>1. ASSUME NEW s \in Sessions, NEW ok \in BOOLEAN, CreateRoute(s, ok) \/ ResumeRoute(s, ok)
      PROVE  [UserLog!LogNext]_(UserLog!logVars)
  BY <1>1, CreateBegins, ResumeReopens
<1>2. CASE AppendRoutePoint
  <2>1. appends + 1 \in 1..MaxAppends
    BY <1>2, AppendEffect DEF Point
  <2> QED
    BY <1>2, <2>1, AppendPuts
<1>3. ASSUME NEW saved \in BOOLEAN, CloseRoute(saved)
      PROVE  [UserLog!LogNext]_(UserLog!logVars)
  BY <1>3, CloseEnds
<1>4. ASSUME NEW s \in Sessions \ {open}, DeleteRoute(s)
      PROVE  [UserLog!LogNext]_(UserLog!logVars)
  <2>1. {s} \in SUBSET Sessions
    BY <1>4
  <2> QED
    BY <1>4, <2>1, DeleteRemoves
<1>5. ASSUME NEW gone \in SUBSET Sessions, ClearRoutes(gone)
      PROVE  [UserLog!LogNext]_(UserLog!logVars)
  BY <1>5, ClearRemoves
<1>6. CASE PowerCut
  BY <1>6, PowerCutLoses
<1>7. CASE Tick \/ UNCHANGED storeVars
  <2>1. UNCHANGED <<exists, file, durable, open, buf>>
    BY <1>7 DEF Tick, storeVars
  <2> QED
    BY <2>1 DEF UserLog!logVars, AcceptedPoints, AcceptedUnits
<1> QED
  BY <1>1, <1>2, <1>3, <1>4, <1>5, <1>6, <1>7 DEF StoreNext

LEMMA LogBegins ==
  ASSUME StoreInit
  PROVE  UserLog!LogInit
<1>1. open = NoSession /\ exists = {} /\ \A s \in Sessions : file[s] = <<>> /\ durable[s] = NoEntry
  BY DEF StoreInit
<1>2. \A s \in Sessions : AcceptedPoints(s) = <<>>
  BY <1>1, SessionsAssumption, NoPoints, AcceptedMeans DEF AcceptedUnits
<1> QED
  BY <1>1, <1>2 DEF UserLog!LogInit

\* On a medium whose writes do not fail, a session is what its user takes it for: a log that
\* grows point by point through pauses, sleeps and resumes, and of which only a power cut takes
\* anything, the newest unsynced points.
THEOREM LogImplemented ==
  ASSUME "write" \notin Faults
  PROVE  Spec => ImplementsUserLog
<1>1. StoreInit => UserLog!LogInit /\ faulted = {}
  BY LogBegins DEF StoreInit
<1>2. StoreInv /\ faulted = {} /\ [StoreNext]_storeVars => (faulted = {})'
  BY NeverFaulted
<1>3. StoreInv /\ StoreInv' /\ FramingInv /\ faulted = {} /\ [StoreNext]_storeVars
      => [UserLog!LogNext]_(UserLog!logVars)
  BY LogStep
<1> QED
  BY <1>1, <1>2, <1>3, UsesStorage, StoreSafe, FilesClean, PTL
     DEF StoreSpec, ImplementsUserLog, UserLog!LogSpec

-----------------------------------------------------------------------------
(* The window between syncs.                                                *)

\* The oldest point that is not durable has waited for longer than the window.
Overrun == unsyncedAge >= Interval
OverrunIsDue == Overrun => SyncDue
AppendEndsOverrun == [][Measure /\ IsRecording /\ Overrun => unsyncedAge' = NoAge]_vars

\* No point waits for longer than the time since the last sync, as far as that is kept.
AgeInv == unsyncedAge <= sinceSync \/ SyncDue

\* A sync that succeeds leaves nothing behind.
LEMMA SyncedAll ==
  ASSUME StoreInv, NEW data \in Seq(Unit), NEW b \in Seq(Unit), NEW y \in SyncOutcomes(data, b),
         y.res = "ok", open \in Sessions, open' = open,
         file' = [file EXCEPT ![open] = y.data], buf' = y.buf,
         durable' = [durable EXCEPT ![open] = DurableAfter(y, durable[open])]
  PROVE  ~Pending'
<1>1. y.data \in Seq(Unit) /\ Len(y.data) \in Nat
  BY SyncFacts, LenProperties
<1>2. y.buf = <<>>
  BY DEF SyncOutcomes, FlushOutcomes, Flushed, Short
<1>3. file'[open] = y.data /\ durable'[open] = Len(y.data)
  BY DEF StoreInv, TypeOK, DurableAfter
<1> QED
  BY <1>1, <1>2, <1>3 DEF Pending

\* The anchor only moves on a sync that leaves nothing behind.
LEMMA AnchorMoves ==
  ASSUME StoreInv, [StoreNext]_storeVars
  PROVE  sinceSync' >= sinceSync \/ sinceSync' >= Interval \/ ~Pending'
<1>1. sinceSync \in 0..Interval /\ Interval \in Nat
  BY BoundsAssumption DEF StoreInv, TypeOK
<1>2. CASE AppendRoutePoint
  <2>1. CASE UNCHANGED sinceSync
    BY <1>1, <2>1
  <2>2. CASE ~UNCHANGED sinceSync
    <3>1. PICK w \in WriteOutcomes(file[open], buf, Record(appends + 1)) :
            \E y \in SyncOutcomes(w.data, w.buf) :
              /\ y.res = "ok" /\ file' = [file EXCEPT ![open] = y.data] /\ buf' = y.buf
              /\ durable' = [durable EXCEPT ![open] = DurableAfter(y, durable[open])]
      BY <1>2, <2>2 DEF AppendRoutePoint
    <3>2. open \in Sessions /\ open' = open /\ appends + 1 \in 1..MaxAppends
      BY <1>2, BoundsAssumption DEF AppendRoutePoint, StoreInv, TypeOK
    <3>3. file[open] \in Seq(Unit) /\ buf \in Seq(Unit)
      BY <3>2 DEF StoreInv, TypeOK
    <3>4. w.data \in Seq(Unit) /\ w.buf \in Seq(Unit)
      BY <3>2, <3>3, WriteFacts, RecordType
    <3> QED
      BY <3>1, <3>2, <3>4, SyncedAll
  <2> QED
    BY <2>1, <2>2
<1>3. CASE Tick
  BY <1>1, <1>3 DEF Tick, Smaller
<1>4. ASSUME ~AppendRoutePoint, ~Tick PROVE sinceSync' \in {sinceSync, Interval}
  BY <1>4 DEF StoreNext, storeVars, CreateRoute, ResumeRoute, CloseRoute, DeleteRoute, ClearRoutes,
              PowerCut, CloseWriter, writer
<1> QED
  BY <1>1, <1>2, <1>3, <1>4

LEMMA AgeStep == ASSUME TrackInv, AgeInv, [Next]_vars PROVE AgeInv'
<1>1. /\ sinceSync \in 0..Interval /\ sinceSync' \in 0..Interval /\ Interval \in Nat \ {0}
      /\ unsyncedAge \in NoAge..(Interval + 1)
  BY NextTrack, BoundsAssumption DEF TrackInv, StoreInv, TypeOK, ClockTypes
<1>2. sinceSync' >= sinceSync \/ sinceSync' >= Interval \/ ~Pending'
  BY StoreMoves, AnchorMoves DEF TrackInv
<1>3. CASE AgeFollows
  BY <1>1, <1>2, <1>3 DEF AgeFollows, AgeInv, SyncDue, NoAge
<1>4. CASE Pass
  BY <1>1, <1>4 DEF Pass, Tick, Smaller, AgeInv, SyncDue, NoAge
<1>5. CASE UNCHANGED <<unsyncedAge, sinceSync>>
  BY <1>5 DEF AgeInv, SyncDue
<1>6. AgeFollows \/ Pass \/ UNCHANGED <<unsyncedAge, sinceSync>>
  BY DEF Next, StartTracking, PauseTracking, ResumeTracking, StopTracking, Measure, ClearData,
         FactoryReset, HistoryDelete, ChangeMode, ChangePeriod, DeepSleep, Shutdown, Wake, Restart,
         vars, storeVars
<1> QED
  BY <1>3, <1>4, <1>5, <1>6

LEMMA AgeKept == Spec => []AgeInv
<1>1. Init => AgeInv
  BY BoundsAssumption DEF Init, StoreInit, AgeInv, SyncDue
<1> QED
  BY <1>1, AgeStep, TrackingSafe, PTL DEF Spec

\* When a point has waited for the whole window, the next append will sync: whatever failed in
\* between, whatever was paused, resumed or cut (go_storage.cpp, the anchor is only moved by a
\* sync that succeeded).  So it is only the wait for that append that the window does not bound.
THEOREM OverrunSyncsNext == Spec => []OverrunIsDue
<1>1. TrackInv /\ AgeInv => OverrunIsDue
  BY BoundsAssumption DEF TrackInv, StoreInv, TypeOK, ClockTypes, AgeInv, OverrunIsDue, Overrun, SyncDue,
                          NoAge
<1> QED
  BY <1>1, AgeKept, TrackingSafe, PTL

\* And on a medium that does not fail that append ends the wait of all of them, with its own
\* point (go_storage.cpp, append_route_point()).
THEOREM AppendSyncsAll == ASSUME Faults = {} PROVE Spec => AppendEndsOverrun
<1>1. ASSUME TrackInv, AgeInv, Measure, IsRecording, Overrun PROVE unsyncedAge' = NoAge
  <2>1. AppendRoutePoint /\ AgeFollows
    BY <1>1 DEF Measure
  <2>2. SyncDue
    BY <1>1, BoundsAssumption
       DEF TrackInv, StoreInv, TypeOK, ClockTypes, AgeInv, Overrun, SyncDue, NoAge
  <2>3. open \in Sessions /\ open' = open /\ appends + 1 \in 1..MaxAppends
    BY <1>1, <2>1, BoundsAssumption DEF AppendRoutePoint, TrackInv, StoreInv, TypeOK
  <2>4. file[open] \in Seq(Unit) /\ buf \in Seq(Unit)
    BY <1>1, <2>3 DEF TrackInv, StoreInv, TypeOK
  <2>5. PICK w \in WriteOutcomes(file[open], buf, Record(appends + 1)) :
          w.res = "ok" =>
            \E y \in SyncOutcomes(w.data, w.buf) :
              /\ file' = [file EXCEPT ![open] = y.data] /\ buf' = y.buf
              /\ durable' = [durable EXCEPT ![open] = DurableAfter(y, durable[open])]
    BY <2>1, <2>2, Zenon DEF AppendRoutePoint
  <2>6. w.data \in Seq(Unit) /\ w.buf \in Seq(Unit)
    BY <2>3, <2>4, WriteFacts, RecordType
  <2>7. w.res = "ok"
    BY NothingTorn
  <2>8. \A y \in SyncOutcomes(w.data, w.buf) : y.res = "ok"
    BY DEF SyncOutcomes, FlushOutcomes, Flushed, Short, StopsAt
  <2>9. ~Pending'
    BY <1>1, <2>3, <2>5, <2>6, <2>7, <2>8, SyncedAll DEF TrackInv
  <2> QED
    BY <2>1, <2>9 DEF AgeFollows
<1>2. TrackInv /\ AgeInv /\ [Next]_vars =>
        [Measure /\ IsRecording /\ Overrun => unsyncedAge' = NoAge]_vars
  BY <1>1
<1> QED
  BY <1>2, AgeKept, TrackingSafe, PTL DEF Spec, AppendEndsOverrun

=============================================================================
