------------------------------ MODULE EventTimeout ------------------------------
(***************************************************************************)
(* How long the orchestrator's event loop waits, and which timers fire     *)
(* when it stops waiting: Orchestrator::compute_queue_timeout_ms and       *)
(* check_timers (products/go/main/go_orchestrator.cpp).                    *)
(*                                                                         *)
(* Times are milliseconds in a uint32_t and wrap.  A periodic timer keeps  *)
(* the time it last fired, a one-shot timer its deadline, 0 meaning not    *)
(* armed.  What decides whether a timer runs (lock, screen, mode, BLE      *)
(* client) is an input, a Boolean field of the loop's state.               *)
(***************************************************************************)
EXTENDS Integers

Wrap          == 4294967296  \* uint32_t
MaxReasonable == 3600000     \* MAX_REASONABLE_TIMEOUT_MS
Warmup        == 10000       \* CONFIG_SENSOR_WARMUP_DURATION_MS
Time          == {x \in Nat : x < Wrap}

Periodic == {"measure", "bms", "bmsStatus", "autoLock", "watchdog", "accel", "bleOta"}
OneShot  == {"snackbar", "wifi", "localApi", "provisioner"}
Timers   == Periodic \cup OneShot \cup {"prewake", "trackingPage"}

\* What the two functions read.
Loop ==
  [interval : {i \in Nat : 1000 <= i /\ i <= 3600000}, \* active_measure_interval_seconds() * 1000
   lockAfter : {i \in Nat : i <= 60000},                \* auto_lock_seconds * 1000
   paused : BOOLEAN,          \* _provisioning_sensitive_services_paused
   pending : BOOLEAN,         \* _measurement_pending
   pm : {"Preparing", "Ready", "Sleeping", "Asleep"},
   pmSleeps : BOOLEAN,        \* not Offline, and should_sleep_pm_sensor(interval)
   autoLock : BOOLEAN,        \* auto_lock_allowed()
   accel : BOOLEAN,           \* the accelerometer test is on screen
   bleOta : BOOLEAN,          \* Portable with an authenticated client or an update
   page : BOOLEAN,            \* the tracking page's refresh is armed and allowed
   last : [Periodic -> Time],          \* _last_*_ms
   due : [OneShot \ {"wifi"} -> Time], \* the one-shot deadlines
   connect : Time,            \* _initial_connect_deadline_ms
   reconnect : Time,          \* _reconnect_at_ms
   refresh : Time]            \* _tracking_status_refresh_deadline_ms

Since(past, now) == (now - past) % Wrap
Until(deadline, now) == (deadline - now) % Wrap

Period(l, t) ==
  CASE t = "measure"   -> l.interval
    [] t = "bms"       -> 30000
    [] t = "bmsStatus" -> 5000
    [] t = "autoLock"  -> l.lockAfter
    [] t = "watchdog"  -> 60000
    [] t = "accel"     -> 500
    [] t = "bleOta"    -> 2000

\* WifiService::next_deadline_ms: the nearer of the two, 0 never winning.
WifiDeadline(l) ==
  CASE l.connect = 0                                -> l.reconnect
    [] l.connect # 0 /\ l.reconnect = 0             -> l.connect
    [] l.connect # 0 /\ l.reconnect # 0 ->
         IF l.reconnect < l.connect THEN l.reconnect ELSE l.connect

Deadline(l, t) ==
  CASE t \in Periodic            -> (l.last[t] + Period(l, t)) % Wrap
    [] t = "wifi"                -> WifiDeadline(l)
    [] t \in OneShot \ {"wifi"}  -> l.due[t]
    [] t = "prewake"             -> (l.last["measure"] + l.interval - Warmup) % Wrap
    [] t = "trackingPage"        -> l.refresh

\* The timers that take part; the watchdog always does.
Armed(l) ==
  {t \in Timers :
     /\ t = "measure" => ~l.paused /\ ~l.pending /\ l.pm = "Ready"
     /\ t \in {"bms", "bmsStatus"} => ~l.paused
     /\ t = "autoLock" => l.autoLock
     /\ t = "accel" => l.accel
     /\ t = "bleOta" => l.bleOta
     /\ t = "prewake" => l.pmSleeps /\ l.pm = "Asleep" /\ ~l.paused
     /\ t \in OneShot => Deadline(l, t) # 0
     /\ t = "snackbar" => ~l.paused
     /\ t = "trackingPage" => l.page}

\* The page's deadline is read as an int32_t and clamped before the minimum is
\* taken; every other one that has passed has wrapped into a large number.
Passed(deadline, now) == Until(deadline, now) = 0 \/ Until(deadline, now) >= Wrap \div 2
Remaining(l, t, now) ==
  IF t = "trackingPage" /\ Passed(l.refresh, now) THEN 0 ELSE Until(Deadline(l, t), now)

QueueTimeout(l, now) ==
  LET waits == {Remaining(l, t, now) : t \in Armed(l)}
      next  == CHOOSE w \in waits : \A v \in waits : w <= v
  IN  IF next > MaxReasonable THEN 0 ELSE next

\* check_timers at time now: three ways to compare, by the timer.  The Wi-Fi
\* service and the provisioner compare plainly, without regard to the wrap.
Fires(l, t, now) ==
  CASE t \in Periodic ->
         Since(l.last[t], now) >= Period(l, t)
    [] t \in {"prewake", "snackbar", "localApi"} ->
         Since(Deadline(l, t), now) < MaxReasonable
    [] t = "wifi" ->
         (l.connect # 0 /\ now >= l.connect) \/ (l.reconnect # 0 /\ now >= l.reconnect)
    [] t = "provisioner" -> now >= l.due[t]
    [] t = "trackingPage" -> Passed(l.refresh, now)
=============================================================================
