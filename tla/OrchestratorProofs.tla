--------------------------- MODULE OrchestratorProofs ---------------------------
(***************************************************************************)
(* Proofs about two parts of go_orchestrator.cpp that nothing shares.      *)
(*                                                                         *)
(* EventTimeout: what the event loop's wait promises, for every state of   *)
(* its timers and every time of the wrapping clock.                        *)
(*                                                                         *)
(* SettingsStore: as long as no key write fails and the result of a        *)
(* provisioning session is saved whole, power cuts in the middle of every  *)
(* other save included, no boot loads Cloud control with the cloud         *)
(* connection off.                                                         *)
(***************************************************************************)
EXTENDS EventTimeout, SettingsStore, TLAPS

-----------------------------------------------------------------------------
(* The event loop's wait.                                                   *)

Least(S) == S # {} => \E m \in S : \A n \in S : m <= n

LEMMA LeastOfOne == ASSUME NEW a \in Int PROVE Least({a})
BY SMT DEF Least

LEMMA LeastOfBoth ==
  ASSUME NEW S \in SUBSET Int, NEW T \in SUBSET Int, Least(S), Least(T)
  PROVE  Least(S \cup T)
<1>1. CASE S = {} \/ T = {}
  <2>1. S \cup T = S \/ S \cup T = T
    BY <1>1
  <2> QED
    BY <2>1, SMT
<1>2. CASE S # {} /\ T # {}
  <2>1. PICK m \in S : \A n \in S : m <= n
    BY <1>2, SMT DEF Least
  <2>2. PICK k \in T : \A n \in T : k <= n
    BY <1>2, SMT DEF Least
  <2>3. CASE m <= k
    <3>1. \A n \in S \cup T : m <= n
      BY <2>1, <2>2, <2>3, SMT
    <3> QED
      BY <3>1, SMT DEF Least
  <2>4. CASE k <= m
    <3>1. \A n \in S \cup T : k <= n
      BY <2>1, <2>2, <2>4, SMT
    <3> QED
      BY <3>1, SMT DEF Least
  <2> QED
    BY <2>3, <2>4, SMT
<1> QED
  BY <1>1, <1>2, SMT

-----------------------------------------------------------------------------
(* A wait is a word, and there is always a nearest one.                     *)

LEMMA UntilIsTime ==
  ASSUME NEW a \in Int, NEW b \in Int
  PROVE  (a - b) % Wrap \in Time /\ a % Wrap \in Time
BY SMT DEF Wrap, Time

LEMMA DeadlineIsTime ==
  ASSUME NEW l \in Loop, NEW t \in Timers
  PROVE  Deadline(l, t) \in Time
<1>1. CASE t \in Periodic
  <2>1. l.last[t] \in Time /\ Period(l, t) \in Int
    BY <1>1, SMT DEF Loop, Period, Periodic
  <2>2. l.last[t] + Period(l, t) \in Int
    BY <2>1, SMT DEF Time, Wrap
  <2>3. Deadline(l, t) = (l.last[t] + Period(l, t)) % Wrap
    BY <1>1, SMT DEF Deadline, Periodic, OneShot
  <2> QED
    BY <2>2, <2>3, UntilIsTime, SMT
<1>2. CASE t = "wifi"
  BY <1>2, SMT DEF Deadline, WifiDeadline, Loop, Periodic, OneShot
<1>3. CASE t \in OneShot \ {"wifi"}
  BY <1>3, SMT DEF Deadline, Loop, Periodic, OneShot
<1>4. CASE t = "prewake"
  <2>1. l.last["measure"] + l.interval - Warmup \in Int
    BY SMT DEF Loop, Periodic, Time, Wrap, Warmup
  <2>2. Deadline(l, t) = (l.last["measure"] + l.interval - Warmup) % Wrap
    BY <1>4, SMT DEF Deadline, Periodic, OneShot
  <2> QED
    BY <2>1, <2>2, UntilIsTime, SMT
<1>5. CASE t = "trackingPage"
  BY <1>5, SMT DEF Deadline, Loop, Periodic, OneShot
<1> QED
  BY <1>1, <1>2, <1>3, <1>4, <1>5, SMT DEF Timers

LEMMA RemainingIsTime ==
  ASSUME NEW l \in Loop, NEW t \in Timers, NEW now \in Time
  PROVE  Remaining(l, t, now) \in Time
<1>1. Deadline(l, t) \in Int /\ now \in Int
  BY DeadlineIsTime, SMT DEF Time, Wrap
<1>2. Until(Deadline(l, t), now) \in Time
  BY <1>1, UntilIsTime, SMT DEF Until
<1>3. 0 \in Time
  BY SMT DEF Time, Wrap
<1> QED
  BY <1>2, <1>3, Zenon DEF Remaining

Waits(l, now, T) == {Remaining(l, t, now) : t \in Armed(l) \cap T}

LEMMA NearestOfOne ==
  ASSUME NEW l \in Loop, NEW now \in Time, NEW t \in Timers
  PROVE  Least(Waits(l, now, {t})) /\ Waits(l, now, {t}) \in SUBSET Int
<1>1. Remaining(l, t, now) \in Int
  BY RemainingIsTime, SMT DEF Time, Wrap
<1>2. Waits(l, now, {t}) = {Remaining(l, t, now)} \/ Waits(l, now, {t}) = {}
  BY SMT DEF Waits
<1> QED
  BY <1>1, <1>2, LeastOfOne, SMT DEF Least

LEMMA NearestOfBoth ==
  ASSUME NEW l, NEW now, NEW S, NEW T,
         Least(Waits(l, now, S)) /\ Waits(l, now, S) \in SUBSET Int,
         Least(Waits(l, now, T)) /\ Waits(l, now, T) \in SUBSET Int
  PROVE  Least(Waits(l, now, S \cup T)) /\ Waits(l, now, S \cup T) \in SUBSET Int
<1>1. Waits(l, now, S \cup T) = Waits(l, now, S) \cup Waits(l, now, T)
  BY SMT DEF Waits
<1> QED
  BY <1>1, LeastOfBoth, SMT

LEMMA Nearest ==
  ASSUME NEW l \in Loop, NEW now \in Time
  PROVE  Least(Waits(l, now, Timers))
<1> DEFINE Ok(T) == Least(Waits(l, now, T)) /\ Waits(l, now, T) \in SUBSET Int
<1>1. \A t \in Timers : Ok({t})
  BY NearestOfOne
<1>2. \A S, T : Ok(S) /\ Ok(T) => Ok(S \cup T)
  BY NearestOfBoth, SMT
<1>3. \A t \in Timers : \A S : Ok(S) => Ok({t} \cup S)
  BY <1>1, <1>2
<1> HIDE DEF Ok
<1>4. Ok({"bms"} \cup ({"bmsStatus"} \cup {"measure"}))
  BY <1>1, <1>3 DEF Timers, Periodic
<1>5. Ok({"autoLock"} \cup ({"watchdog"} \cup {"accel"}))
  BY <1>1, <1>3 DEF Timers, Periodic
<1>6. Ok({"bleOta"} \cup ({"snackbar"} \cup {"wifi"}))
  BY <1>1, <1>3 DEF Timers, Periodic, OneShot
<1>7. Ok({"localApi"} \cup ({"provisioner"} \cup ({"prewake"} \cup {"trackingPage"})))
  BY <1>1, <1>3 DEF Timers, OneShot
<1>8. Ok((({"bms"} \cup ({"bmsStatus"} \cup {"measure"}))
            \cup ({"autoLock"} \cup ({"watchdog"} \cup {"accel"})))
         \cup (({"bleOta"} \cup ({"snackbar"} \cup {"wifi"}))
            \cup ({"localApi"} \cup ({"provisioner"} \cup ({"prewake"} \cup {"trackingPage"})))))
  BY <1>2, <1>4, <1>5, <1>6, <1>7
<1>9. Ok(Timers)
  BY <1>8, SMT DEF Timers, Periodic, OneShot
<1> QED
  BY <1>9, SMT DEF Ok

-----------------------------------------------------------------------------
(* The wait.                                                                *)

LEMMA ArmedIsTimer == ASSUME NEW l, NEW t \in Armed(l) PROVE t \in Timers
BY SMT DEF Armed

LEMMA WatchdogArmed == ASSUME NEW l PROVE "watchdog" \in Armed(l)
BY SMT DEF Armed, Timers, Periodic, OneShot

LEMMA WatchdogDeadline ==
  ASSUME NEW l PROVE Deadline(l, "watchdog") = (l.last["watchdog"] + 60000) % Wrap
<1>1. Period(l, "watchdog") = 60000
  BY DEF Period
<1>2. Deadline(l, "watchdog") = (l.last["watchdog"] + Period(l, "watchdog")) % Wrap
  BY DEF Deadline, Periodic, OneShot
<1> QED
  BY <1>1, <1>2

\* The loop waits for the nearest deadline, the ones that passed counting as far
\* away: only when every one has passed does it not wait at all.
THEOREM WaitIsNearest ==
  ASSUME NEW l \in Loop, NEW now \in Time
  PROVE  \/ \E t \in Armed(l) :
              /\ Remaining(l, t, now) <= MaxReasonable
              /\ QueueTimeout(l, now) = Remaining(l, t, now)
              /\ \A u \in Armed(l) : Remaining(l, t, now) <= Remaining(l, u, now)
         \/ /\ QueueTimeout(l, now) = 0
            /\ \A u \in Armed(l) : Remaining(l, u, now) > MaxReasonable
<1> DEFINE waits == {Remaining(l, t, now) : t \in Armed(l)}
           next == CHOOSE w \in waits : \A v \in waits : w <= v
<1>1. \A t \in Armed(l) : Remaining(l, t, now) \in Int
  BY ArmedIsTimer, RemainingIsTime, SMT DEF Time, Wrap
<1>2. waits = Waits(l, now, Timers)
  BY ArmedIsTimer, SMT DEF Waits
<1>3. waits # {}
  BY WatchdogArmed, SMT
<1>4. \E w \in waits : \A v \in waits : w <= v
  BY <1>2, <1>3, Nearest DEF Least
<1>5. next \in waits /\ \A v \in waits : next <= v
  BY <1>4, SMT
<1>6. PICK t \in Armed(l) : next = Remaining(l, t, now)
  BY <1>5, SMT
<1>7. \A u \in Armed(l) : next <= Remaining(l, u, now)
  BY <1>5, SMT
<1>8. QueueTimeout(l, now) = IF next > MaxReasonable THEN 0 ELSE next
  BY SMT DEF QueueTimeout
<1> HIDE DEF waits, next
<1>9. CASE next > MaxReasonable
  <2>1. \A u \in Armed(l) : Remaining(l, u, now) > MaxReasonable
    BY <1>1, <1>6, <1>7, <1>9, SMT DEF MaxReasonable
  <2> QED
    BY <1>8, <1>9, <2>1, SMT
<1>10. CASE ~(next > MaxReasonable)
  BY <1>1, <1>6, <1>7, <1>8, <1>10, SMT DEF MaxReasonable
<1> QED
  BY <1>9, <1>10, SMT

\* No timer whose deadline is still ahead is slept through.
THEOREM NeverLate ==
  ASSUME NEW l \in Loop, NEW now \in Time, NEW t \in Armed(l),
         Remaining(l, t, now) <= MaxReasonable
  PROVE  QueueTimeout(l, now) <= Remaining(l, t, now)
<1>1. \A u \in Armed(l) : Remaining(l, u, now) \in Time
  BY ArmedIsTimer, RemainingIsTime, SMT DEF Time
<1> QED
  <2>1. CASE \E u \in Armed(l) : /\ QueueTimeout(l, now) = Remaining(l, u, now)
                               /\ \A v \in Armed(l) : Remaining(l, u, now) <= Remaining(l, v, now)
    BY <2>1
  <2>2. CASE \A u \in Armed(l) : Remaining(l, u, now) > MaxReasonable
    BY <1>1, <2>2, SMT DEF MaxReasonable, Time
  <2> QED
    BY <2>1, <2>2, WaitIsNearest

\* The external watchdog is always among them, so while its kick is not overdue
\* the loop comes back in time to give it.
THEOREM KicksInTime ==
  ASSUME NEW l \in Loop, NEW now \in Time, Since(l.last["watchdog"], now) <= 60000
  PROVE  QueueTimeout(l, now) <= 60000 - Since(l.last["watchdog"], now)
<1>1. l.last["watchdog"] \in Time
  BY SMT DEF Loop, Periodic
<1>2. Remaining(l, "watchdog", now) = Until((l.last["watchdog"] + 60000) % Wrap, now)
  BY WatchdogDeadline DEF Remaining
<1>3. Remaining(l, "watchdog", now) = 60000 - Since(l.last["watchdog"], now)
  BY <1>1, <1>2, SMT DEF Until, Since, Time, Wrap
<1>4. Since(l.last["watchdog"], now) \in Nat
  BY <1>1, SMT DEF Since, Time, Wrap
<1> QED
  BY <1>3, <1>4, WatchdogArmed, NeverLate, SMT DEF MaxReasonable

\* The tracking page's refresh is never hidden: once passed, the loop does not wait.
THEOREM PageNotHidden ==
  ASSUME NEW l \in Loop, NEW now \in Time, l.page, Passed(l.refresh, now)
  PROVE  QueueTimeout(l, now) = 0
<1>1. "trackingPage" \in Armed(l)
  BY SMT DEF Armed, Timers, Periodic, OneShot
<1>2. Remaining(l, "trackingPage", now) = 0
  BY SMT DEF Remaining
<1>3. \A u \in Armed(l) : Remaining(l, u, now) \in Time
  BY ArmedIsTimer, RemainingIsTime, SMT DEF Time
<1> QED
  <2>1. QueueTimeout(l, now) <= 0
    BY <1>1, <1>2, NeverLate, SMT DEF MaxReasonable
  <2>2. QueueTimeout(l, now) \in Nat
    BY <1>3, WaitIsNearest, SMT DEF Time
  <2> QED
    BY <2>1, <2>2

-----------------------------------------------------------------------------
(* The wait and the firing agree.                                           *)

LEMMA Wrapping ==
  ASSUME NEW a \in Time, NEW d \in Time, NEW p \in Nat, p <= 3600000
  PROVE  /\ (a + Until(d, a)) % Wrap = d
         /\ Since(d, d) = 0 /\ Until(d, d) = 0
         /\ Since(a, (a + p) % Wrap) = p
BY SMT DEF Time, Wrap, Until, Since

\* A timer fires in the pass that runs at its deadline, on either side of a wrap.
THEOREM FiresWhenDue ==
  ASSUME NEW l \in Loop, NEW t \in Armed(l)
  PROVE  Fires(l, t, Deadline(l, t))
<1>1. t \in Timers /\ Deadline(l, t) \in Time
  BY ArmedIsTimer, DeadlineIsTime, SMT
<1>2. CASE t \in Periodic
  <2>1. l.last[t] \in Time /\ Period(l, t) \in Nat /\ Period(l, t) <= 3600000
    BY <1>2, SMT DEF Loop, Period, Periodic
  <2>2. Deadline(l, t) = (l.last[t] + Period(l, t)) % Wrap
    BY <1>2, SMT DEF Deadline, Periodic, OneShot
  <2>3. Since(l.last[t], Deadline(l, t)) = Period(l, t)
    BY <2>1, <2>2, Wrapping, SMT
  <2>4. Since(l.last[t], Deadline(l, t)) >= Period(l, t)
    BY <2>1, <2>3, SMT
  <2>5. t \notin {"prewake", "snackbar", "localApi", "wifi", "provisioner", "trackingPage"}
    BY <1>2 DEF Periodic
  <2> QED
    BY <1>2, <2>4, <2>5, Zenon DEF Fires
<1>3. CASE t \in {"prewake", "snackbar", "localApi"}
  <2>1. Since(Deadline(l, t), Deadline(l, t)) < MaxReasonable
    BY <1>1, Wrapping, SMT DEF MaxReasonable
  <2>2. t \notin Periodic /\ t \notin {"wifi", "provisioner", "trackingPage"}
    BY <1>3 DEF Periodic
  <2> QED
    BY <1>3, <2>1, <2>2, Zenon DEF Fires
<1>4. CASE t = "wifi"
  <2>1. Deadline(l, t) = WifiDeadline(l) /\ WifiDeadline(l) # 0
    BY <1>4, SMT DEF Deadline, Armed, Periodic, OneShot
  <2>2. l.connect \in Int /\ l.reconnect \in Int
    BY SMT DEF Loop, Time, Wrap
  <2>3. \/ l.connect # 0 /\ WifiDeadline(l) >= l.connect
        \/ l.reconnect # 0 /\ WifiDeadline(l) >= l.reconnect
    BY <2>1, <2>2, SMT DEF WifiDeadline
  <2> QED
    BY <1>4, <2>1, <2>3, SMT DEF Fires, Periodic
<1>5. CASE t = "provisioner"
  BY <1>1, <1>5, SMT DEF Fires, Deadline, Periodic, OneShot, Time, Wrap
<1>6. CASE t = "trackingPage"
  <2>1. Deadline(l, t) = l.refresh
    BY <1>6, SMT DEF Deadline, Periodic, OneShot
  <2>2. Passed(l.refresh, l.refresh)
    BY <1>1, <2>1, Wrapping, SMT DEF Passed
  <2> QED
    BY <1>6, <2>1, <2>2, SMT DEF Fires, Periodic
<1> QED
  BY <1>1, <1>2, <1>3, <1>4, <1>5, <1>6, SMT DEF Timers, OneShot

\* The loop never spins: when the wait ends with no event, some timer fires in the
\* pass that follows, whichever of them run.  The watchdog is what makes it so: it
\* is the one that fires when every deadline has passed.
THEOREM WaitEndsInTimer ==
  ASSUME NEW l \in Loop, NEW now \in Time
  PROVE  \E t \in Armed(l) : Fires(l, t, (now + QueueTimeout(l, now)) % Wrap)
<1>1. CASE \E t \in Armed(l) : QueueTimeout(l, now) = Remaining(l, t, now)
  <2>1. PICK t \in Armed(l) : QueueTimeout(l, now) = Remaining(l, t, now)
    BY <1>1, SMT
  <2>2. t \in Timers /\ Deadline(l, t) \in Time
    BY ArmedIsTimer, DeadlineIsTime, SMT
  <2>3. CASE t = "trackingPage" /\ Passed(l.refresh, now)
    <3>1. QueueTimeout(l, now) = 0 /\ (now + 0) % Wrap = now
      BY <2>1, <2>3, SMT DEF Remaining, Time, Wrap
    <3>2. Fires(l, t, now)
      BY <2>3, SMT DEF Fires, Periodic
    <3> QED
      BY <3>1, <3>2, SMT
  <2>4. CASE ~(t = "trackingPage" /\ Passed(l.refresh, now))
    <3>1. QueueTimeout(l, now) = Until(Deadline(l, t), now)
      BY <2>1, <2>4, SMT DEF Remaining
    <3>2. (now + QueueTimeout(l, now)) % Wrap = Deadline(l, t)
      BY <2>2, <3>1, Wrapping, SMT
    <3> QED
      BY <3>2, FiresWhenDue, SMT
  <2> QED
    BY <2>3, <2>4, SMT
<1>2. CASE /\ QueueTimeout(l, now) = 0
           /\ \A u \in Armed(l) : Remaining(l, u, now) > MaxReasonable
  <2>1. l.last["watchdog"] \in Time
    BY SMT DEF Loop, Periodic
  <2>2. Remaining(l, "watchdog", now) = Until((l.last["watchdog"] + 60000) % Wrap, now)
    BY WatchdogDeadline DEF Remaining
  <2>3. Until((l.last["watchdog"] + 60000) % Wrap, now) > MaxReasonable
    BY <1>2, <2>2, WatchdogArmed, SMT
  <2>4. Since(l.last["watchdog"], now) >= 60000
    BY <2>1, <2>3, SMT DEF Until, Since, Time, Wrap, MaxReasonable
  <2>5. Fires(l, "watchdog", now)
    BY <2>4, SMT DEF Fires, Period, Periodic
  <2>6. (now + QueueTimeout(l, now)) % Wrap = now
    BY <1>2, SMT DEF Time, Wrap
  <2> QED
    BY <2>5, <2>6, WatchdogArmed, SMT
<1> QED
  BY <1>1, <1>2, WaitIsNearest, SMT

-----------------------------------------------------------------------------
(* What the wait does not promise.  "If any deadline already passed, [...]  *)
(* clamp to 0 so check_timers() fires immediately" (go_orchestrator.cpp:517).*)

\* A loop that returns from its handlers as the watchdog's kick is a millisecond late.
Late ==
  [interval |-> 60000, lockAfter |-> 0, paused |-> FALSE, pending |-> TRUE, pm |-> "Ready",
   pmSleeps |-> FALSE, autoLock |-> FALSE, accel |-> FALSE, bleOta |-> FALSE, page |-> FALSE,
   last |-> [t \in Periodic |-> IF t = "watchdog" THEN 0 ELSE 60000],
   due |-> [t \in OneShot \ {"wifi"} |-> 0], connect |-> 0, reconnect |-> 0, refresh |-> 0]

LEMMA LateInLoop == Late \in Loop
<1>1. [t \in Periodic |-> IF t = "watchdog" THEN 0 ELSE 60000] \in [Periodic -> Time]
  BY SMT DEF Time, Wrap
<1>2. [t \in OneShot \ {"wifi"} |-> 0] \in [OneShot \ {"wifi"} -> Time]
  BY SMT DEF Time, Wrap
<1>3. 0 \in Time
  BY SMT DEF Time, Wrap
<1> QED
  BY <1>1, <1>2, <1>3, SMT DEF Late, Loop

LEMMA LateArmed == Armed(Late) = {"bms", "bmsStatus", "watchdog"}
<1>1. ASSUME NEW t \in OneShot PROVE Deadline(Late, t) = 0
  BY <1>1, SMT DEF Deadline, WifiDeadline, Late, Periodic, OneShot
<1>2. ASSUME NEW t \in Armed(Late) PROVE t \in {"bms", "bmsStatus", "watchdog"}
  <2>1. t \in Timers /\ t \notin OneShot
    BY <1>1, <1>2, SMT DEF Armed
  <2>2. t \notin {"measure", "autoLock", "accel", "bleOta", "prewake", "trackingPage"}
    BY <1>2, SMT DEF Armed, Late
  <2> QED
    BY <2>1, <2>2, SMT DEF Timers, Periodic
<1>3. {"bms", "bmsStatus", "watchdog"} \subseteq Armed(Late)
  BY SMT DEF Armed, Late, Timers, Periodic, OneShot
<1> QED
  BY <1>2, <1>3, SMT

LEMMA LateWaits ==
  /\ Remaining(Late, "bms", 60001) = 29999
  /\ Remaining(Late, "bmsStatus", 60001) = 4999
  /\ Remaining(Late, "watchdog", 60001) = Wrap - 1
<1>1. ASSUME NEW t \in {"bms", "bmsStatus", "watchdog"}
      PROVE  Remaining(Late, t, 60001) = Until((Late.last[t] + Period(Late, t)) % Wrap, 60001)
  BY <1>1 DEF Remaining, Deadline, Periodic, OneShot
<1>2. Late.last["bms"] = 60000 /\ Late.last["bmsStatus"] = 60000 /\ Late.last["watchdog"] = 0
  BY DEF Late, Periodic
<1>3. /\ Period(Late, "bms") = 30000 /\ Period(Late, "bmsStatus") = 5000
      /\ Period(Late, "watchdog") = 60000
  BY DEF Period
<1>4. /\ Until((60000 + 30000) % Wrap, 60001) = 29999
      /\ Until((60000 + 5000) % Wrap, 60001) = 4999
      /\ Until((0 + 60000) % Wrap, 60001) = Wrap - 1
  <2>1. (60000 + 30000) % Wrap = 90000 /\ (60000 + 5000) % Wrap = 65000 /\ (0 + 60000) % Wrap = 60000
    BY SMT DEF Wrap
  <2>2. (90000 - 60001) % Wrap = 29999 /\ (65000 - 60001) % Wrap = 4999
    BY SMT DEF Wrap
  <2>3. \A a, b \in Int : a = b - 1 => (a - b) % Wrap = Wrap - 1
    BY SMT DEF Wrap
  <2>4. (60000 - 60001) % Wrap = Wrap - 1
    BY <2>3, 60000 = 60001 - 1
  <2> QED
    BY <2>1, <2>2, <2>4 DEF Until
<1> QED
  BY <1>1, <1>2, <1>3, <1>4

\* The code does less than that comment says: a timer that is due, and would fire
\* at once, can wait for as long as the nearest of the others is ahead.
THEOREM OverdueCanWait ==
  \E l \in Loop, now \in Time :
    \E t \in Armed(l) : Fires(l, t, now) /\ QueueTimeout(l, now) = 4999
<1>1. 60001 \in Time
  BY SMT DEF Time, Wrap
<1>2. "watchdog" \in Armed(Late)
  BY WatchdogArmed, SMT
<1>3. Fires(Late, "watchdog", 60001)
  BY SMT DEF Fires, Since, Period, Periodic, Late, Wrap
<1>4. QueueTimeout(Late, 60001) = 4999
  BY <1>1, LateInLoop, LateArmed, LateWaits, WaitIsNearest, SMT DEF MaxReasonable, Wrap
<1> QED
  BY <1>1, <1>2, <1>3, <1>4, LateInLoop, SMT

-----------------------------------------------------------------------------
(* The settings across boots.                                               *)

\* What NVS holds of the two related fields once the keys before key are written.
StoredHalf ==
  /\ nvs.cloud = IF job.key > 2 THEN job.goal.cloud ELSE settings.cloud
  /\ nvs.control = IF job.key > 3 THEN job.goal.control ELSE settings.control

\* A save other than a provisioning result never switches the cloud off from under the
\* control that is in force.
Orderly == job.next # "provision" => ~(job.goal.cloud = "off" /\ settings.control = "Cloud")

StoredInv ==
  /\ SettingsTypeOK
  /\ Valid(settings)
  /\ at = "run" => nvs.cloud = settings.cloud /\ nvs.control = settings.control
  /\ at = "off" => Valid(nvs)
  /\ at = "saving" => Valid(job.goal) /\ StoredHalf /\ Orderly

-----------------------------------------------------------------------------

LEMMA DefaultsType == Defaults \in Settings /\ Valid(Defaults) /\ Defaults.cloud = "on"
BY DEF Defaults, Settings, Modes, Controls, Valid

LEMMA FieldTypes ==
  ASSUME NEW s \in Settings
  PROVE  /\ s.mode \in Modes /\ s.cloud \in {"on", "off"} /\ s.control \in Controls
         /\ s.onboarded \in BOOLEAN /\ s.corr \in {"none", "set"}
BY DEF Settings

\* The initial settings are the defaults.
LEMMA InitStored == Init => StoredInv
<1> SUFFICES ASSUME Init PROVE StoredInv
  OBVIOUS
<1>1. job \in [goal : Settings, key : 1..(Len(Keys) + 1),
               next : {"run", "provision", "reboot", "shutdown"}]
  BY DefaultsType DEF Init, NoJob, Keys
<1> QED
  BY <1>1, DefaultsType DEF Init, StoredInv, SettingsTypeOK

\* A save begins with NVS as the settings in force.
LEMMA ActivateStored ==
  ASSUME StoredInv, NEW candidate \in Settings, NEW force \in BOOLEAN,
         NEW next \in {"run", "provision", "reboot", "shutdown"},
         next # "provision" => ~(candidate.cloud = "off" /\ settings.control = "Cloud"),
         Activate(candidate, force, next)
  PROVE  StoredInv'
<1>1. job' \in [goal : Settings, key : 1..(Len(Keys) + 1),
                next : {"run", "provision", "reboot", "shutdown"}]
  BY DEF Activate, Keys
<1>2. SettingsTypeOK'
  BY <1>1 DEF Activate, StoredInv, SettingsTypeOK
<1>3. StoredHalf'
  BY DEF Activate, StoredInv, StoredHalf
<1>4. Orderly' /\ Valid(job.goal)'
  BY DEF Activate, StoredInv, Orderly, Valid
<1> QED
  BY <1>2, <1>3, <1>4 DEF Activate, StoredInv, Valid

-----------------------------------------------------------------------------
(* The writers: what each candidate keeps of the control and the connection. *)

LEMMA WriterStored ==
  ASSUME StoredInv, Writer
  PROVE  StoredInv'
<1> USE DEF StoredInv, SettingsTypeOK
<1>1. CASE UserChange
  <2>1. PICK mode \in Modes, corr \in {"none", "set"} :
          Activate([mode |-> mode, cloud |-> settings.cloud, control |-> settings.control,
                    onboarded |-> settings.onboarded \/ mode # settings.mode, corr |-> corr],
                   FALSE, "run")
    BY <1>1 DEF UserChange
  <2> DEFINE c == [mode |-> mode, cloud |-> settings.cloud, control |-> settings.control,
                   onboarded |-> settings.onboarded \/ mode # settings.mode, corr |-> corr]
  <2>2. c \in Settings
    BY FieldTypes DEF Settings
  <2>3. ~(c.cloud = "off" /\ settings.control = "Cloud")
    BY DEF Valid
  <2> QED
    BY <2>1, <2>2, <2>3, ActivateStored
<1>2. CASE MarkOnboardingDone
  <2> DEFINE c == [settings EXCEPT !.onboarded = TRUE]
  <2>1. c \in Settings /\ ~(c.cloud = "off" /\ settings.control = "Cloud")
    BY DEF Settings, Valid
  <2> QED
    BY <1>2, <2>1, ActivateStored DEF MarkOnboardingDone
<1>3. CASE CloudUpdate \/ SerialCalibrates
  <2>1. PICK corr \in {"none", "set"} : Activate([settings EXCEPT !.corr = corr], FALSE, "run")
    BY <1>3 DEF CloudUpdate, SerialCalibrates
  <2> DEFINE c == [settings EXCEPT !.corr = corr]
  <2>2. c \in Settings /\ ~(c.cloud = "off" /\ settings.control = "Cloud")
    BY DEF Settings, Valid
  <2> QED
    BY <2>1, <2>2, ActivateStored
<1>4. CASE LocalUpdate
  <2>1. PICK cloud \in {"on", "off"}, control \in Controls, corr \in {"none", "set"} :
          /\ settings.control = "Cloud" => cloud = settings.cloud /\ corr = settings.corr
          /\ Activate([mode |-> settings.mode, cloud |-> cloud, control |-> control,
                       onboarded |-> settings.onboarded, corr |-> corr], FALSE, "run")
    BY <1>4 DEF LocalUpdate
  <2> DEFINE c == [mode |-> settings.mode, cloud |-> cloud, control |-> control,
                   onboarded |-> settings.onboarded, corr |-> corr]
  <2>2. c \in Settings
    BY FieldTypes DEF Settings
  <2>3. ~(c.cloud = "off" /\ settings.control = "Cloud")
    BY <2>1 DEF Valid
  <2> QED
    BY <2>1, <2>2, <2>3, ActivateStored
<1>5. CASE ProvisioningConnected
  <2>1. PICK cloud \in {"on", "off"} :
          Activate([settings EXCEPT !.cloud = cloud,
                      !.control = IF cloud = "off" /\ @ = "Cloud" THEN "Local" ELSE @],
                   FALSE, "provision")
    BY <1>5 DEF ProvisioningConnected
  <2>2. [settings EXCEPT !.cloud = cloud,
           !.control = IF cloud = "off" /\ @ = "Cloud" THEN "Local" ELSE @] \in Settings
    BY DEF Settings, Controls
  <2> QED
    BY <2>1, <2>2, ActivateStored
<1>6. CASE FactoryReset
  <2>1. ASSUME NEW keep \in BOOLEAN, NEW next \in {"run", "reboot"}, Reset(keep, next)
        PROVE  StoredInv'
    <3> DEFINE c == [Defaults EXCEPT !.corr = IF keep \/ manufacturing THEN settings.corr ELSE @]
    <3>1. c \in Settings /\ c.cloud = "on"
      BY FieldTypes, DefaultsType DEF Settings
    <3> QED
      BY <2>1, <3>1, ActivateStored DEF Reset
  <2> QED
    BY <1>6, <2>1 DEF FactoryReset
<1> QED
  BY <1>1, <1>2, <1>3, <1>4, <1>5, <1>6 DEF Writer
-----------------------------------------------------------------------------
(* The save itself, and power.                                              *)

\* A key written is one key further through the candidate.
LEMMA WriteKeyStored ==
  ASSUME StoredInv, WriteKey
  PROVE  StoredInv'
<1> USE DEF StoredInv, SettingsTypeOK, WriteKey
<1>1. job.key \in 1..5 /\ job.goal \in Settings
  BY DEF Keys
<1>2. job' = [goal |-> job.goal, key |-> job.key + 1, next |-> job.next]
  BY <1>1
<1>3. job' \in [goal : Settings, key : 1..(Len(Keys) + 1),
                next : {"run", "provision", "reboot", "shutdown"}]
  BY <1>1, <1>2 DEF Keys
<1>4. nvs' \in Settings /\ StoredHalf'
  <2>1. Keys[1] = "mode" /\ Keys[2] = "cloud" /\ Keys[3] = "control"
        /\ Keys[4] = "onboarded" /\ Keys[5] = "corr"
    BY DEF Keys
  <2>2. CASE job.key = 1
    BY <1>1, <1>2, <2>1, <2>2, FieldTypes DEF Settings, StoredHalf
  <2>3. CASE job.key = 2
    BY <1>1, <1>2, <2>1, <2>3, FieldTypes DEF Settings, StoredHalf
  <2>4. CASE job.key = 3
    BY <1>1, <1>2, <2>1, <2>4, FieldTypes DEF Settings, StoredHalf
  <2>5. CASE job.key = 4
    BY <1>1, <1>2, <2>1, <2>5, FieldTypes DEF Settings, StoredHalf
  <2>6. CASE job.key = 5
    BY <1>1, <1>2, <2>1, <2>6, FieldTypes DEF Settings, StoredHalf
  <2> QED
    BY <1>1, <2>2, <2>3, <2>4, <2>5, <2>6
<1>5. Orderly' /\ Valid(job.goal)' /\ Valid(settings)'
  BY <1>2 DEF Orderly, Valid
<1> QED
  BY <1>3, <1>4, <1>5

\* The candidate comes into force when all of its keys are stored.
LEMMA SaveEndsStored ==
  ASSUME StoredInv, SaveEnds
  PROVE  StoredInv'
<1> USE DEF StoredInv, SettingsTypeOK, SaveEnds
<1>1. job.key = 6 /\ nvs.cloud = job.goal.cloud /\ nvs.control = job.goal.control
  BY DEF Keys, StoredHalf
<1>2. job' \in [goal : Settings, key : 1..(Len(Keys) + 1),
                next : {"run", "provision", "reboot", "shutdown"}]
  BY DefaultsType DEF NoJob, Keys
<1>3. settings' \in Settings /\ Valid(settings)' /\ Valid(nvs)' /\ at' \in {"run", "off"}
  BY <1>1 DEF Valid
<1> QED
  BY <1>1, <1>2, <1>3

\* Power cut in the middle of a save leaves a valid half: the old control and the old
\* connection, the old control and a connection that suits it, or the candidate's.
LEMMA PowerCutStored ==
  ASSUME StoredInv, "provision" \notin Faults, PowerCut
  PROVE  StoredInv'
<1> USE DEF StoredInv, SettingsTypeOK, PowerCut
<1>1. job' \in [goal : Settings, key : 1..(Len(Keys) + 1),
                next : {"run", "provision", "reboot", "shutdown"}]
  BY DefaultsType DEF NoJob, Keys
<1>2. Valid(nvs)
  <2>1. CASE at = "run"
    BY <2>1 DEF Valid
  <2>2. CASE at = "saving"
    <3>1. job.next # "provision"
      BY <2>2
    <3>2. job.key \in 1..6
      BY DEF Keys
    <3> QED
      BY <2>2, <3>1, <3>2 DEF StoredHalf, Orderly, Valid
  <2> QED
    BY <2>1, <2>2
<1>3. at' = "off" /\ UNCHANGED <<settings, nvs, manufacturing>>
  OBVIOUS
<1> QED
  BY <1>1, <1>2, <1>3 DEF Valid

LEMMA BootStored ==
  ASSUME StoredInv, Boot
  PROVE  StoredInv'
BY DEF StoredInv, SettingsTypeOK, Boot, Valid

\* Manufacturing changes the mode alone.
LEMMA ManufacturingStored ==
  ASSUME StoredInv, EnterManufacturing
  PROVE  StoredInv'
<1> USE DEF StoredInv, SettingsTypeOK, EnterManufacturing
<1>1. settings' = [settings EXCEPT !.mode = "Stationary"]
  OBVIOUS
<1>2. /\ settings' \in Settings
      /\ settings'.cloud = settings.cloud /\ settings'.control = settings.control
  BY <1>1 DEF Settings, Modes
<1>3. at' = "run" /\ UNCHANGED <<nvs, job>> /\ manufacturing' = TRUE
  OBVIOUS
<1> QED
  BY <1>2, <1>3 DEF Valid

LEMMA ShutdownStored ==
  ASSUME StoredInv, Shutdown
  PROVE  StoredInv'
<1> USE DEF StoredInv, SettingsTypeOK
<1>1. CASE manufacturing /\ Reset(TRUE, "shutdown")
  <2> DEFINE c == [Defaults EXCEPT !.corr = IF TRUE \/ manufacturing THEN settings.corr ELSE @]
  <2>1. c \in Settings /\ c.cloud = "on"
    BY FieldTypes, DefaultsType DEF Settings
  <2> QED
    BY <1>1, <2>1, ActivateStored DEF Reset
<1>2. CASE at = "run" /\ at' = "off" /\ UNCHANGED <<settings, nvs, manufacturing, job>>
  BY <1>2 DEF Valid
<1> QED
  BY <1>1, <1>2 DEF Shutdown

\* Every step keeps the invariant.
LEMMA NextStored ==
  ASSUME StoredInv, "fail" \notin Faults, "provision" \notin Faults, [Next]_vars
  PROVE  StoredInv'
<1>1. CASE UNCHANGED vars
  BY <1>1 DEF vars, StoredInv, SettingsTypeOK, StoredHalf, Orderly, Valid
<1>2. CASE SaveFails
  BY <1>2 DEF SaveFails
<1> QED
  BY <1>1, <1>2, WriterStored, WriteKeyStored, SaveEndsStored, PowerCutStored, BootStored,
     ManufacturingStored, ShutdownStored DEF Next

\* Whatever the writers do and wherever power is cut, but for a key that cannot be written and
\* a provisioning result that is saved by half, cloud control without the cloud connection is
\* neither in force nor loaded by a boot (save_go_settings() writes the connection before the
\* control, and each writer validates the whole candidate).
THEOREM ValidAcrossBoots ==
  ASSUME "fail" \notin Faults, "provision" \notin Faults
  PROVE  Spec => []StoredValid
<1>1. StoredInv /\ [Next]_vars => StoredInv'
  BY NextStored
<1>2. StoredInv => StoredValid
  BY DEF StoredInv, SettingsTypeOK, StoredValid, Valid
<1> QED
  BY <1>1, <1>2, InitStored, PTL DEF Spec
================================================================================
