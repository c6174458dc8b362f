---------------------------- MODULE StationaryProofs ----------------------------
(***************************************************************************)
(* Proofs about Stationary and the WifiManager below it, for any number of *)
(* saved networks, any retry budget, any bound, and every failure and      *)
(* order of events that the model has.                                     *)
(*                                                                         *)
(* The argument has three layers.  The manager alone: whatever its callers *)
(* do, what it believes of its attempt agrees with the driver's link and   *)
(* with the order of the events the driver has posted (Driven).  The       *)
(* policy alone: what the orchestrator shows, who holds the callbacks and  *)
(* which of its own events are still to come agree (Session), of which it  *)
(* asks the manager only that an address is reported by HalGotIp.  Both    *)
(* together: a device that has been online is looked after (Watched).      *)
(***************************************************************************)
EXTENDS Stationary, FiniteSetTheorems, TLAPS

-----------------------------------------------------------------------------
(* Types.                                                                   *)

Stas == {"Disconnected", "Connecting", "Connected", "GotIp"}
Autos == {"off", "scanning", "sweeping"}
Links == {"down", "joining", "assoc", "up"}
Notices == Reasons \cup {"none", "ip", "user"}

\* What the manager writes; a candidate that is being tried is not among those left.
ManagerTypes ==
  /\ target \in Networks /\ budget \in {0, MaxRetry} /\ retry \in 0..budget
  /\ sta \in Stas /\ auto \in Autos /\ left \in 0..MaxSaved
  /\ auto = "sweeping" => left + 1 \in 0..MaxSaved
  /\ requested \in BOOLEAN /\ swallow \in BOOLEAN
  /\ retryTimer \in BOOLEAN /\ dhcpTimer \in BOOLEAN /\ scanning \in BOOLEAN
  /\ link \in Links /\ inbox \in Seq(DriverEvents) /\ notice \in Notices

\* What the service, the session and the orchestrator write.
PolicyTypes ==
  /\ saved \in 0..MaxSaved
  /\ mode \in {"Stationary", "Away"} /\ page \in {"info", "provisioning", "home"}
  /\ step \in {"receive", "timers", "failing", "linked"}
  /\ events \in Seq(OrchestratorEvents) /\ sessions \in 0..MaxTrials
  /\ factory \in BOOLEAN /\ cloud \in BOOLEAN /\ online \in BOOLEAN /\ been \in BOOLEAN
  /\ window \in BOOLEAN /\ clearWindow \in BOOLEAN /\ reconnect \in BOOLEAN
  /\ provActive \in BOOLEAN /\ retained \in BOOLEAN
  /\ owner \in {"service", "prov", "none"} /\ pending \in Credentials \cup {"saved"}
  /\ prov \in {"Idle", "Waiting", "Connecting", "Connected", "Hung"}

\* Either of them with whatever mishap it notes.
ConnectsSaved(fresh, q) == \E kinds : ConnectSavedInternal(fresh, q, kinds)
Starts == \E kinds : StartProvisioning(kinds)

\* The fields of the manager that a reboot resets.
Reset ==
  /\ target' = "saved" /\ budget' = 0 /\ retry' = 0 /\ sta' = "Disconnected"
  /\ auto' = "off" /\ left' = 0 /\ requested' = FALSE /\ swallow' = FALSE
  /\ retryTimer' = FALSE /\ dhcpTimer' = FALSE
  /\ link' = "down" /\ scanning' = FALSE /\ inbox' = <<>> /\ Quiet

\* What the rest of the system may do to the manager.
Asked ==
  \/ \E off \in BOOLEAN : DisconnectAnd(off)
  \/ \E network \in Networks, status \in {"ok", "busy"} : ConnectTo(network, status)
  \/ \E status \in {"ok", "busy", "none", "failed"} : ConnectSaved(status)
  \/ Reset

DriverPosts == Associates \/ GetsIp \/ ScanEnds \/ \E reason \in Reasons : LinkLost(reason)

Idles == UNCHANGED <<attemptVars, timerVars, driverVars>> /\ notice' \in {"none", notice}

\* A step of the system, for the manager.
Moves == Idles \/ Asked \/ DriverPosts \/ WifiTask

LEMMA Tasks == WifiTask => EventTask \/ TimerTask
BY DEF WifiTask

LEMMA Opens == ASSUME OpenProvisioning PROVE Starts
<1>1. StartProvisioning({})
  BY DEF OpenProvisioning
<1> QED
  BY <1>1 DEF Starts

LEMMA DueConnects ==
  ASSUME NEW delivered, NEW expired, NEW posted, NEW due, Tick(delivered, expired, posted, due), due
  PROVE  LET told == IF delivered THEN Append(events, "linked") ELSE events
             q == IF expired /\ posted THEN Append(told, "missing") ELSE told
         IN  ConnectsSaved(FALSE, q) \/ ConnectFallbackInternal(FALSE, q)
<1> DEFINE told == IF delivered THEN Append(events, "linked") ELSE events
           q == IF expired /\ posted THEN Append(told, "missing") ELSE told
<1>1. ConnectSavedInternal(FALSE, q, {}) \/ ConnectFallbackInternal(FALSE, q)
  BY DEF Tick
<1> HIDE DEF q
<1>2. ConnectsSaved(FALSE, q) \/ ConnectFallbackInternal(FALSE, q)
  BY <1>1 DEF ConnectsSaved
<1> QED
  BY <1>2 DEF q

LEMMA Enters ==
  ASSUME EnterStationary
  PROVE  ConnectsSaved(TRUE, events) \/ ConnectFallbackInternal(TRUE, events) \/ Starts
<1> DEFINE overtaken == When("overtake", events # <<>>)
<1>1. \/ ConnectSavedInternal(TRUE, events, overtaken)
      \/ ConnectFallbackInternal(TRUE, events)
      \/ StartProvisioning(overtaken)
  BY Zenon DEF EnterStationary
<1> HIDE DEF overtaken
<1> QED
  BY <1>1 DEF ConnectsSaved, Starts

LEMMA OnlyMoves == ASSUME [Next]_vars PROVE Moves
<1> USE DEF Moves
<1>1. CASE UNCHANGED vars
  BY <1>1 DEF vars, managerVars, Idles
<1>2. CASE Driver
  BY <1>2 DEF Driver, DriverAnswers, LinkSettles, DriverPosts, LinkLost
<1>3. CASE WifiTask
  BY <1>3
<1>4. ASSUME ServiceIdle PROVE Moves
  BY <1>4 DEF ServiceIdle, Idles, Quiet
<1>5. ASSUME NEW fresh, NEW q, ConnectsSaved(fresh, q) PROVE Moves
  BY <1>5 DEF ConnectsSaved, ConnectSavedInternal, Asked
<1>6. ASSUME NEW fresh, NEW q, ConnectFallbackInternal(fresh, q) PROVE Moves
  BY <1>6 DEF ConnectFallbackInternal, Asked, Networks
<1>7. ASSUME Starts PROVE Moves
  BY <1>7 DEF Starts, StartProvisioning, Asked
<1>8. ASSUME NEW q, LeaveStationary(q) PROVE Moves
  BY <1>8 DEF LeaveStationary, Shutdown, Asked
<1>9. CASE Handler
  <2>1. CASE OnUp
    BY <2>1, <1>4 DEF OnUp
  <2>2. CASE OnLinked
    BY <2>2, <1>4 DEF OnLinked
  <2>3. CASE OnStopped
    BY <2>3, <1>4, <1>8 DEF OnStopped
  <2>4. CASE OpenProvisioning
    BY <2>4, <1>7, Opens
  <2>5. CASE HandBack
    BY <2>5, <1>4 DEF HandBack
  <2>6. ASSUME NEW reason \in Reasons, OnLost(reason) PROVE Moves
    <3>1. FactoryFails => Reset
      BY DEF FactoryFails, Reset
    <3> QED
      BY <2>6, <3>1, <1>4 DEF OnLost, Asked
  <2> QED
    BY <1>9, <2>1, <2>2, <2>3, <2>4, <2>5, <2>6 DEF Handler
<1>10. CASE Timers
  <2>1. PICK delivered \in BOOLEAN, expired \in BOOLEAN, posted \in BOOLEAN, due \in BOOLEAN :
          Tick(delivered, expired, posted, due)
    BY <1>10 DEF Timers
  <2>2. \/ ServiceIdle
        \/ \E q : ConnectFallbackInternal(FALSE, q)
        \/ \E q : ConnectsSaved(FALSE, q)
    <3>1. CASE due
      BY <2>1, <3>1, DueConnects, Zenon
    <3>2. CASE ~due
      BY <2>1, <3>2 DEF Tick
    <3> QED
      BY <3>1, <3>2
  <2> QED
    BY <2>2, <1>4, <1>5, <1>6
<1>11. CASE User
  <2>1. CASE EnterStationary
    BY <2>1, <1>5, <1>6, <1>7, Enters
  <2>2. CASE UserLeaves
    BY <2>2, <1>8 DEF UserLeaves
  <2>3. CASE SwitchTransport
    BY <2>3, <1>4 DEF SwitchTransport
  <2>4. ASSUME NEW network \in Credentials, HandOverCredentials(network) PROVE Moves
    <3>1. PICK status \in {"ok", "busy"} : ConnectTo(network, status)
      BY <2>4, Zenon DEF HandOverCredentials
    <3>2. network \in Networks
      BY DEF Networks
    <3>3. \E n \in Networks, s \in {"ok", "busy"} : ConnectTo(n, s)
      BY <3>1, <3>2, Zenon
    <3> QED
      BY <3>3 DEF Asked
  <2> QED
    BY <1>11, <2>1, <2>2, <2>3, <2>4 DEF User
<1> QED
  BY <1>1, <1>2, <1>3, <1>9, <1>10, <1>11 DEF Next

-----------------------------------------------------------------------------
(* The types are kept.                                                      *)

LEMMA Zero == /\ 0 \in {0, MaxRetry} /\ 0 \in 0..MaxSaved
              /\ \A b \in {0, MaxRetry} : 0 \in 0..b
BY WifiAssumption

LEMMA NoEvents == <<>> \in Seq(DriverEvents) /\ <<>> \in Seq(OrchestratorEvents)
OBVIOUS

LEMMA EventTypes ==
  /\ Plain("connected") \in DriverEvents /\ Plain("gotip") \in DriverEvents
  /\ Plain("scan") \in DriverEvents /\ Lost("soft") \in DriverEvents
  /\ \A reason \in Reasons : Lost(reason) \in DriverEvents
  /\ \A e \in DriverEvents : e.event = "lost" => e.reason \in Reasons
BY DEF DriverEvents, Plain, Lost, Reasons

LEMMA QueueTypes ==
  ASSUME NEW q \in Seq(DriverEvents)
  PROVE  /\ \A e \in DriverEvents : Append(q, e) \in Seq(DriverEvents)
         /\ q # <<>> => Tail(q) \in Seq(DriverEvents) /\ Head(q) \in DriverEvents
OBVIOUS

LEMMA EchoTypes ==
  ASSUME NEW q \in Seq(DriverEvents) PROVE EchoTo(q) \in Seq(DriverEvents)
BY EventTypes, QueueTypes DEF EchoTo

LEMMA JoinTypes ==
  ASSUME NEW q \in Seq(DriverEvents), NEW l \in Links, Join(q, l) \/ Keep(q, l)
  PROVE  link' \in Links /\ inbox' \in Seq(DriverEvents)
BY EventTypes, QueueTypes DEF Join, Keep, Links

\* What an attempt or a sweep writes, and of which types.
Tried(tries) ==
  /\ sta' \in Stas /\ auto' \in Autos /\ left' \in 0..MaxSaved
  /\ auto' = "sweeping" => left' + 1 \in 0..MaxSaved
  /\ retry' \in {0, tries}
  /\ link' \in Links /\ inbox' \in Seq(DriverEvents) /\ notice' \in Notices

LEMMA AttemptTypes ==
  ASSUME ManagerTypes, NEW q \in Seq(DriverEvents), NEW tries, Attempt(q, link, tries)
  PROVE  Tried(tries)
<1>1. link' \in Links /\ inbox' \in Seq(DriverEvents)
  <2>1. link \in Links
    BY DEF ManagerTypes
  <2> QED
    BY <2>1, JoinTypes DEF Attempt
<1> QED
  BY <1>1 DEF Tried, Attempt, ManagerTypes, Stas, Notices, Reasons

LEMMA SweepTypes ==
  ASSUME ManagerTypes, NEW n \in 0..MaxSaved, NEW reason \in Reasons,
         NEW q \in Seq(DriverEvents), NEW l \in Links, Sweep(n, reason, q, l)
  PROVE  Tried(retry)
<1>1. link' \in Links /\ inbox' \in Seq(DriverEvents)
  BY JoinTypes DEF Sweep
<1>2. /\ left' \in 0..MaxSaved
      /\ auto' = "sweeping" => left' + 1 \in 0..MaxSaved
  BY WifiAssumption DEF Sweep
<1> QED
  BY <1>1, <1>2 DEF Tried, Sweep, ManagerTypes, Stas, Autos, Notices, Reasons

LEMMA TriedTypes ==
  ASSUME ManagerTypes, NEW tries, Tried(tries), target' \in Networks, budget' \in {0, MaxRetry},
         tries \in 0..budget', requested' \in BOOLEAN, swallow' \in BOOLEAN,
         retryTimer' \in BOOLEAN, dhcpTimer' \in BOOLEAN, scanning' \in BOOLEAN
  PROVE  ManagerTypes'
<1>1. retry' \in 0..budget'
  BY Zero DEF Tried
<1> QED
  BY <1>1 DEF Tried, ManagerTypes

LEMMA SameTypes ==
  ASSUME ManagerTypes, UNCHANGED <<attemptVars, timerVars, driverVars>>, Quiet
  PROVE  ManagerTypes'
BY DEF ManagerTypes, timerVars, driverVars, attemptVars, Quiet, Notices

LEMMA AskedTypes == ASSUME ManagerTypes, Asked PROVE ManagerTypes'
<1>1. ASSUME NEW off \in BOOLEAN, DisconnectAnd(off) PROVE ManagerTypes'
  <2>1. link' \in Links /\ inbox' \in Seq(DriverEvents)
    BY <1>1, EchoTypes DEF DisconnectAnd, ManagerTypes, Links
  <2> QED
    BY <1>1, <2>1, Zero DEF DisconnectAnd, ClearAutoState, ManagerTypes, Stas, Autos, Notices
<1>2. ASSUME NEW network \in Networks, NEW status, ConnectTo(network, status)
      PROVE  ManagerTypes'
  <2>1. CASE Attempt(inbox, link, 0)
    <3>1. CASE target' = network /\ budget' = 0 /\ requested' = FALSE
                 /\ UNCHANGED <<swallow, timerVars, scanning>>
      <4>1. Tried(0)
        BY <2>1, AttemptTypes DEF ManagerTypes
      <4>2. /\ swallow' \in BOOLEAN /\ retryTimer' \in BOOLEAN /\ dhcpTimer' \in BOOLEAN
            /\ scanning' \in BOOLEAN /\ 0 \in 0..budget'
        BY <3>1 DEF timerVars, ManagerTypes
      <4> QED
        BY <3>1, <4>1, <4>2, TriedTypes
    <3> QED
      BY <1>2, <3>1, SameTypes DEF ConnectTo
  <2>2. CASE UNCHANGED <<attemptVars, timerVars, driverVars>> /\ Quiet
    BY <2>2, SameTypes
  <2> QED
    BY <1>2, <2>1, <2>2 DEF ConnectTo
<1>3. ASSUME NEW status, ConnectSaved(status) PROVE ManagerTypes'
  <2>1. CASE UNCHANGED <<attemptVars, timerVars, driverVars>> /\ Quiet
    BY <2>1, SameTypes
  <2>2. CASE /\ target' = "saved" /\ budget' = MaxRetry /\ requested' = FALSE
             /\ Attempt(inbox, link, 0)
             /\ UNCHANGED <<scanning, swallow, timerVars>>
    <3>1. Tried(0)
      BY <2>2, AttemptTypes DEF ManagerTypes
    <3>2. /\ swallow' \in BOOLEAN /\ retryTimer' \in BOOLEAN /\ dhcpTimer' \in BOOLEAN
          /\ scanning' \in BOOLEAN /\ 0 \in 0..budget' /\ target' \in Networks
      BY <2>2, Zero DEF timerVars, ManagerTypes, Networks
    <3> QED
      BY <2>2, <3>1, <3>2, TriedTypes
  <2>3. CASE /\ target' = "saved" /\ budget' = MaxRetry /\ requested' = FALSE
             /\ retry' = 0 /\ left' = 0 /\ Quiet
             /\ auto' \in {"scanning", "off"} /\ scanning' \in {TRUE, scanning}
             /\ UNCHANGED <<sta, link, inbox, swallow, timerVars>>
    BY <2>3, Zero DEF ManagerTypes, timerVars, Networks, Autos, Quiet, Notices
  <2> QED
    BY <1>3, <2>1, <2>2, <2>3 DEF ConnectSaved
<1>4. ASSUME Reset PROVE ManagerTypes'
  <2>1. retry' \in 0..budget' /\ budget' \in {0, MaxRetry} /\ left' \in 0..MaxSaved
    BY <1>4, Zero DEF Reset
  <2>2. inbox' \in Seq(DriverEvents)
    BY <1>4 DEF Reset
  <2> QED
    BY <1>4, <2>1, <2>2 DEF Reset, ManagerTypes, Networks, Stas, Autos, Links, Notices, Quiet
<1> QED
  BY <1>1, <1>2, <1>3, <1>4 DEF Asked

LEMMA PostTypes == ASSUME ManagerTypes, DriverPosts PROVE ManagerTypes'
<1>1. ASSUME NEW from \in Links, NEW to \in Links, NEW e \in DriverEvents, LinkStep(from, to, e)
      PROVE  ManagerTypes'
  BY <1>1, QueueTypes DEF LinkStep, ManagerTypes, attemptVars, timerVars, Quiet, Notices
<1>2. ASSUME ScanEnds PROVE ManagerTypes'
  BY <1>2, QueueTypes, EventTypes DEF ScanEnds, ManagerTypes, attemptVars, timerVars, Quiet, Notices
<1> QED
  BY <1>1, <1>2, EventTypes DEF DriverPosts, Associates, GetsIp, LinkLost, Links

LEMMA LostTypes ==
  ASSUME ManagerTypes, HalLost PROVE ManagerTypes'
<1>1. /\ inbox # <<>> /\ Tail(inbox) \in Seq(DriverEvents)
      /\ Head(inbox).reason \in Reasons
  BY QueueTypes, EventTypes DEF HalLost, Received, ManagerTypes
<1>2. CASE swallow \/ requested
  BY <1>1, <1>2 DEF HalLost, ManagerTypes, timerVars, Quiet, Notices, Stas
<1>3. CASE ~swallow /\ ~requested
  <2>1. LinkFailed(Head(inbox).reason) /\ dhcpTimer' = FALSE
    BY <1>3 DEF HalLost
  <2>2. UNCHANGED <<target, budget, scanning, swallow, requested>>
    BY <1>3 DEF HalLost
  <2>3. CASE /\ auto = "sweeping" /\ Sweep(left, Head(inbox).reason, Tail(inbox), link)
             /\ UNCHANGED retryTimer
    <3>1. Tried(retry)
      <4>1. link \in Links /\ left \in 0..MaxSaved
        BY DEF ManagerTypes
      <4> QED
        BY <1>1, <2>3, <4>1, SweepTypes
    <3>2. /\ target' \in Networks /\ budget' \in {0, MaxRetry} /\ retry \in 0..budget'
          /\ requested' \in BOOLEAN /\ swallow' \in BOOLEAN /\ retryTimer' \in BOOLEAN
          /\ dhcpTimer' \in BOOLEAN /\ scanning' \in BOOLEAN
      BY <2>1, <2>2, <2>3 DEF ManagerTypes
    <3> QED
      BY <3>1, <3>2, TriedTypes
  <2>4. CASE /\ auto # "sweeping" /\ TriesLeft(Head(inbox).reason)
             /\ retry' = retry + 1 /\ sta' = "Connecting" /\ retryTimer' = TRUE
             /\ Quiet /\ Keep(Tail(inbox), link)
             /\ UNCHANGED <<auto, left>>
    <3>1. retry' \in 0..budget'
      BY <2>2, <2>4 DEF ManagerTypes, TriesLeft
    <3> QED
      BY <1>1, <2>1, <2>2, <2>4, <3>1 DEF ManagerTypes, Keep, Quiet, Stas, Notices
  <2>5. CASE /\ auto # "sweeping"
             /\ sta' = "Disconnected" /\ retry' = 0 /\ notice' = Head(inbox).reason
             /\ Keep(Tail(inbox), link)
             /\ UNCHANGED <<auto, left, retryTimer>>
    BY <1>1, <2>1, <2>2, <2>5, Zero DEF ManagerTypes, Keep, Stas, Notices
  <2> QED
    BY <2>1, <2>3, <2>4, <2>5 DEF LinkFailed
<1> QED
  BY <1>2, <1>3 DEF ManagerTypes

LEMMA TaskTypes ==
  ASSUME ManagerTypes, saved \in 0..MaxSaved, EventTask \/ TimerTask PROVE ManagerTypes'
<1>1. inbox # <<>> => Tail(inbox) \in Seq(DriverEvents)
  BY QueueTypes DEF ManagerTypes
<1>2. CASE HalConnected
  BY <1>1, <1>2 DEF HalConnected, Received, ManagerTypes, Quiet, Notices, Stas
<1>3. CASE HalGotIp
  BY <1>1, <1>3, Zero DEF HalGotIp, Received, ManagerTypes, Quiet, Notices, Stas, Autos
<1>4. CASE HalLost
  BY <1>4, LostTypes
<1>5. CASE HalScanned
  <2>1. CASE auto # "scanning"
    BY <1>1, <1>5, <2>1 DEF HalScanned, Received, Keep, ManagerTypes, timerVars, Quiet, Notices
  <2>2. CASE auto = "scanning"
    <3>1. PICK seen \in 0..saved : Sweep(seen, "missing", Tail(inbox), link)
      BY <1>5, <2>2 DEF HalScanned
    <3>2. seen \in 0..MaxSaved /\ "missing" \in Reasons
      BY WifiAssumption DEF Reasons
    <3>3. Tried(retry)
      <4>1. link \in Links /\ Tail(inbox) \in Seq(DriverEvents)
        BY <1>1, <1>5 DEF ManagerTypes, HalScanned, Received
      <4> QED
        BY <3>1, <3>2, <4>1, SweepTypes
    <3>4. /\ target' \in Networks /\ budget' \in {0, MaxRetry} /\ retry \in 0..budget'
          /\ requested' \in BOOLEAN /\ swallow' \in BOOLEAN /\ retryTimer' \in BOOLEAN
          /\ dhcpTimer' \in BOOLEAN /\ scanning' \in BOOLEAN
      BY <1>5 DEF HalScanned, timerVars, ManagerTypes
    <3> QED
      BY <3>3, <3>4, TriedTypes
  <2> QED
    BY <2>1, <2>2
<1>6. CASE DhcpTimeout
  <2>1. CASE sta # "Connected"
    BY <1>6, <2>1 DEF DhcpTimeout, ManagerTypes, Quiet, Notices
  <2>2. CASE sta = "Connected" /\ auto = "sweeping"
    <3>1. EchoTo(inbox) \in Seq(DriverEvents) /\ "down" \in Links /\ "hard" \in Reasons
      BY EchoTypes DEF ManagerTypes, Links, Reasons
    <3>2. Sweep(left, "hard", EchoTo(inbox), "down")
      BY <1>6, <2>2 DEF DhcpTimeout
    <3>3. Tried(retry)
      BY <3>1, <3>2, SweepTypes DEF ManagerTypes
    <3>4. /\ target' \in Networks /\ budget' \in {0, MaxRetry} /\ retry \in 0..budget'
          /\ requested' \in BOOLEAN /\ swallow' \in BOOLEAN /\ retryTimer' \in BOOLEAN
          /\ dhcpTimer' \in BOOLEAN /\ scanning' \in BOOLEAN
      BY <1>6, <2>2 DEF DhcpTimeout, ManagerTypes
    <3> QED
      BY <3>3, <3>4, TriedTypes
  <2>3. CASE sta = "Connected" /\ auto # "sweeping"
    <3>1. EchoTo(inbox) \in Seq(DriverEvents)
      BY EchoTypes DEF ManagerTypes
    <3> QED
      BY <1>6, <2>3, <3>1, Zero DEF DhcpTimeout, Keep, ManagerTypes, Links, Notices, Reasons, Stas
  <2> QED
    BY <2>1, <2>2, <2>3
<1>7. CASE RetryDue
  <2>1. CASE requested \/ sta # "Connecting"
    BY <1>7, <2>1 DEF RetryDue, ManagerTypes, Quiet, Notices
  <2>2. CASE ~(requested \/ sta # "Connecting") /\ auto = "sweeping"
    <3>1. Sweep(left + 1, "soft", inbox, link) /\ "soft" \in Reasons /\ left + 1 \in 0..MaxSaved
      BY <1>7, <2>2 DEF RetryDue, ManagerTypes, Reasons
    <3>2. Tried(retry)
      BY <3>1, SweepTypes DEF ManagerTypes
    <3>3. /\ target' \in Networks /\ budget' \in {0, MaxRetry} /\ retry \in 0..budget'
          /\ requested' \in BOOLEAN /\ swallow' \in BOOLEAN /\ retryTimer' \in BOOLEAN
          /\ dhcpTimer' \in BOOLEAN /\ scanning' \in BOOLEAN
      BY <1>7 DEF RetryDue, ManagerTypes
    <3> QED
      BY <3>2, <3>3, TriedTypes
  <2>3. CASE ~(requested \/ sta # "Connecting") /\ auto # "sweeping"
    <3>1. Attempt(inbox, link, retry)
      BY <1>7, <2>3 DEF RetryDue
    <3>2. Tried(retry)
      BY <3>1, AttemptTypes DEF ManagerTypes
    <3>3. /\ target' \in Networks /\ budget' \in {0, MaxRetry} /\ retry \in 0..budget'
          /\ requested' \in BOOLEAN /\ swallow' \in BOOLEAN /\ retryTimer' \in BOOLEAN
          /\ dhcpTimer' \in BOOLEAN /\ scanning' \in BOOLEAN
      BY <1>7 DEF RetryDue, ManagerTypes
    <3> QED
      BY <3>2, <3>3, TriedTypes
  <2> QED
    BY <2>1, <2>2, <2>3
<1> QED
  BY <1>2, <1>3, <1>4, <1>5, <1>6, <1>7 DEF EventTask, TimerTask

LEMMA MovesTypes ==
  ASSUME ManagerTypes, saved \in 0..MaxSaved, Moves PROVE ManagerTypes'
<1>1. CASE Idles
  BY <1>1 DEF Idles, ManagerTypes, attemptVars, timerVars, driverVars, Notices
<1> QED
  BY <1>1, AskedTypes, PostTypes, TaskTypes, Tasks DEF Moves

\* What the manager reports to those who call connect(), and to the owner of the callbacks.
LEMMA Answered ==
  /\ \A network, status : ConnectTo(network, status) => notice' \in {"none", "soft"}
  /\ \A status : ConnectSaved(status) => notice' \in {"none", "soft"}
BY DEF ConnectTo, ConnectSaved, Attempt, Quiet

LEMMA Reported ==
  ASSUME ManagerTypes, EventTask \/ TimerTask
  PROVE  /\ notice' \in Reasons \cup {"none", "ip"}
         /\ notice' = "ip" => HalGotIp
<1>1. ASSUME NEW n, NEW reason \in Reasons, NEW q, NEW l, Sweep(n, reason, q, l)
      PROVE  notice' \in Reasons \cup {"none"}
  BY <1>1 DEF Sweep, Reasons
<1>2. ASSUME NEW q, NEW l, NEW tries, Attempt(q, l, tries)
      PROVE  notice' \in Reasons \cup {"none"}
  BY <1>2 DEF Attempt, Reasons
<1>3. "ip" \notin Reasons \cup {"none"} /\ "soft" \in Reasons /\ "hard" \in Reasons /\ "missing" \in Reasons
  BY DEF Reasons
<1>4. CASE HalConnected
  BY <1>3, <1>4 DEF HalConnected, Quiet
<1>5. CASE HalGotIp
  BY <1>5 DEF HalGotIp
<1>6. CASE HalLost
  <2>1. Head(inbox).reason \in Reasons
    BY <1>6, QueueTypes, EventTypes DEF HalLost, Received, ManagerTypes
  <2>2. Quiet \/ LinkFailed(Head(inbox).reason)
    BY <1>6 DEF HalLost
  <2>3. LinkFailed(Head(inbox).reason) => notice' \in Reasons \cup {"none"}
    BY <1>1, <2>1 DEF LinkFailed, Quiet
  <2> QED
    BY <2>2, <2>3, <1>3 DEF Quiet
<1>7. CASE HalScanned
  <2>1. Quiet \/ \E seen \in 0..saved : Sweep(seen, "missing", Tail(inbox), link)
    BY <1>7 DEF HalScanned
  <2> QED
    BY <1>1, <1>3, <2>1 DEF Quiet
<1>8. CASE DhcpTimeout
  <2>1. Quiet \/ Sweep(left, "hard", EchoTo(inbox), "down") \/ notice' = "hard"
    BY <1>8 DEF DhcpTimeout
  <2> QED
    BY <1>1, <1>3, <2>1 DEF Quiet
<1>9. CASE RetryDue
  <2>1. Quiet \/ Sweep(left + 1, "soft", inbox, link) \/ Attempt(inbox, link, retry)
    BY <1>9 DEF RetryDue
  <2> QED
    BY <1>1, <1>2, <1>3, <2>1 DEF Quiet
<1> QED
  BY <1>4, <1>5, <1>6, <1>7, <1>8, <1>9 DEF EventTask, TimerTask

LEMMA OrchestratorQueue ==
  ASSUME NEW q \in Seq(OrchestratorEvents)
  PROVE  /\ \A e \in OrchestratorEvents : Append(q, e) \in Seq(OrchestratorEvents)
         /\ q # <<>> => Tail(q) \in Seq(OrchestratorEvents) /\ Head(q) \in OrchestratorEvents
OBVIOUS

LEMMA OrchestratorKinds ==
  /\ Reasons \subseteq OrchestratorEvents
  /\ {"up", "linked", "stopped", "soft", "missing", "hard"} \subseteq OrchestratorEvents
BY DEF OrchestratorEvents, Reasons

LEMMA HeardTypes ==
  ASSUME PolicyTypes, NEW n \in Notices, Hears(n)
  PROVE  /\ saved' \in 0..MaxSaved /\ online' \in BOOLEAN /\ been' \in BOOLEAN
         /\ clearWindow' \in BOOLEAN /\ retained' \in BOOLEAN
         /\ events' \in Seq(OrchestratorEvents)
         /\ prov' \in {"Idle", "Waiting", "Connecting", "Connected", "Hung"}
<1>1. CASE UNCHANGED <<saved, latchVars, clearWindow, events, retained, prov>>
  BY <1>1 DEF PolicyTypes, latchVars
<1>2. CASE n # "none" /\ ServiceHears(n)
  <2>1. events' \in Seq(OrchestratorEvents)
    BY <1>2, OrchestratorQueue, OrchestratorKinds DEF ServiceHears, PolicyTypes, Notices
  <2> QED
    BY <1>2, <2>1 DEF ServiceHears, PolicyTypes
<1>3. CASE ProvisioningHears(n)
  <2>1. CASE ProvisioningLinked
    <3>1. events' \in Seq(OrchestratorEvents)
      BY <2>1, OrchestratorQueue, OrchestratorKinds DEF ProvisioningLinked, PolicyTypes
    <3>2. saved' \in 0..MaxSaved
      BY <2>1, WifiAssumption DEF ProvisioningLinked, PolicyTypes
    <3> QED
      BY <2>1, <3>1, <3>2 DEF ProvisioningLinked, PolicyTypes
  <2>2. CASE ~ProvisioningLinked
    BY <1>3, <2>2 DEF ProvisioningHears, PolicyTypes, latchVars
  <2> QED
    BY <2>1, <2>2
<1> QED
  BY <1>1, <1>2, <1>3 DEF Hears

\* connect() called by the service, for either network.
LEMMA ServiceConnects ==
  ASSUME PolicyTypes, NEW fresh \in BOOLEAN, NEW q \in Seq(OrchestratorEvents),
         ConnectsSaved(fresh, q) \/ ConnectFallbackInternal(fresh, q)
  PROVE  /\ owner' = "service" /\ clearWindow' = FALSE
         /\ online' \in BOOLEAN /\ window' \in BOOLEAN
         /\ been' = (been /\ ~fresh)
         /\ \E e \in {"missing", "soft"} : events' \in {q, Append(q, e)}
<1>1. PICK status : /\ notice' \in {"none", "soft"}
                    /\ ServiceTakes(fresh) /\ PostAnswer(status, q) /\ window' \in BOOLEAN
  <2>1. CASE ConnectsSaved(fresh, q)
    <3>1. PICK status \in {"ok", "busy", "none", "failed"} :
            /\ ConnectSaved(status)
            /\ ServiceTakes(fresh) /\ PostAnswer(status, q)
            /\ window' = (fresh /\ status = "ok")
      BY <2>1, Zenon DEF ConnectsSaved, ConnectSavedInternal
    <3>2. notice' \in {"none", "soft"} /\ (fresh /\ status = "ok") \in BOOLEAN
      BY <3>1, Answered
    <3>3. window' \in BOOLEAN
      BY <3>1, <3>2
    <3> QED
      BY <3>1, <3>2, <3>3
  <2>2. CASE ConnectFallbackInternal(fresh, q)
    <3>1. PICK status \in {"ok", "busy"} :
            /\ ConnectTo("factory", status)
            /\ ServiceTakes(fresh) /\ PostAnswer(status, q)
            /\ window' = fresh
      BY <2>2, Zenon DEF ConnectFallbackInternal
    <3>2. notice' \in {"none", "soft"}
      BY <3>1, Answered
    <3>3. window' \in BOOLEAN
      BY <3>1, <3>2
    <3> QED
      BY <3>1, <3>2, <3>3
  <2> QED
    BY <2>1, <2>2
<1>2. \E e \in {"missing", "soft"} : events' \in {q, Append(q, e)}
  BY <1>1 DEF PostAnswer
<1> QED
  BY <1>1, <1>2 DEF ServiceTakes, PolicyTypes

LEMMA ServiceConnectsTypes ==
  ASSUME PolicyTypes, NEW fresh \in BOOLEAN, NEW q \in Seq(OrchestratorEvents),
         ConnectsSaved(fresh, q) \/ ConnectFallbackInternal(fresh, q)
  PROVE  /\ owner' \in {"service", "prov", "none"} /\ clearWindow' \in BOOLEAN
         /\ online' \in BOOLEAN /\ window' \in BOOLEAN /\ been' \in BOOLEAN
         /\ events' \in Seq(OrchestratorEvents)
<1>1. events' \in Seq(OrchestratorEvents)
  BY ServiceConnects, OrchestratorQueue, OrchestratorKinds
<1> QED
  BY <1>1, ServiceConnects DEF PolicyTypes

LEMMA StartTypes ==
  ASSUME PolicyTypes, Starts
  PROVE  /\ saved' \in 0..MaxSaved /\ online' \in BOOLEAN /\ been' \in BOOLEAN
         /\ window' \in BOOLEAN /\ clearWindow' \in BOOLEAN /\ reconnect' \in BOOLEAN
         /\ provActive' \in BOOLEAN /\ retained' \in BOOLEAN
         /\ owner' \in {"service", "prov", "none"} /\ pending' \in Credentials \cup {"saved"}
         /\ prov' \in {"Idle", "Waiting", "Connecting", "Connected", "Hung"}
         /\ events' \in Seq(OrchestratorEvents)
BY DEF Starts, StartProvisioning, PolicyTypes

\* What a step that leaves the manager alone keeps.
LEMMA IdleKeeps == ASSUME ServiceIdle PROVE saved' = saved
BY DEF ServiceIdle

LEMMA LeaveTypes ==
  ASSUME PolicyTypes, NEW q \in Seq(OrchestratorEvents), LeaveStationary(q) PROVE PolicyTypes'
<1>1. events' \in Seq(OrchestratorEvents)
  BY OrchestratorQueue, OrchestratorKinds DEF LeaveStationary, Shutdown
<1> QED
  BY <1>1 DEF LeaveStationary, Shutdown, Then, PolicyTypes

LEMMA HandlerTypes == ASSUME PolicyTypes, Handler PROVE PolicyTypes'
<1>1. /\ \A e \in OrchestratorEvents : Append(events, e) \in Seq(OrchestratorEvents)
      /\ events # <<>> => Tail(events) \in Seq(OrchestratorEvents)
  BY OrchestratorQueue DEF PolicyTypes
<1>2. CASE OnUp
  <2>1. page' \in {"info", "provisioning", "home"} /\ cloud' \in BOOLEAN
    BY <1>2 DEF OnUp, PolicyTypes
  <2> QED
    BY <1>1, <1>2, <2>1, IdleKeeps
       DEF OnUp, Receive, Then, PolicyTypes, latchVars, deadlineVars, sessionVars
<1>3. CASE OnLinked
  BY <1>1, <1>3 DEF OnLinked, Receive, Then, ServiceIdle, PolicyTypes, latchVars, deadlineVars, sessionVars
<1>4. CASE OnStopped
  <2>1. CASE LeaveStationary(Tail(events))
    BY <1>1, <1>4, <2>1, LeaveTypes DEF OnStopped, Receive
  <2>2. CASE ~LeaveStationary(Tail(events))
    BY <1>1, <1>4, <2>2 DEF OnStopped, Receive, Then, ServiceIdle, PolicyTypes, latchVars, deadlineVars, sessionVars
  <2> QED
    BY <2>1, <2>2
<1>5. CASE OpenProvisioning
  <2>1. Starts
    BY <1>5, Opens
  <2> QED
    BY <1>5, <2>1, StartTypes DEF OpenProvisioning, Then, PolicyTypes
<1>6. CASE HandBack
  <2>1. /\ events' \in Seq(OrchestratorEvents) /\ provActive' \in BOOLEAN
        /\ owner' \in {"service", "prov", "none"}
        /\ prov' \in {"Idle", "Waiting", "Connecting", "Connected", "Hung"}
    BY <1>1, <1>6, OrchestratorKinds DEF HandBack, StopProvisioning, PolicyTypes
  <2> QED
    BY <2>1, <1>6, IdleKeeps DEF HandBack, Then, PolicyTypes, latchVars, deadlineVars
<1>7. ASSUME NEW reason \in Reasons, OnLost(reason) PROVE PolicyTypes'
  <2>1. CASE FactoryFails
    BY <2>1, NoEvents DEF FactoryFails, Then, PolicyTypes
  <2>2. CASE ~FactoryFails
    <3>1. step' \in {"receive", "timers", "failing", "linked"} /\ reconnect' \in BOOLEAN
      BY <1>7, <2>2 DEF OnLost, RuntimeLost, BringUpLost, Then, PolicyTypes
    <3>2. /\ Receive(reason) /\ events' = Tail(events) /\ cloud' = (cloud /\ mode # "Stationary")
          /\ ServiceIdle
          /\ UNCHANGED <<mode, factory, page, sessions, latchVars, window, clearWindow, sessionVars>>
      BY <1>7, <2>2 DEF OnLost
    <3> QED
      BY <1>1, <3>1, <3>2, IdleKeeps DEF Receive, PolicyTypes, latchVars, sessionVars
  <2> QED
    BY <2>1, <2>2
<1> QED
  BY <1>2, <1>3, <1>4, <1>5, <1>6, <1>7 DEF Handler

LEMMA TickTypes ==
  ASSUME PolicyTypes, NEW delivered \in BOOLEAN, NEW expired \in BOOLEAN, NEW posted \in BOOLEAN,
         NEW due \in BOOLEAN, Tick(delivered, expired, posted, due)
  PROVE  PolicyTypes'
<1> DEFINE told == IF delivered THEN Append(events, "linked") ELSE events
           q == IF expired /\ posted THEN Append(told, "missing") ELSE told
<1>1. told \in Seq(OrchestratorEvents)
  BY OrchestratorQueue, OrchestratorKinds DEF PolicyTypes
<1>2. q \in Seq(OrchestratorEvents)
  BY <1>1, OrchestratorQueue, OrchestratorKinds
<1>3. CASE due
  <2>1. /\ reconnect' = FALSE
        /\ ConnectsSaved(FALSE, q) \/ ConnectFallbackInternal(FALSE, q)
        /\ step' = "receive" /\ retained' \in BOOLEAN
        /\ UNCHANGED <<saved, mode, factory, page, cloud, sessions, provActive, prov, pending>>
    <3>1. ConnectsSaved(FALSE, q) \/ ConnectFallbackInternal(FALSE, q)
      BY <1>3, DueConnects
    <3> QED
      BY <1>3, <3>1 DEF Tick, Then
  <2> HIDE DEF q
  <2> QED
    BY <1>2, <2>1, ServiceConnectsTypes DEF PolicyTypes
<1>4. CASE ~due
  <2>1. /\ events' = q /\ window' \in BOOLEAN /\ clearWindow' = FALSE
        /\ UNCHANGED <<reconnect, online, been, owner>>
        /\ step' = "receive" /\ retained' \in BOOLEAN
        /\ UNCHANGED <<saved, mode, factory, page, cloud, sessions, provActive, prov, pending>>
    BY <1>4 DEF Tick, Then, StillOpen, latchVars
  <2>2. /\ events' \in Seq(OrchestratorEvents) /\ clearWindow' \in BOOLEAN
        /\ step' \in {"receive", "timers", "failing", "linked"}
    BY <1>2, <2>1
  <2>3. /\ saved' \in 0..MaxSaved /\ mode' \in {"Stationary", "Away"}
        /\ page' \in {"info", "provisioning", "home"} /\ sessions' \in 0..MaxTrials
        /\ pending' \in Credentials \cup {"saved"}
        /\ prov' \in {"Idle", "Waiting", "Connecting", "Connected", "Hung"}
        /\ owner' \in {"service", "prov", "none"}
    BY <2>1 DEF PolicyTypes
  <2>4. /\ factory' \in BOOLEAN /\ cloud' \in BOOLEAN /\ online' \in BOOLEAN /\ been' \in BOOLEAN
        /\ reconnect' \in BOOLEAN /\ provActive' \in BOOLEAN
    BY <2>1 DEF PolicyTypes
  <2> QED
    BY <2>1, <2>2, <2>3, <2>4, Zenon DEF PolicyTypes
<1> QED
  BY <1>3, <1>4

LEMMA FewKinds == IsFiniteSet(Kinds)
<1>1. IsFiniteSet({})
  BY FS_EmptySet
<1>2. \A S, x : IsFiniteSet(S) => IsFiniteSet(S \cup {x})
  BY FS_AddElement
<1>3. IsFiniteSet({"drop"} \cup {"late"} \cup {"stale"} \cup {"overtake"} \cup {"start"} \cup {"scan"}
                    \cup {"resubmit"})
  BY <1>1, <1>2, {} \cup {"drop"} = {"drop"}
<1> QED
  BY <1>3 DEF Kinds

LEMMA UserTypes == ASSUME PolicyTypes, mishaps' \subseteq Kinds, User PROVE PolicyTypes'
<1>1. CASE EnterStationary
  <2>1. sessions' \in 0..MaxTrials
    <3>1. Cardinality(mishaps') \in Nat
      BY FewKinds, FS_Subset, FS_CardinalityType
    <3>2. sessions \in Nat /\ sessions' = sessions + 1 /\ sessions' + Cardinality(mishaps') <= MaxTrials
      BY <1>1 DEF EnterStationary, PolicyTypes
    <3> QED
      BY <3>1, <3>2, StationaryAssumption
  <2>2. CASE ConnectsSaved(TRUE, events) \/ ConnectFallbackInternal(TRUE, events)
    BY <1>1, <2>1, <2>2, ServiceConnectsTypes DEF EnterStationary, PolicyTypes, Then, Starts, StartProvisioning
  <2>3. CASE Starts
    BY <1>1, <2>1, <2>3, StartTypes DEF EnterStationary, PolicyTypes, Then
  <2> QED
    BY <1>1, <2>2, <2>3, Enters
<1>2. CASE UserLeaves
  BY <1>2, LeaveTypes DEF UserLeaves, PolicyTypes
<1>3. CASE SwitchTransport
  BY <1>3, OrchestratorQueue, OrchestratorKinds
     DEF SwitchTransport, SwitchFails, Then, ServiceIdle, PolicyTypes, latchVars, deadlineVars
<1>4. ASSUME NEW network \in Credentials, HandOverCredentials(network) PROVE PolicyTypes'
  <2>1. events' \in Seq(OrchestratorEvents) /\ online' \in BOOLEAN
    BY <1>4, Answered, OrchestratorQueue, OrchestratorKinds DEF HandOverCredentials, PolicyTypes
  <2> QED
    BY <1>4, <2>1 DEF HandOverCredentials, PolicyTypes, policyVars, deadlineVars
<1> QED
  BY <1>1, <1>2, <1>3, <1>4 DEF User

\* The mishaps pile up until a restart.
LEMMA Grows ==
  ASSUME [Next]_vars
  PROVE  FactoryFails \/ \E kinds \in SUBSET Kinds : mishaps' = mishaps \cup kinds
<1> DEFINE Grown == \E kinds \in SUBSET Kinds : mishaps' = mishaps \cup kinds
<1>1. ASSUME UNCHANGED mishaps PROVE Grown
  <2>1. {} \in SUBSET Kinds /\ mishaps' = mishaps \cup {}
    BY <1>1
  <2> QED
    BY <2>1, Zenon
<1>2. ASSUME NEW kinds \in SUBSET Kinds, Note(kinds) PROVE Grown
  BY <1>2, Zenon DEF Note
<1>3. SUFFICES FactoryFails \/ Grown
  OBVIOUS
<1> HIDE DEF Grown
<1>4. {"drop", "late", "stale", "overtake", "start", "scan", "resubmit"} \subseteq Kinds
  BY DEF Kinds
<1>5. ASSUME NEW kinds \in SUBSET Kinds, StartProvisioning(kinds) PROVE Grown
  <2>1. kinds \cup {"start"} \in SUBSET Kinds
    BY <1>4
  <2>2. Note(kinds) \/ Note(kinds \cup {"start"})
    BY <1>5, Zenon DEF StartProvisioning
  <2> QED
    BY <1>2, <2>1, <2>2, Zenon
<1>6. ASSUME NEW fresh, NEW q, NEW kinds \in SUBSET Kinds, ConnectSavedInternal(fresh, q, kinds)
      PROVE  Grown
  <2>1. PICK status : Note(kinds \cup When("scan", fresh /\ status = "failed"))
    BY <1>6, Zenon DEF ConnectSavedInternal
  <2>2. When("scan", fresh /\ status = "failed") \in SUBSET Kinds
    BY <1>4 DEF When
  <2> DEFINE noted == When("scan", fresh /\ status = "failed")
  <2> HIDE DEF noted
  <2>3. kinds \cup noted \in SUBSET Kinds
    BY <2>2 DEF noted
  <2>4. Note(kinds \cup noted)
    BY <2>1, Zenon DEF noted
  <2> QED
    BY <1>2, <2>3, <2>4, Zenon
<1>7. CASE UNCHANGED vars
  BY <1>1, <1>7 DEF vars
<1>8. CASE Driver
  <2>1. UNCHANGED mishaps \/ Note(When("drop", HandingOver))
    BY <1>8, Zenon DEF Driver, DriverAnswers
  <2>2. When("drop", HandingOver) \in SUBSET Kinds
    BY <1>4 DEF When
  <2> QED
    BY <1>1, <1>2, <2>1, <2>2, Zenon
<1>9. CASE WifiTask
  <2> DEFINE heard == When("late", GivenUp /\ Received("gotip"))
             late == When("late", dhcpTimer /\ ~dhcpTimer' /\ Posted("gotip"))
             drop == When("drop", HandingOver /\ sta = "Connecting")
  <2>1. Note(heard) \/ Note(late \cup drop)
    BY <1>9, Zenon DEF WifiTask
  <2>2. heard \in SUBSET Kinds /\ late \in SUBSET Kinds /\ drop \in SUBSET Kinds
    BY <1>4 DEF When
  <2> HIDE DEF heard, late, drop
  <2>3. late \cup drop \in SUBSET Kinds
    BY <2>2
  <2> QED
    BY <1>2, <2>1, <2>2, <2>3, Zenon
<1>10. CASE Handler /\ ~FactoryFails
  <2>1. CASE OnUp \/ OnLinked \/ OnStopped \/ HandBack
    BY <1>1, <2>1, Zenon DEF OnUp, OnLinked, OnStopped, HandBack
  <2>2. CASE OpenProvisioning
    <3>1. {} \in SUBSET Kinds /\ StartProvisioning({})
      BY <2>2 DEF OpenProvisioning
    <3> QED
      BY <1>5, <3>1, Zenon
  <2>3. ASSUME NEW reason, OnLost(reason) PROVE Grown
    <3>1. Note(When("stale", mode = "Stationary" /\ provActive))
      BY <1>10, <2>3 DEF OnLost
    <3>2. When("stale", mode = "Stationary" /\ provActive) \in SUBSET Kinds
      BY <1>4 DEF When
    <3> QED
      BY <1>2, <3>1, <3>2, Zenon
  <2> QED
    BY <1>10, <2>1, <2>2, <2>3, Zenon DEF Handler
<1>11. CASE Timers
  <2>1. {} \in SUBSET Kinds
    OBVIOUS
  <2>2. UNCHANGED mishaps \/ \E q : ConnectSavedInternal(FALSE, q, {})
    <3>1. PICK delivered, expired, posted, due : Tick(delivered, expired, posted, due)
      BY <1>11, Zenon DEF Timers
    <3> QED
      BY <3>1, Zenon DEF Tick
  <2> QED
    BY <1>1, <1>6, <2>1, <2>2, Zenon
<1>12. CASE User
  <2> DEFINE overtaken == When("overtake", events # <<>>)
             ahead == When("overtake", Overtaken)
  <2>1. overtaken \in SUBSET Kinds /\ ahead \in SUBSET Kinds
    BY <1>4 DEF When
  <2>2. ASSUME EnterStationary
        PROVE  \/ Note(overtaken) \/ ConnectSavedInternal(TRUE, events, overtaken)
               \/ StartProvisioning(overtaken)
    BY <2>2, Zenon DEF EnterStationary
  <2>3. ASSUME UserLeaves \/ SwitchTransport PROVE Note(ahead)
    BY <2>3, Zenon DEF UserLeaves, SwitchTransport
  <2> HIDE DEF overtaken, ahead
  <2>4. CASE EnterStationary
    BY <1>2, <1>5, <1>6, <2>1, <2>2, <2>4, Zenon
  <2>5. CASE UserLeaves \/ SwitchTransport
    BY <1>2, <2>1, <2>3, <2>5, Zenon
  <2>6. ASSUME NEW network \in Credentials, HandOverCredentials(network) PROVE Grown
    <3> DEFINE busy == When("resubmit", link # "down" \/ sta # "Disconnected" \/ Posted("gotip"))
    <3>1. Note(busy)
      BY <2>6, Zenon DEF HandOverCredentials
    <3>2. busy \in SUBSET Kinds
      BY <1>4 DEF When
    <3> HIDE DEF busy
    <3> QED
      BY <1>2, <3>1, <3>2, Zenon
  <2> QED
    BY <1>12, <2>4, <2>5, <2>6, Zenon DEF User
<1> QED
  BY <1>7, <1>8, <1>9, <1>10, <1>11, <1>12 DEF Next

\* What a step that does not note a mishap has not met.
LEMMA Unnoted ==
  ASSUME NEW kind, NEW condition, NEW kinds, Note(kinds), When(kind, condition) \subseteq kinds,
         kind \notin mishaps'
  PROVE  ~condition
BY DEF Note, When

Typed == ManagerTypes /\ PolicyTypes /\ mishaps \subseteq Kinds

LEMMA TypesStep == ASSUME Typed, [Next]_vars PROVE Typed'
<1>1. ManagerTypes'
  BY OnlyMoves, MovesTypes DEF Typed, PolicyTypes
<1>2. mishaps' \subseteq Kinds
  BY Grows DEF FactoryFails, Typed
<1>3. PolicyTypes'
  <2>1. CASE UNCHANGED vars
    BY <2>1 DEF Typed, PolicyTypes, vars, managerVars, policyVars, latchVars, deadlineVars, sessionVars
  <2>2. CASE Driver
    BY <2>2 DEF Typed, PolicyTypes, Driver, DriverAnswers, Unheard, policyVars, latchVars,
                deadlineVars, sessionVars
  <2>3. CASE WifiTask
    <3>1. Hears(notice') /\ notice' \in Notices
      BY <1>1, <2>3 DEF WifiTask, ManagerTypes
    <3>2. UNCHANGED <<policyVars, window, reconnect, provActive, owner, pending>>
      BY <2>3 DEF WifiTask
    <3> QED
      BY <3>1, <3>2, HeardTypes DEF Typed, PolicyTypes, policyVars
  <2> QED
    BY <1>2, <2>1, <2>2, <2>3, HandlerTypes, TickTypes, UserTypes DEF Next, Timers, Typed
<1> QED
  BY <1>1, <1>2, <1>3 DEF Typed

LEMMA TypesInit == ASSUME Init PROVE Typed
<1>1. ManagerTypes
  BY Zero, NoEvents DEF Init, ManagerInit, ManagerTypes, Networks, Stas, Autos, Links, Notices
<1>2. PolicyTypes
  <2>1. sessions \in 0..MaxTrials
    BY StationaryAssumption DEF Init
  <2> QED
    BY <2>1, NoEvents DEF Init, ManagerInit, Asleep, PolicyTypes
<1> QED
  BY <1>1, <1>2 DEF Typed, Init, Asleep

\* Whatever fails and however events are queued, every field keeps its type and the retries
\* of an attempt stay within the budget it was started with (wifi_manager.cpp, _retry_attempt
\* and max_retry_count).
THEOREM StationaryTypes == Spec => []StationaryTypeOK
<1>1. Init => Typed
  BY TypesInit
<1>2. Typed /\ [Next]_vars => Typed'
  BY TypesStep
<1>3. Typed => StationaryTypeOK
  BY DEF Typed, ManagerTypes, PolicyTypes, StationaryTypeOK, Stas, Autos, Links, Notices
<1> QED
  BY <1>1, <1>2, <1>3, PTL DEF Spec

-----------------------------------------------------------------------------
(* The queue of driver events.                                              *)

\* Of the queue only the order of its kinds of event matters, "lost" among the others.
Has(q, kind) == \E i \in 1..Len(q) : q[i].event = kind
LostAfter(q, kind) ==
  \A i \in 1..Len(q) : q[i].event = kind => \E j \in 1..Len(q) : i < j /\ q[j].event = "lost"
LostBefore(q, kind) ==
  \A i \in 1..Len(q) : q[i].event = kind => \E j \in 1..Len(q) : j < i /\ q[j].event = "lost"
Separated(q) ==
  \A i, k \in 1..Len(q) :
    i < k /\ q[i].event = "connected" /\ q[k].event = "connected"
      => \E j \in 1..Len(q) : i < j /\ j < k /\ q[j].event = "lost"

\* Some event of the queue changes an attempt, though the first "lost" may be swallowed.
Drives(q, swallowed) ==
  \E i \in 1..Len(q) :
    \/ q[i].event \in {"connected", "gotip"}
    \/ q[i].event = "lost" /\ (swallowed => \E j \in 1..Len(q) : j < i /\ q[j].event = "lost")

LEMMA Appended ==
  ASSUME NEW q \in Seq(DriverEvents), NEW d \in DriverEvents
  PROVE  /\ Len(Append(q, d)) = Len(q) + 1 /\ Len(q) \in Nat
         /\ Append(q, d)[Len(q) + 1] = d
         /\ \A i \in 1..Len(q) : Append(q, d)[i] = q[i]
OBVIOUS

LEMMA Rest ==
  ASSUME NEW q \in Seq(DriverEvents), q # <<>>
  PROVE  /\ Len(Tail(q)) = Len(q) - 1 /\ Len(q) \in Nat \ {0}
         /\ Head(q) = q[1]
         /\ \A i \in 1..(Len(q) - 1) : Tail(q)[i] = q[i + 1]
OBVIOUS

LEMMA HasAppended ==
  ASSUME NEW q \in Seq(DriverEvents), NEW d \in DriverEvents, NEW kind,
         Has(q, kind) \/ d.event = kind
  PROVE  Has(Append(q, d), kind)
<1>1. CASE d.event = kind
  BY <1>1, Appended DEF Has
<1>2. CASE Has(q, kind)
  <2>1. PICK i \in 1..Len(q) : q[i].event = kind
    BY <1>2 DEF Has
  <2>2. i \in 1..Len(Append(q, d)) /\ Append(q, d)[i] = q[i]
    BY Appended
  <2> QED
    BY <2>1, <2>2 DEF Has
<1> QED
  BY <1>1, <1>2

LEMMA LostAfterAppended ==
  ASSUME NEW q \in Seq(DriverEvents), NEW d \in DriverEvents, NEW kind,
         (d.event = "lost" /\ kind # "lost") \/ (LostAfter(q, kind) /\ d.event # kind)
  PROVE  LostAfter(Append(q, d), kind)
<1> DEFINE a == Append(q, d)
<1>1. /\ Len(a) = Len(q) + 1 /\ Len(q) \in Nat /\ a[Len(q) + 1] = d
      /\ \A i \in 1..Len(q) : a[i] = q[i]
  BY Appended
<1> HIDE DEF a
<1>2. SUFFICES ASSUME NEW i \in 1..Len(a), a[i].event = kind
               PROVE  \E j \in 1..Len(a) : i < j /\ a[j].event = "lost"
  BY DEF LostAfter, a
<1>3. i \in 1..Len(q)
  BY <1>1, <1>2
<1>4. CASE d.event = "lost"
  <2>1. Len(q) + 1 \in 1..Len(a) /\ i < Len(q) + 1 /\ a[Len(q) + 1].event = "lost"
    BY <1>1, <1>3, <1>4
  <2> QED
    BY <2>1
<1>5. CASE LostAfter(q, kind)
  <2>1. PICK j \in 1..Len(q) : i < j /\ q[j].event = "lost"
    BY <1>1, <1>2, <1>3, <1>5 DEF LostAfter
  <2>2. j \in 1..Len(a) /\ a[j].event = "lost"
    BY <1>1, <2>1
  <2> QED
    BY <2>1, <2>2
<1> QED
  BY <1>4, <1>5

LEMMA LostBeforeAppended ==
  ASSUME NEW q \in Seq(DriverEvents), NEW d \in DriverEvents, NEW kind,
         LostBefore(q, kind), Has(q, "lost") \/ d.event # kind
  PROVE  LostBefore(Append(q, d), kind)
<1> DEFINE a == Append(q, d)
<1>1. /\ Len(a) = Len(q) + 1 /\ Len(q) \in Nat /\ a[Len(q) + 1] = d
      /\ \A i \in 1..Len(q) : a[i] = q[i]
  BY Appended
<1> HIDE DEF a
<1>2. SUFFICES ASSUME NEW i \in 1..Len(a), a[i].event = kind
               PROVE  \E j \in 1..Len(a) : j < i /\ a[j].event = "lost"
  BY DEF LostBefore, a
<1>3. PICK j \in 1..Len(q) : j < i /\ q[j].event = "lost"
  <2>1. CASE i \in 1..Len(q)
    BY <1>1, <1>2, <2>1 DEF LostBefore
  <2>2. CASE i = Len(q) + 1
    <3>1. PICK j \in 1..Len(q) : q[j].event = "lost"
      BY <1>1, <1>2, <2>2 DEF Has
    <3>2. j < i
      BY <1>1, <2>2, <3>1
    <3> QED
      BY <3>1, <3>2
  <2> QED
    BY <1>1, <2>1, <2>2
<1>4. j \in 1..Len(a) /\ a[j].event = "lost"
  BY <1>1, <1>3
<1> QED
  BY <1>3, <1>4

LEMMA SeparatedAppended ==
  ASSUME NEW q \in Seq(DriverEvents), NEW d \in DriverEvents,
         Separated(q), LostAfter(q, "connected") \/ d.event # "connected"
  PROVE  Separated(Append(q, d))
<1> DEFINE a == Append(q, d)
<1>1. /\ Len(a) = Len(q) + 1 /\ Len(q) \in Nat /\ a[Len(q) + 1] = d
      /\ \A i \in 1..Len(q) : a[i] = q[i]
  BY Appended
<1> HIDE DEF a
<1>2. SUFFICES ASSUME NEW i \in 1..Len(a), NEW k \in 1..Len(a), i < k,
                      a[i].event = "connected", a[k].event = "connected"
               PROVE  \E j \in 1..Len(a) : i < j /\ j < k /\ a[j].event = "lost"
  BY DEF Separated, a
<1>3. i \in 1..Len(q) /\ q[i].event = "connected"
  BY <1>1, <1>2
<1>4. PICK j \in 1..Len(q) : i < j /\ j < k /\ q[j].event = "lost"
  <2>1. CASE k \in 1..Len(q)
    <3>1. q[k].event = "connected"
      BY <1>1, <1>2, <2>1
    <3> QED
      BY <1>2, <1>3, <2>1, <3>1 DEF Separated
  <2>2. CASE k = Len(q) + 1
    <3>1. LostAfter(q, "connected")
      BY <1>1, <1>2, <2>2
    <3>2. PICK j \in 1..Len(q) : i < j /\ q[j].event = "lost"
      BY <1>3, <3>1 DEF LostAfter
    <3>3. j < k
      BY <1>1, <2>2, <3>2
    <3> QED
      BY <3>2, <3>3
  <2> QED
    BY <1>1, <2>1, <2>2
<1>5. j \in 1..Len(a) /\ a[j].event = "lost"
  BY <1>1, <1>4
<1> QED
  BY <1>4, <1>5

LEMMA DrivesAppended ==
  ASSUME NEW q \in Seq(DriverEvents), NEW d \in DriverEvents, NEW s \in BOOLEAN,
         \/ Drives(q, s)
         \/ d.event \in {"connected", "gotip"}
         \/ d.event = "lost" /\ (s => Has(q, "lost"))
  PROVE  Drives(Append(q, d), s)
<1> DEFINE a == Append(q, d)
<1>1. /\ Len(a) = Len(q) + 1 /\ Len(q) \in Nat /\ a[Len(q) + 1] = d
      /\ \A i \in 1..Len(q) : a[i] = q[i] /\ i \in 1..Len(a) /\ i < Len(q) + 1
      /\ Len(q) + 1 \in 1..Len(a)
  BY Appended
<1> HIDE DEF a
<1>2. SUFFICES Drives(a, s)
  BY DEF a
<1>3. CASE Drives(q, s)
  <2>1. PICK i \in 1..Len(q) :
          \/ q[i].event \in {"connected", "gotip"}
          \/ q[i].event = "lost" /\ (s => \E j \in 1..Len(q) : j < i /\ q[j].event = "lost")
    BY <1>3 DEF Drives
  <2> QED
    BY <1>1, <2>1 DEF Drives
<1>4. CASE d.event \in {"connected", "gotip"}
  BY <1>1, <1>4 DEF Drives
<1>5. CASE d.event = "lost" /\ (s => Has(q, "lost"))
  <2>1. s => \E j \in 1..Len(a) : j < Len(q) + 1 /\ a[j].event = "lost"
    BY <1>1, <1>5 DEF Has
  <2> QED
    BY <1>1, <1>5, <2>1 DEF Drives
<1> QED
  BY <1>3, <1>4, <1>5

\* What handling the first event leaves of the order.
LEMMA HasRest ==
  ASSUME NEW q \in Seq(DriverEvents), q # <<>>, NEW kind, Has(q, kind), Head(q).event # kind
  PROVE  Has(Tail(q), kind)
<1> DEFINE t == Tail(q)
<1>1. /\ Len(t) = Len(q) - 1 /\ Len(q) \in Nat \ {0} /\ Head(q) = q[1]
      /\ \A i \in 1..(Len(q) - 1) : t[i] = q[i + 1]
  BY Rest
<1> HIDE DEF t
<1>2. PICK i \in 1..Len(q) : q[i].event = kind
  BY DEF Has
<1>3. i # 1
  BY <1>1, <1>2
<1>4. i - 1 \in 1..Len(t) /\ t[i - 1] = q[i]
  BY <1>1, <1>3
<1> QED
  BY <1>2, <1>4 DEF Has, t

LEMMA LostAfterRest ==
  ASSUME NEW q \in Seq(DriverEvents), q # <<>>, NEW kind, LostAfter(q, kind)
  PROVE  /\ LostAfter(Tail(q), kind)
         /\ Head(q).event = kind => Has(Tail(q), "lost")
<1> DEFINE t == Tail(q)
<1>1. /\ Len(t) = Len(q) - 1 /\ Len(q) \in Nat \ {0} /\ Head(q) = q[1]
      /\ \A i \in 1..(Len(q) - 1) : t[i] = q[i + 1]
  BY Rest
<1> HIDE DEF t
<1>2. ASSUME NEW i \in 1..Len(q), q[i].event = kind
      PROVE  \E j \in 1..Len(t) : i < j + 1 /\ t[j].event = "lost"
  <2>1. PICK k \in 1..Len(q) : i < k /\ q[k].event = "lost"
    BY <1>2 DEF LostAfter
  <2>2. k - 1 \in 1..Len(t) /\ t[k - 1] = q[k] /\ i < (k - 1) + 1
    BY <1>1, <2>1
  <2> QED
    BY <2>1, <2>2
<1>3. LostAfter(t, kind)
  <2>1. SUFFICES ASSUME NEW i \in 1..Len(t), t[i].event = kind
                 PROVE  \E j \in 1..Len(t) : i < j /\ t[j].event = "lost"
    BY DEF LostAfter
  <2>2. i + 1 \in 1..Len(q) /\ q[i + 1].event = kind
    BY <1>1, <2>1
  <2>3. PICK j \in 1..Len(t) : i + 1 < j + 1 /\ t[j].event = "lost"
    BY <1>2, <2>2
  <2>4. i < j
    BY <1>1, <2>3
  <2> QED
    BY <2>3, <2>4
<1>4. Head(q).event = kind => Has(t, "lost")
  <2>1. 1 \in 1..Len(q)
    BY <1>1
  <2> QED
    BY <1>1, <1>2, <2>1 DEF Has
<1> QED
  BY <1>3, <1>4 DEF t

LEMMA LostBeforeRest ==
  ASSUME NEW q \in Seq(DriverEvents), q # <<>>, NEW kind, LostBefore(q, kind)
  PROVE  /\ Head(q).event # kind
         /\ Head(q).event # "lost" => LostBefore(Tail(q), kind)
<1> DEFINE t == Tail(q)
<1>1. /\ Len(t) = Len(q) - 1 /\ Len(q) \in Nat \ {0} /\ Head(q) = q[1]
      /\ \A i \in 1..(Len(q) - 1) : t[i] = q[i + 1]
  BY Rest
<1> HIDE DEF t
<1>2. Head(q).event # kind
  <2>1. 1 \in 1..Len(q) /\ \A j \in 1..Len(q) : ~(j < 1)
    BY <1>1
  <2> QED
    BY <1>1, <2>1 DEF LostBefore
<1>3. ASSUME Head(q).event # "lost" PROVE LostBefore(t, kind)
  <2>1. SUFFICES ASSUME NEW i \in 1..Len(t), t[i].event = kind
                 PROVE  \E j \in 1..Len(t) : j < i /\ t[j].event = "lost"
    BY DEF LostBefore
  <2>2. i + 1 \in 1..Len(q) /\ q[i + 1].event = kind
    BY <1>1, <2>1
  <2>3. PICK k \in 1..Len(q) : k < i + 1 /\ q[k].event = "lost"
    BY <2>2 DEF LostBefore
  <2>4. k # 1
    BY <1>1, <1>3, <2>3
  <2>5. k - 1 \in 1..Len(t) /\ t[k - 1] = q[k] /\ k - 1 < i
    BY <1>1, <2>3, <2>4
  <2> QED
    BY <2>3, <2>5
<1> QED
  BY <1>2, <1>3 DEF t

LEMMA SeparatedRest ==
  ASSUME NEW q \in Seq(DriverEvents), q # <<>>, Separated(q)
  PROVE  /\ Separated(Tail(q))
         /\ Head(q).event = "connected" => LostBefore(Tail(q), "connected")
<1> DEFINE t == Tail(q)
<1>1. /\ Len(t) = Len(q) - 1 /\ Len(q) \in Nat \ {0} /\ Head(q) = q[1]
      /\ \A i \in 1..(Len(q) - 1) : t[i] = q[i + 1]
  BY Rest
<1> HIDE DEF t
<1>2. ASSUME NEW i \in 0..Len(t), NEW k \in 1..Len(t), i < k,
             q[i + 1].event = "connected", t[k].event = "connected"
      PROVE  \E j \in 1..Len(t) : i < j /\ j < k /\ t[j].event = "lost"
  <2>1. i + 1 \in 1..Len(q) /\ k + 1 \in 1..Len(q) /\ i + 1 < k + 1 /\ q[k + 1] = t[k]
    BY <1>1, <1>2
  <2>2. PICK j \in 1..Len(q) : i + 1 < j /\ j < k + 1 /\ q[j].event = "lost"
    BY <1>2, <2>1 DEF Separated
  <2>3. j - 1 \in 1..Len(t) /\ t[j - 1] = q[j] /\ i < j - 1 /\ j - 1 < k
    BY <1>1, <2>2
  <2> QED
    BY <2>2, <2>3
<1>3. Separated(t)
  <2>1. SUFFICES ASSUME NEW i \in 1..Len(t), NEW k \in 1..Len(t), i < k,
                        t[i].event = "connected", t[k].event = "connected"
                 PROVE  \E j \in 1..Len(t) : i < j /\ j < k /\ t[j].event = "lost"
    BY DEF Separated
  <2>2. i \in 0..Len(t) /\ q[i + 1].event = "connected"
    BY <1>1, <2>1
  <2> QED
    BY <1>2, <2>1, <2>2
<1>4. ASSUME Head(q).event = "connected" PROVE LostBefore(t, "connected")
  <2>1. SUFFICES ASSUME NEW k \in 1..Len(t), t[k].event = "connected"
                 PROVE  \E j \in 1..Len(t) : j < k /\ t[j].event = "lost"
    BY DEF LostBefore
  <2>2. 0 \in 0..Len(t) /\ 0 < k /\ q[0 + 1].event = "connected"
    BY <1>1, <1>4
  <2> QED
    BY <1>2, <2>1, <2>2
<1> QED
  BY <1>3, <1>4 DEF t

LEMMA DrivesRest ==
  ASSUME NEW q \in Seq(DriverEvents), q # <<>>, NEW s \in BOOLEAN, Drives(q, s),
         Head(q).event = "scan" \/ (s /\ Head(q).event = "lost")
  PROVE  Drives(Tail(q), s /\ Head(q).event = "scan")
<1> DEFINE t == Tail(q)
           r == s /\ Head(q).event = "scan"
<1>1. /\ Len(t) = Len(q) - 1 /\ Len(q) \in Nat \ {0} /\ Head(q) = q[1]
      /\ \A i \in 1..(Len(q) - 1) : t[i] = q[i + 1]
  BY Rest
<1>2. PICK i \in 1..Len(q) :
        \/ q[i].event \in {"connected", "gotip"}
        \/ q[i].event = "lost" /\ (s => \E j \in 1..Len(q) : j < i /\ q[j].event = "lost")
  BY DEF Drives
<1> HIDE DEF t
<1>3. i # 1
  BY <1>1, <1>2
<1>4. i - 1 \in 1..Len(t) /\ t[i - 1] = q[i]
  BY <1>1, <1>3
<1>5. CASE q[i].event \in {"connected", "gotip"}
  BY <1>4, <1>5 DEF Drives, t
<1>6. CASE q[i].event = "lost" /\ (s => \E j \in 1..Len(q) : j < i /\ q[j].event = "lost")
  <2>1. ASSUME r PROVE \E j \in 1..Len(t) : j < i - 1 /\ t[j].event = "lost"
    <3>1. PICK j \in 1..Len(q) : j < i /\ q[j].event = "lost"
      BY <1>6, <2>1
    <3>2. j # 1
      BY <1>1, <2>1, <3>1
    <3>3. j - 1 \in 1..Len(t) /\ t[j - 1] = q[j] /\ j - 1 < i - 1
      BY <1>1, <3>1, <3>2
    <3> QED
      BY <3>1, <3>3
  <2>2. t[i - 1].event = "lost" /\ i - 1 \in 1..Len(t)
    BY <1>4, <1>6
  <2> HIDE DEF r
  <2>3. Drives(t, r)
    BY <2>1, <2>2 DEF Drives
  <2> QED
    BY <2>3 DEF r, t
<1> QED
  BY <1>2, <1>5, <1>6

-----------------------------------------------------------------------------
(* The manager and its driver.                                              *)

\* While the link l is not there, what it was is followed by its loss in the queue q.
Ordered(q, l) ==
  /\ Separated(q)
  /\ l \in {"down", "joining"} => LostAfter(q, "connected")
  /\ l # "up" => LostAfter(q, "gotip")

\* What the manager believes of its attempt agrees with the link, the queue and the timers.
Driven ==
  /\ sta = "Connecting" \/ auto # "off" => ~requested
  /\ sta = "Connected" => dhcpTimer /\ ~swallow
  /\ auto = "scanning" => scanning \/ Has(inbox, "scan")
  /\ Ordered(inbox, link)
  /\ sta = "Connected" \/ swallow => LostBefore(inbox, "connected")
  /\ swallow \/ (sta = "Connected" /\ link \in {"down", "joining"}) => Has(inbox, "lost")
  /\ sta = "Connecting" /\ link # "joining" /\ ~retryTimer => Drives(inbox, swallow)

LEMMA EventKinds ==
  /\ Plain("connected") \in DriverEvents /\ Plain("connected").event = "connected"
  /\ Plain("gotip") \in DriverEvents /\ Plain("gotip").event = "gotip"
  /\ Plain("scan") \in DriverEvents /\ Plain("scan").event = "scan"
  /\ \A reason \in Reasons : Lost(reason) \in DriverEvents /\ Lost(reason).event = "lost"
  /\ "soft" \in Reasons
BY DEF DriverEvents, Plain, Lost, Reasons

LEMMA OrderedLost ==
  ASSUME NEW q \in Seq(DriverEvents), NEW reason \in Reasons, NEW l, NEW m, Ordered(q, l)
  PROVE  Ordered(Append(q, Lost(reason)), m)
<1>1. Separated(Append(q, Lost(reason)))
  BY EventKinds, SeparatedAppended DEF Ordered
<1>2. \A kind \in {"connected", "gotip"} : LostAfter(Append(q, Lost(reason)), kind)
  BY EventKinds, LostAfterAppended
<1> QED
  BY <1>1, <1>2 DEF Ordered

LEMMA OrderedRest ==
  ASSUME NEW q \in Seq(DriverEvents), q # <<>>, NEW l, Ordered(q, l)
  PROVE  Ordered(Tail(q), l)
BY SeparatedRest, LostAfterRest DEF Ordered

\* A queue to which at most the announcement of a loss was added.
Follows(q, r) == r \in {q, Append(q, Lost("soft"))}

LEMMA FollowsKeeps ==
  ASSUME NEW q \in Seq(DriverEvents), NEW r, Follows(q, r)
  PROVE  /\ r \in Seq(DriverEvents)
         /\ \A kind \in {"scan", "lost"} : Has(q, kind) => Has(r, kind)
         /\ \A kind \in {"connected", "gotip"} : LostBefore(q, kind) => LostBefore(r, kind)
<1>1. CASE r = q
  BY <1>1
<1>2. CASE r = Append(q, Lost("soft"))
  BY <1>2, EventKinds, HasAppended, LostBeforeAppended, QueueTypes
<1> QED
  BY <1>1, <1>2 DEF Follows

\* What an attempt leaves: either the driver is joining, or the attempt is over.
AfterTry(q) ==
  /\ sta' \in {"Connecting", "Disconnected"}
  /\ sta' = "Connecting" => link' = "joining"
  /\ Follows(q, inbox') /\ Ordered(inbox', link')

LEMMA Joined ==
  ASSUME NEW q \in Seq(DriverEvents), NEW l, Ordered(q, l), Join(q, l) \/ Keep(q, l)
  PROVE  /\ Follows(q, inbox') /\ Ordered(inbox', link')
         /\ Join(q, l) => link' = "joining"
<1>1. CASE Join(q, l)
  <2>1. CASE l = "down"
    BY <1>1, <2>1 DEF Join, Follows, Ordered
  <2>2. CASE l # "down"
    BY <1>1, <2>2, OrderedLost, EventKinds DEF Join, Follows
  <2> QED
    BY <1>1, <2>1, <2>2 DEF Join
<1>2. CASE Keep(q, l)
  BY <1>2 DEF Keep, Follows, Join
<1> QED
  BY <1>1, <1>2

LEMMA AttemptOutcome ==
  ASSUME NEW q \in Seq(DriverEvents), NEW l, Ordered(q, l), NEW tries, Attempt(q, l, tries)
  PROVE  AfterTry(q) /\ auto' = auto
<1>1. CASE sta' = "Connecting" /\ Join(q, l)
  BY <1>1, Joined DEF AfterTry, Attempt
<1>2. CASE sta' = "Disconnected" /\ Keep(q, l)
  BY <1>2, Joined DEF AfterTry, Attempt
<1> QED
  BY <1>1, <1>2 DEF Attempt

LEMMA SweepOutcome ==
  ASSUME NEW q \in Seq(DriverEvents), NEW l, Ordered(q, l), NEW n, NEW reason,
         Sweep(n, reason, q, l)
  PROVE  AfterTry(q) /\ auto' \in {"sweeping", "off"}
<1>1. CASE sta' = "Connecting" /\ Join(q, l) /\ auto' = "sweeping"
  BY <1>1, Joined DEF AfterTry
<1>2. CASE sta' = "Disconnected" /\ Keep(q, l) /\ auto' = "off"
  BY <1>2, Joined DEF AfterTry
<1> QED
  BY <1>1, <1>2 DEF Sweep

LEMMA TryDriven ==
  ASSUME NEW q \in Seq(DriverEvents), AfterTry(q),
         sta' = "Connecting" \/ auto' # "off" => ~requested',
         auto' = "scanning" => scanning' \/ Has(q, "scan"),
         swallow' => Has(q, "lost") /\ LostBefore(q, "connected")
  PROVE  Driven'
<1>1. /\ \A kind \in {"scan", "lost"} : Has(q, kind) => Has(inbox', kind)
      /\ \A kind \in {"connected", "gotip"} : LostBefore(q, kind) => LostBefore(inbox', kind)
  BY FollowsKeeps DEF AfterTry
<1> QED
  BY <1>1 DEF AfterTry, Driven

LEMMA PostsDriven == ASSUME ManagerTypes, Driven, DriverPosts PROVE Driven'
<1>1. inbox \in Seq(DriverEvents) /\ swallow \in BOOLEAN
  BY DEF ManagerTypes
<1>2. CASE Associates
  <2> DEFINE e == Plain("connected")
  <2>1. /\ link = "joining" /\ link' = "assoc" /\ inbox' = Append(inbox, e)
        /\ UNCHANGED <<sta, auto, requested, swallow, dhcpTimer, retryTimer, scanning>>
    BY <1>2 DEF Associates, LinkStep, attemptVars, timerVars
  <2>2. e \in DriverEvents /\ e.event = "connected"
    BY EventKinds
  <2> HIDE DEF e
  <2>3. Ordered(inbox', link')
    BY <1>1, <2>1, <2>2, SeparatedAppended, LostAfterAppended DEF Driven, Ordered
  <2>4. \A kind \in {"scan", "lost"} : Has(inbox, kind) => Has(inbox', kind)
    BY <1>1, <2>1, <2>2, HasAppended
  <2>5. sta = "Connected" \/ swallow => LostBefore(inbox', "connected")
    BY <1>1, <2>1, <2>2, LostBeforeAppended DEF Driven
  <2>6. Drives(inbox', swallow)
    BY <1>1, <2>1, <2>2, DrivesAppended
  <2> QED
    BY <2>1, <2>3, <2>4, <2>5, <2>6 DEF Driven
<1>3. CASE GetsIp
  <2> DEFINE e == Plain("gotip")
  <2>1. /\ link' = "up" /\ inbox' = Append(inbox, e)
        /\ UNCHANGED <<sta, auto, requested, swallow, dhcpTimer, retryTimer, scanning>>
    BY <1>3 DEF GetsIp, LinkStep, attemptVars, timerVars
  <2>2. e \in DriverEvents /\ e.event = "gotip"
    BY EventKinds
  <2> HIDE DEF e
  <2>3. Ordered(inbox', link')
    BY <1>1, <2>1, <2>2, SeparatedAppended DEF Driven, Ordered
  <2>4. \A kind \in {"scan", "lost"} : Has(inbox, kind) => Has(inbox', kind)
    BY <1>1, <2>1, <2>2, HasAppended
  <2>5. sta = "Connected" \/ swallow => LostBefore(inbox', "connected")
    BY <1>1, <2>1, <2>2, LostBeforeAppended DEF Driven
  <2>6. Drives(inbox', swallow)
    BY <1>1, <2>1, <2>2, DrivesAppended
  <2> QED
    BY <2>1, <2>3, <2>4, <2>5, <2>6 DEF Driven
<1>4. ASSUME NEW reason \in Reasons, LinkLost(reason) PROVE Driven'
  <2> DEFINE e == Lost(reason)
  <2>1. /\ link' = "down" /\ inbox' = Append(inbox, e)
        /\ UNCHANGED <<sta, auto, requested, swallow, dhcpTimer, retryTimer, scanning>>
    BY <1>4 DEF LinkLost, LinkStep, attemptVars, timerVars
  <2>2. e \in DriverEvents /\ e.event = "lost"
    BY EventKinds
  <2>3. Ordered(inbox', link')
    BY <1>1, <2>1, OrderedLost DEF Driven
  <2> HIDE DEF e
  <2>4. /\ \A kind \in {"scan", "lost"} : Has(inbox, kind) => Has(inbox', kind)
        /\ Has(inbox', "lost")
    BY <1>1, <2>1, <2>2, HasAppended
  <2>5. sta = "Connected" \/ swallow => LostBefore(inbox', "connected")
    BY <1>1, <2>1, <2>2, LostBeforeAppended DEF Driven
  <2>6. Drives(inbox', swallow)
    BY <1>1, <2>1, <2>2, DrivesAppended DEF Driven
  <2> QED
    BY <2>1, <2>3, <2>4, <2>5, <2>6 DEF Driven
<1>5. CASE ScanEnds
  <2> DEFINE e == Plain("scan")
  <2>1. /\ link' = link /\ inbox' = Append(inbox, e)
        /\ UNCHANGED <<sta, auto, requested, swallow, dhcpTimer, retryTimer>>
    BY <1>5 DEF ScanEnds, attemptVars, timerVars
  <2>2. e \in DriverEvents /\ e.event = "scan"
    BY EventKinds
  <2> HIDE DEF e
  <2>3. Ordered(inbox', link')
    BY <1>1, <2>1, <2>2, SeparatedAppended, LostAfterAppended DEF Driven, Ordered
  <2>4. /\ Has(inbox, "lost") => Has(inbox', "lost")
        /\ Has(inbox', "scan")
    BY <1>1, <2>1, <2>2, HasAppended
  <2>5. sta = "Connected" \/ swallow => LostBefore(inbox', "connected")
    BY <1>1, <2>1, <2>2, LostBeforeAppended DEF Driven
  <2>6. Drives(inbox, swallow) => Drives(inbox', swallow)
    BY <1>1, <2>1, <2>2, DrivesAppended
  <2> QED
    BY <2>1, <2>3, <2>4, <2>5, <2>6 DEF Driven
<1> QED
  BY <1>2, <1>3, <1>4, <1>5 DEF DriverPosts

LEMMA NothingPosted == \A l : Ordered(<<>>, l)
<1>1. Len(<<>>) = 0 /\ 1..0 = {}
  OBVIOUS
<1> QED
  BY <1>1 DEF Ordered, Separated, LostAfter

LEMMA DrivenInit == ASSUME Init PROVE Driven
BY NothingPosted DEF Init, ManagerInit, Driven

LEMMA AskedDriven == ASSUME ManagerTypes, Driven, Asked PROVE Driven'
<1>1. inbox \in Seq(DriverEvents) /\ swallow \in BOOLEAN /\ Ordered(inbox, link)
  BY DEF ManagerTypes, Driven
<1>2. ASSUME NEW off \in BOOLEAN, DisconnectAnd(off) PROVE Driven'
  <2>1. Follows(inbox, inbox') /\ Ordered(inbox', link')
    <3>1. CASE inbox' = inbox /\ link' = link
      BY <1>1, <3>1 DEF Follows
    <3>2. CASE link' = "down" /\ inbox' = EchoTo(inbox) /\ link = "down"
      BY <1>1, <3>2 DEF Follows, EchoTo
    <3>3. CASE link' = "down" /\ inbox' = EchoTo(inbox) /\ link # "down"
      BY <1>1, <3>3, OrderedLost, EventKinds DEF Follows, EchoTo
    <3> QED
      BY <1>2, <3>1, <3>2, <3>3 DEF DisconnectAnd
  <2>2. sta' = "Disconnected" /\ auto' = "off" /\ swallow' = swallow
    BY <1>2 DEF DisconnectAnd, ClearAutoState
  <2>3. AfterTry(inbox)
    BY <2>1, <2>2 DEF AfterTry
  <2> QED
    BY <1>1, <2>2, <2>3, TryDriven DEF Driven
<1>3. ASSUME NEW network, NEW status, ConnectTo(network, status)
      PROVE  Driven'
  <2>1. CASE UNCHANGED <<attemptVars, timerVars, driverVars>>
    BY <2>1 DEF attemptVars, timerVars, driverVars, Driven
  <2>2. CASE /\ ~Busy /\ requested' = FALSE /\ Attempt(inbox, link, 0)
             /\ UNCHANGED <<swallow, timerVars, scanning>>
    <3>1. AfterTry(inbox) /\ auto' = "off"
      BY <1>1, <2>2, AttemptOutcome DEF Busy
    <3> QED
      BY <1>1, <2>2, <3>1, TryDriven DEF Driven
  <2> QED
    BY <1>3, <2>1, <2>2 DEF ConnectTo
<1>4. ASSUME NEW status, ConnectSaved(status) PROVE Driven'
  <2>1. CASE UNCHANGED <<attemptVars, timerVars, driverVars>>
    BY <2>1 DEF attemptVars, timerVars, driverVars, Driven
  <2>2. CASE /\ ~Busy /\ requested' = FALSE /\ Attempt(inbox, link, 0)
             /\ UNCHANGED <<swallow, timerVars, scanning>>
    <3>1. AfterTry(inbox) /\ auto' = "off"
      BY <1>1, <2>2, AttemptOutcome DEF Busy
    <3> QED
      BY <1>1, <2>2, <3>1, TryDriven DEF Driven
  <2>3. CASE /\ requested' = FALSE
             /\ auto' = "scanning" => scanning' = TRUE
             /\ UNCHANGED <<sta, link, inbox, swallow, timerVars>>
    BY <2>3 DEF Driven, timerVars
  <2>4. \/ UNCHANGED <<attemptVars, timerVars, driverVars>>
        \/ /\ ~Busy /\ requested' = FALSE /\ Attempt(inbox, link, 0)
           /\ UNCHANGED <<swallow, timerVars, scanning>>
        \/ /\ requested' = FALSE
           /\ auto' = "scanning" => scanning' = TRUE
           /\ UNCHANGED <<sta, link, inbox, swallow, timerVars>>
    BY <1>4 DEF ConnectSaved
  <2> QED
    BY <2>1, <2>2, <2>3, <2>4
<1>5. CASE Reset
  BY <1>5, NothingPosted DEF Reset, Driven
<1> QED
  BY <1>2, <1>3, <1>4, <1>5 DEF Asked

\* The event task and the timer task.
LEMMA LostDriven == ASSUME ManagerTypes, Driven, HalLost PROVE Driven'
<1> DEFINE t == Tail(inbox)
<1>1. /\ inbox \in Seq(DriverEvents) /\ swallow \in BOOLEAN /\ Ordered(inbox, link)
      /\ inbox # <<>> /\ Head(inbox).event = "lost"
  BY DEF ManagerTypes, Driven, HalLost, Received
<1>2. t \in Seq(DriverEvents) /\ Ordered(t, link)
  BY <1>1, QueueTypes, OrderedRest
<1>3. Has(inbox, "scan") => Has(t, "scan")
  BY <1>1, HasRest
<1>4. CASE swallow
  <2>1. /\ swallow' = FALSE /\ inbox' = t
        /\ UNCHANGED <<sta, auto, requested, timerVars, link, scanning>>
    BY <1>4 DEF HalLost
  <2>2. Drives(inbox, swallow) => Drives(t, FALSE)
    <3>1. (swallow /\ Head(inbox).event = "scan") = FALSE
      BY <1>1
    <3> QED
      BY <1>1, <1>4, <3>1, DrivesRest
  <2> HIDE DEF t
  <2>3. Drives(inbox, swallow) => Drives(inbox', swallow')
    BY <2>1, <2>2
  <2> QED
    BY <1>2, <1>3, <1>4, <2>1, <2>3 DEF Driven, timerVars
<1>5. CASE ~swallow /\ requested
  <2>1. /\ sta' = "Disconnected" /\ inbox' = t
        /\ UNCHANGED <<auto, link, scanning, swallow>>
    BY <1>5 DEF HalLost
  <2>2. auto = "off"
    BY <1>5 DEF Driven
  <2> HIDE DEF t
  <2> QED
    BY <1>2, <1>5, <2>1, <2>2 DEF Driven
<1>6. CASE ~swallow /\ ~requested
  <2>1. LinkFailed(Head(inbox).reason) /\ UNCHANGED <<scanning, swallow, requested>>
    BY <1>6 DEF HalLost
  <2>2. CASE auto = "sweeping" /\ Sweep(left, Head(inbox).reason, t, link)
    <3>1. AfterTry(t) /\ auto' \in {"sweeping", "off"}
      BY <1>2, <2>2, SweepOutcome
    <3> QED
      BY <1>2, <1>6, <2>1, <3>1, TryDriven
  <2>3. CASE /\ sta' = "Connecting" /\ retryTimer' = TRUE /\ Keep(t, link)
             /\ UNCHANGED auto
    <3> HIDE DEF t
    <3> QED
      BY <1>2, <1>3, <1>6, <2>1, <2>3 DEF Driven, Keep
  <2>4. CASE sta' = "Disconnected" /\ Keep(t, link) /\ UNCHANGED auto
    <3> HIDE DEF t
    <3> QED
      BY <1>2, <1>3, <1>6, <2>1, <2>4 DEF Driven, Keep
  <2> QED
    BY <2>1, <2>2, <2>3, <2>4 DEF LinkFailed
<1> QED
  BY <1>1, <1>4, <1>5, <1>6

LEMMA TaskDriven == ASSUME ManagerTypes, Driven, EventTask \/ TimerTask PROVE Driven'
<1> DEFINE t == Tail(inbox)
<1>1. inbox \in Seq(DriverEvents) /\ swallow \in BOOLEAN /\ Ordered(inbox, link)
  BY DEF ManagerTypes, Driven
<1>2. inbox # <<>> => t \in Seq(DriverEvents) /\ Ordered(t, link)
  BY <1>1, QueueTypes, OrderedRest
<1>3. CASE HalConnected
  <2>1. /\ inbox # <<>> /\ Head(inbox).event = "connected" /\ inbox' = t
        /\ sta' = "Connected" /\ dhcpTimer' = TRUE
        /\ UNCHANGED <<auto, requested, swallow, link, scanning>>
    BY <1>3 DEF HalConnected, Received
  <2>2. ~swallow
    BY <1>1, <2>1, LostBeforeRest DEF Driven
  <2>3. LostBefore(t, "connected")
    BY <1>1, <2>1, SeparatedRest DEF Ordered
  <2>4. link \in {"down", "joining"} => Has(t, "lost")
    BY <1>1, <2>1, LostAfterRest DEF Ordered
  <2>5. Has(inbox, "scan") => Has(t, "scan")
    BY <1>1, <2>1, HasRest
  <2> HIDE DEF t
  <2> QED
    BY <1>2, <2>1, <2>2, <2>3, <2>4, <2>5 DEF Driven
<1>4. CASE HalGotIp
  <2>1. /\ inbox # <<>> /\ Head(inbox).event = "gotip" /\ inbox' = t
        /\ sta' = "GotIp" /\ auto' = "off"
        /\ UNCHANGED <<requested, swallow, link, scanning>>
    BY <1>4 DEF HalGotIp, Received
  <2>2. swallow => LostBefore(t, "connected") /\ Has(t, "lost")
    BY <1>1, <2>1, LostBeforeRest, HasRest DEF Driven
  <2> HIDE DEF t
  <2> QED
    BY <1>2, <2>1, <2>2 DEF Driven
<1>5. CASE HalScanned
  <2>1. inbox # <<>> /\ Head(inbox).event = "scan" /\ UNCHANGED <<requested, swallow, timerVars, scanning>>
    BY <1>5 DEF HalScanned, Received
  <2>2. /\ Has(inbox, "lost") => Has(t, "lost")
        /\ LostBefore(inbox, "connected") => LostBefore(t, "connected")
        /\ Drives(inbox, swallow) => Drives(t, swallow)
    <3>1. (swallow /\ Head(inbox).event = "scan") = swallow
      BY <1>1, <2>1
    <3> QED
      BY <1>1, <2>1, <3>1, HasRest, LostBeforeRest, DrivesRest
  <2>3. CASE auto # "scanning"
    <3>1. inbox' = t /\ UNCHANGED <<sta, auto, link>>
      BY <1>5, <2>3 DEF HalScanned, Keep
    <3> HIDE DEF t
    <3> QED
      BY <1>2, <2>1, <2>2, <2>3, <3>1 DEF Driven, timerVars
  <2>4. CASE auto = "scanning"
    <3>1. PICK seen \in 0..saved : Sweep(seen, "missing", t, link)
      BY <1>5, <2>4 DEF HalScanned
    <3>2. AfterTry(t) /\ auto' \in {"sweeping", "off"}
      BY <1>2, <2>1, <3>1, SweepOutcome
    <3> QED
      BY <1>2, <2>1, <2>2, <2>4, <3>2, TryDriven DEF Driven
  <2> QED
    BY <2>3, <2>4
<1>6. CASE DhcpTimeout
  <2>1. CASE sta # "Connected"
    BY <1>6, <2>1 DEF DhcpTimeout, Driven
  <2>2. CASE sta = "Connected"
    <3> DEFINE q == EchoTo(inbox)
    <3>1. swallow' = TRUE /\ UNCHANGED <<requested, scanning>>
      BY <1>6, <2>2 DEF DhcpTimeout
    <3>2. /\ q \in Seq(DriverEvents) /\ Follows(inbox, q) /\ Ordered(q, "down")
          /\ Has(q, "lost")
      <4>1. CASE link = "down"
        BY <1>1, <2>2, <4>1 DEF EchoTo, Follows, Driven
      <4>2. CASE link # "down"
        BY <1>1, <4>2, OrderedLost, EventKinds, HasAppended, EchoTypes DEF EchoTo, Follows
      <4> QED
        BY <4>1, <4>2
    <3>3. LostBefore(q, "connected") /\ (Has(inbox, "scan") => Has(q, "scan"))
      BY <1>1, <2>2, <3>2, FollowsKeeps DEF Driven
    <3>4. AfterTry(q) /\ auto' \in {"sweeping", "off", auto} /\ (auto' # "off" => auto # "off")
      <4>1. CASE auto = "sweeping"
        <5>1. Sweep(left, "hard", q, "down")
          BY <1>6, <2>2, <4>1 DEF DhcpTimeout
        <5> QED
          BY <3>2, <4>1, <5>1, SweepOutcome
      <4>2. CASE auto # "sweeping"
        <5>1. sta' = "Disconnected" /\ Keep(q, "down") /\ auto' = auto
          BY <1>6, <2>2, <4>2 DEF DhcpTimeout
        <5> QED
          BY <3>2, <5>1 DEF AfterTry, Keep, Follows
      <4> QED
        BY <4>1, <4>2
    <3> HIDE DEF q
    <3>5. sta' = "Connecting" => auto # "off"
      BY <1>6, <2>2 DEF DhcpTimeout
    <3>6. auto' = "scanning" => auto = "scanning"
      BY <3>4
    <3> QED
      BY <3>1, <3>2, <3>3, <3>4, <3>5, <3>6, TryDriven DEF Driven
  <2> QED
    BY <2>1, <2>2
<1>7. CASE RetryDue
  <2>1. UNCHANGED <<requested, swallow, dhcpTimer, scanning>>
    BY <1>7 DEF RetryDue
  <2>2. CASE requested \/ sta # "Connecting"
    BY <1>7, <2>2 DEF RetryDue, Driven
  <2>3. CASE ~requested /\ sta = "Connecting"
    <3>1. Sweep(left + 1, "soft", inbox, link) \/ Attempt(inbox, link, retry)
      BY <1>7, <2>3 DEF RetryDue
    <3>2. AfterTry(inbox) /\ auto' \in {"sweeping", "off", auto}
      BY <1>1, <3>1, SweepOutcome, AttemptOutcome
    <3> QED
      BY <1>1, <2>1, <2>3, <3>2, TryDriven DEF Driven
  <2> QED
    BY <2>2, <2>3
<1> QED
  BY <1>3, <1>4, <1>5, <1>6, <1>7, LostDriven DEF EventTask, TimerTask

LEMMA DrivenStep == ASSUME Typed, Driven, [Next]_vars PROVE Driven'
<1>1. CASE Idles
  BY <1>1 DEF Idles, attemptVars, timerVars, driverVars, Driven
<1> QED
  BY <1>1, OnlyMoves, Tasks, AskedDriven, PostsDriven, TaskDriven DEF Typed, Moves

\* connect() answers AlreadyInProgress while an attempt is under way, so an attempt that
\* nothing ends would keep the device offline.  Whatever fails and in whatever order callers,
\* driver and timers meet, the driver, an event it has posted, the retry timer or the DHCP
\* watchdog still drives the attempt the manager believes in (wifi_manager.cpp, connect()).
THEOREM AttemptsDriven == Spec => []AttemptDriven
<1>1. Init => Typed /\ Driven
  BY TypesInit, DrivenInit
<1>2. Typed /\ Driven /\ [Next]_vars => Typed' /\ Driven'
  BY TypesStep, DrivenStep
<1>3. Typed /\ Driven => AttemptDriven
  <2>1. ASSUME Typed, inbox = <<>> PROVE ~Drives(inbox, swallow) /\ ~Has(inbox, "scan")
    <3>1. Len(<<>>) = 0 /\ 1..0 = {}
      OBVIOUS
    <3> QED
      BY <2>1, <3>1 DEF Drives, Has
  <2>2. ASSUME Typed, Has(inbox, "scan") PROVE Posted("scan")
    <3>1. DOMAIN inbox = 1..Len(inbox)
      BY <2>2 DEF Typed, ManagerTypes
    <3> QED
      BY <2>2, <3>1 DEF Has, Posted
  <2> QED
    BY <2>1, <2>2 DEF Driven, AttemptDriven
<1> QED
  BY <1>1, <1>2, <1>3, PTL DEF Spec

-----------------------------------------------------------------------------
(* The policy: what the orchestrator still has to handle, and what it shows. *)

Among(q, S) == \E i \in 1..Len(q) : q[i] \in S

LEMMA AmongAppended ==
  ASSUME NEW q \in Seq(OrchestratorEvents), NEW e \in OrchestratorEvents, NEW S
  PROVE  Among(Append(q, e), S) <=> Among(q, S) \/ e \in S
<1> DEFINE a == Append(q, e)
<1>1. /\ Len(a) = Len(q) + 1 /\ Len(q) \in Nat /\ a[Len(q) + 1] = e
      /\ \A i \in 1..Len(q) : a[i] = q[i]
  OBVIOUS
<1> HIDE DEF a
<1>2. ASSUME Among(q, S) \/ e \in S PROVE Among(a, S)
  BY <1>1, <1>2 DEF Among
<1>3. ASSUME Among(a, S) PROVE Among(q, S) \/ e \in S
  <2>1. PICK i \in 1..Len(a) : a[i] \in S
    BY <1>3 DEF Among
  <2>2. i \in 1..Len(q) \/ i = Len(q) + 1
    BY <1>1
  <2> QED
    BY <1>1, <2>1, <2>2 DEF Among
<1> QED
  BY <1>2, <1>3 DEF a

LEMMA KindAppended ==
  ASSUME PolicyTypes, NEW e \in OrchestratorEvents
  PROVE  /\ Among(Append(events, e), {"linked"}) <=> Among(events, {"linked"}) \/ e = "linked"
         /\ Among(Append(events, e), {"up"}) <=> Among(events, {"up"}) \/ e = "up"
         /\ Among(Append(events, e), {"stopped"}) <=> Among(events, {"stopped"}) \/ e = "stopped"
         /\ Among(Append(events, e), Reasons) <=> Among(events, Reasons) \/ e \in Reasons
<1>1. events \in Seq(OrchestratorEvents)
  BY DEF PolicyTypes
<1>2. \A S : Among(Append(events, e), S) <=> Among(events, S) \/ e \in S
  BY <1>1, AmongAppended
<1> QED
  BY <1>2

LEMMA AmongRest ==
  ASSUME NEW q \in Seq(OrchestratorEvents), q # <<>>, NEW S
  PROVE  Among(q, S) <=> Head(q) \in S \/ Among(Tail(q), S)
<1> DEFINE t == Tail(q)
<1>1. /\ Len(t) = Len(q) - 1 /\ Len(q) \in Nat \ {0} /\ Head(q) = q[1]
      /\ \A i \in 1..(Len(q) - 1) : t[i] = q[i + 1]
  OBVIOUS
<1> HIDE DEF t
<1>2. ASSUME Among(q, S) PROVE Head(q) \in S \/ Among(t, S)
  <2>1. PICK i \in 1..Len(q) : q[i] \in S
    BY <1>2 DEF Among
  <2>2. i # 1 => i - 1 \in 1..Len(t) /\ t[i - 1] = q[i]
    BY <1>1
  <2> QED
    BY <1>1, <2>1, <2>2 DEF Among
<1>3. ASSUME Head(q) \in S \/ Among(t, S) PROVE Among(q, S)
  <2>1. CASE Head(q) \in S
    <3>1. 1 \in 1..Len(q)
      BY <1>1
    <3> QED
      BY <1>1, <2>1, <3>1 DEF Among
  <2>2. CASE Among(t, S)
    <3>1. PICK i \in 1..Len(t) : t[i] \in S
      BY <2>2 DEF Among
    <3>2. i + 1 \in 1..Len(q) /\ q[i + 1] = t[i]
      BY <1>1
    <3> QED
      BY <3>1, <3>2 DEF Among
  <2> QED
    BY <1>3, <2>1, <2>2
<1> QED
  BY <1>2, <1>3 DEF t

LEMMA AmongNothing == \A S : ~Among(<<>>, S)
<1>1. Len(<<>>) = 0 /\ 1..0 = {}
  OBVIOUS
<1> QED
  BY <1>1 DEF Among

LEMMA ToldAmong == ASSUME PolicyTypes, NEW S PROVE Told(S) <=> Among(events, S)
<1>1. DOMAIN events = 1..Len(events)
  BY DEF PolicyTypes
<1> QED
  BY <1>1 DEF Told, Among

LEMMA EventNames ==
  /\ \A reason \in Reasons : reason \notin {"up", "linked", "stopped"}
  /\ {"soft", "missing", "hard"} = Reasons
BY DEF Reasons

\* A driver's event or a timer of the manager, for the policy.
LEMMA Heard ==
  ASSUME Typed, WifiTask
  PROVE  /\ UNCHANGED <<mode, factory, page, cloud, step, sessions, window, reconnect, provActive,
                        owner, pending>>
         /\ \/ /\ owner = "service" /\ HalGotIp /\ been' = TRUE
               /\ events' = Append(events, "up") /\ UNCHANGED <<retained, prov>>
            \/ /\ owner = "service"
               /\ \E reason \in Reasons : notice' = reason /\ events' = Append(events, reason)
               /\ UNCHANGED <<been, retained, prov>>
            \/ /\ owner = "prov" /\ prov = "Connecting" /\ HalGotIp
               /\ prov' = "Connected" /\ been' = TRUE
               /\ \/ events' = Append(events, "linked") /\ UNCHANGED retained
                  \/ retained' = TRUE /\ UNCHANGED events
            \/ /\ owner = "service" => notice' = "none"
               /\ UNCHANGED <<been, retained, events>>
               /\ prov' = prov \/ (prov = "Connecting" /\ prov' = "Waiting" /\ owner = "prov" /\ notice' \in Reasons)
<1>1. UNCHANGED <<mode, factory, page, cloud, step, sessions, window, reconnect, provActive,
                  owner, pending>>
  BY DEF WifiTask, policyVars
<1>2. Hears(notice') /\ notice' \in Reasons \cup {"none", "ip"} /\ (notice' = "ip" => HalGotIp)
  BY Reported DEF WifiTask, Typed
<1>3. \A reason \in Reasons : reason \notin {"ip", "user", "none"}
  BY DEF Reasons
<1>4. CASE notice' # "none" /\ owner = "service"
  <2>1. ServiceHears(notice')
    BY <1>2, <1>4 DEF Hears
  <2> QED
    BY <1>1, <1>2, <1>3, <1>4, <2>1 DEF ServiceHears
<1>5. CASE notice' # "none" /\ owner = "prov"
  <2>1. ProvisioningHears(notice')
    BY <1>2, <1>5 DEF Hears
  <2> QED
    BY <1>1, <1>2, <1>3, <1>5, <2>1 DEF ProvisioningHears, ProvisioningLinked, latchVars
<1>6. CASE notice' = "none" \/ owner \notin {"service", "prov"}
  <2>1. UNCHANGED <<been, events, retained, prov>>
    BY <1>2, <1>6 DEF Hears, latchVars
  <2> QED
    BY <1>1, <1>6, <2>1
<1> QED
  BY <1>4, <1>5, <1>6

\* tick(), for the policy.
LEMMA Ticked ==
  ASSUME PolicyTypes, NEW delivered \in BOOLEAN, NEW expired \in BOOLEAN, NEW posted \in BOOLEAN,
         NEW due \in BOOLEAN, Tick(delivered, expired, posted, due)
  PROVE  /\ step \in {"receive", "timers"} /\ step' = "receive"
         /\ UNCHANGED <<mode, factory, page, cloud, provActive, prov, been>>
         /\ delivered => retained
         /\ retained' = (retained /\ ~delivered)
         /\ delivered => Among(events', {"linked"})
         /\ \A S : Among(events, S) => Among(events', S)
         /\ Among(events', {"linked"}) => Among(events, {"linked"}) \/ delivered
         /\ Among(events', {"up"}) => Among(events, {"up"})
         /\ \/ due /\ reconnect /\ reconnect' = FALSE /\ owner' = "service"
            \/ ~due /\ ServiceIdle /\ UNCHANGED <<reconnect, owner>>
<1> DEFINE told == IF delivered THEN Append(events, "linked") ELSE events
           q == IF expired /\ posted THEN Append(told, "missing") ELSE told
<1>1. events \in Seq(OrchestratorEvents) /\ been \in BOOLEAN
  BY DEF PolicyTypes
<1>2. /\ told \in Seq(OrchestratorEvents)
      /\ \A S : Among(events, S) => Among(told, S)
      /\ delivered => Among(told, {"linked"})
      /\ Among(told, {"linked"}) => Among(events, {"linked"}) \/ delivered
      /\ Among(told, {"up"}) => Among(events, {"up"})
  BY <1>1, AmongAppended, OrchestratorQueue, OrchestratorKinds
<1>3. /\ q \in Seq(OrchestratorEvents)
      /\ \A S : Among(events, S) => Among(q, S)
      /\ delivered => Among(q, {"linked"})
      /\ Among(q, {"linked"}) => Among(events, {"linked"}) \/ delivered
      /\ Among(q, {"up"}) => Among(events, {"up"})
  <2> HIDE DEF told
  <2> QED
    BY <1>2, AmongAppended, OrchestratorQueue, OrchestratorKinds
<1>4. /\ step \in {"receive", "timers"} /\ step' = "receive"
      /\ UNCHANGED <<mode, factory, page, cloud, provActive, prov>>
      /\ delivered => retained
      /\ retained' = (retained /\ ~delivered)
  BY DEF Tick, Then
<1>5. CASE due
  <2>1. /\ reconnect /\ reconnect' = FALSE
        /\ ConnectsSaved(FALSE, q) \/ ConnectFallbackInternal(FALSE, q)
    BY <1>5, DueConnects DEF Tick
  <2> HIDE DEF q
  <2>2. /\ owner' = "service" /\ been' = (been /\ ~FALSE)
        /\ \E e \in {"missing", "soft"} : events' \in {q, Append(q, e)}
    BY <1>3, <2>1, ServiceConnects
  <2>3. PICK e \in {"missing", "soft"} : events' \in {q, Append(q, e)}
    BY <2>2
  <2>4. e \in OrchestratorEvents /\ e \notin {"linked", "up"}
    BY <2>3, OrchestratorKinds
  <2>5. \A S : Among(Append(q, e), S) <=> Among(q, S) \/ e \in S
    BY <1>3, <2>4, AmongAppended
  <2>6. /\ \A S : Among(q, S) => Among(events', S)
        /\ \A S : Among(events', S) => Among(q, S) \/ e \in S
    BY <2>3, <2>5
  <2>7. been' = been
    BY <1>1, <2>2
  <2> QED
    BY <1>3, <1>4, <1>5, <2>1, <2>2, <2>4, <2>6, <2>7
<1>6. CASE ~due
  <2>1. events' = q /\ ServiceIdle /\ UNCHANGED <<reconnect, latchVars, owner>>
    BY <1>6 DEF Tick
  <2> HIDE DEF q
  <2> QED
    BY <1>3, <1>4, <1>6, <2>1 DEF latchVars
<1> QED
  BY <1>5, <1>6

\* Leaving Stationary and entering it, for the policy.
LEMMA Left ==
  ASSUME NEW q \in Seq(OrchestratorEvents), LeaveStationary(q)
  PROVE  /\ mode' = "Away" /\ page' = "home" /\ cloud' = FALSE /\ step' = "timers"
         /\ retained' = FALSE /\ reconnect' = FALSE /\ been' = FALSE
         /\ provActive' = FALSE /\ prov' = "Idle" /\ owner' = "none"
         /\ ~Among(q, {"linked"}) => ~Among(events', {"linked"})
<1>1. events' = q \/ events' = Append(q, "stopped")
  BY DEF LeaveStationary, Shutdown
<1>2. Among(Append(q, "stopped"), {"linked"}) => Among(q, {"linked"})
  BY AmongAppended, OrchestratorKinds
<1>3. ~Among(q, {"linked"}) => ~Among(events', {"linked"})
  BY <1>1, <1>2
<1> QED
  BY <1>3 DEF LeaveStationary, Shutdown, Then

LEMMA Entered ==
  ASSUME PolicyTypes, EnterStationary
  PROVE  /\ mode = "Away" /\ mode' = "Stationary" /\ step = "receive" /\ step' = "timers"
         /\ cloud' = cloud
         /\ "overtake" \notin mishaps' => ~Among(events', {"linked"}) /\ ~Among(events', {"up"})
         /\ \/ /\ page' = "info" /\ owner' = "service" /\ been' = FALSE
               /\ UNCHANGED <<reconnect, provActive, retained, prov>>
            \/ page' = "provisioning" /\ Starts
<1> DEFINE overtaken == When("overtake", events # <<>>)
<1>1. /\ events \in Seq(OrchestratorEvents)
      /\ "overtake" \notin mishaps' => events = <<>>
  <2>1. PICK kinds : Note(kinds) /\ overtaken \subseteq kinds
    <3>1. \/ Note(overtaken) \/ ConnectSavedInternal(TRUE, events, overtaken)
          \/ StartProvisioning(overtaken)
      BY Zenon DEF EnterStationary
    <3> HIDE DEF overtaken
    <3>2. ASSUME ConnectSavedInternal(TRUE, events, overtaken)
          PROVE  \E kinds : Note(kinds) /\ overtaken \subseteq kinds
      <4>1. PICK status : Note(overtaken \cup When("scan", TRUE /\ status = "failed"))
        BY <3>2 DEF ConnectSavedInternal
      <4>2. overtaken \subseteq overtaken \cup When("scan", TRUE /\ status = "failed")
        OBVIOUS
      <4> QED
        BY <4>1, <4>2
    <3>3. ASSUME StartProvisioning(overtaken)
          PROVE  \E kinds : Note(kinds) /\ overtaken \subseteq kinds
      <4>1. Note(overtaken) \/ Note(overtaken \cup {"start"})
        BY <3>3 DEF StartProvisioning
      <4> QED
        BY <4>1
    <3> QED
      BY <3>1, <3>2, <3>3
  <2> QED
    BY <2>1, Unnoted DEF PolicyTypes
<1> HIDE DEF overtaken
<1>2. CASE /\ page' = "info" /\ UNCHANGED <<reconnect, provActive, retained, prov>>
           /\ ConnectsSaved(TRUE, events) \/ ConnectFallbackInternal(TRUE, events)
  <2>1. /\ owner' = "service" /\ been' = (been /\ ~TRUE)
        /\ \E e \in {"missing", "soft"} : events' \in {events, Append(events, e)}
    BY <1>1, <1>2, ServiceConnects
  <2>2. PICK e \in {"missing", "soft"} : events' \in {events, Append(events, e)}
    BY <2>1
  <2>3. e \in OrchestratorEvents /\ e \notin {"linked", "up"}
    BY <2>2, OrchestratorKinds
  <2>4. "overtake" \notin mishaps' => ~Among(events', {"linked"}) /\ ~Among(events', {"up"})
    <3>1. \A S : Among(Append(events, e), S) <=> Among(events, S) \/ e \in S
      BY <1>1, <2>3, AmongAppended
    <3> QED
      BY <1>1, <2>2, <2>3, <3>1, AmongNothing
  <2>5. been' = FALSE
    BY <2>1
  <2> QED
    BY <1>2, <2>1, <2>4, <2>5 DEF EnterStationary, Then
<1>3. CASE page' = "provisioning" /\ Starts
  <2>1. "overtake" \notin mishaps' => events' = <<>>
    BY <1>1, <1>3 DEF Starts, StartProvisioning
  <2> QED
    BY <1>3, <2>1, AmongNothing DEF EnterStationary, Then
<1> QED
  BY <1>2, <1>3 DEF EnterStationary, Starts, ConnectsSaved

-----------------------------------------------------------------------------
(* The cloud client.                                                        *)

\* A success of provisioning that the orchestrator has not finished handling.
Ahead == step = "linked" \/ retained \/ Among(events, {"linked"})

CloudInv ==
  /\ owner = "prov" \/ page # "home" \/ step = "failing" \/ cloud => mode = "Stationary"
  /\ Ahead => been /\ mode = "Stationary"

LEMMA CloudInit == ASSUME Init PROVE CloudInv
BY AmongNothing DEF Init, Asleep, CloudInv, Ahead

LEMMA CloudHandler == ASSUME Typed, CloudInv, Handler PROVE CloudInv'
<1>1. events \in Seq(OrchestratorEvents) /\ PolicyTypes
  BY DEF Typed, PolicyTypes
<1>2. \A S : events # <<>> => (Among(events, S) <=> Head(events) \in S \/ Among(Tail(events), S))
  BY <1>1, AmongRest
<1>3. events # <<>> => Tail(events) \in Seq(OrchestratorEvents)
  BY <1>1
<1>4. CASE OnUp
  BY <1>2, <1>4 DEF OnUp, Receive, Then, HeedsUp, CloudInv, Ahead, latchVars, sessionVars
<1>5. CASE OnLinked
  BY <1>2, <1>5 DEF OnLinked, Receive, Then, CloudInv, Ahead, latchVars, sessionVars
<1>6. CASE OnStopped
  <2>1. CASE LeaveStationary(Tail(events)) /\ ~been
    BY <1>2, <1>3, <1>6, <2>1, Left DEF OnStopped, Receive, CloudInv, Ahead
  <2>2. CASE ~(LeaveStationary(Tail(events)) /\ ~been)
    BY <1>2, <1>6, <2>2 DEF OnStopped, Receive, Then, CloudInv, Ahead, latchVars, sessionVars
  <2> QED
    BY <2>1, <2>2
<1>7. CASE OpenProvisioning
  BY <1>7 DEF OpenProvisioning, Starts, StartProvisioning, Then, CloudInv, Ahead
<1>8. CASE HandBack
  BY <1>8 DEF HandBack, Then, CloudInv, Ahead, latchVars
<1>9. ASSUME NEW reason \in Reasons, OnLost(reason) PROVE CloudInv'
  <2>1. CASE FactoryFails
    BY <2>1, AmongNothing DEF FactoryFails, Then, CloudInv, Ahead
  <2>2. CASE ~FactoryFails
    BY <1>2, <1>9, <2>2
       DEF OnLost, Receive, RuntimeLost, BringUpLost, Then, CloudInv, Ahead, latchVars, sessionVars
  <2> QED
    BY <2>1, <2>2
<1> QED
  BY <1>4, <1>5, <1>6, <1>7, <1>8, <1>9 DEF Handler

LEMMA CloudUser == ASSUME Typed, CloudInv, User, "overtake" \notin mishaps' PROVE CloudInv'
<1>1. events \in Seq(OrchestratorEvents) /\ PolicyTypes
  BY DEF Typed, PolicyTypes
<1>2. CASE EnterStationary
  <2>1. /\ mode = "Away" /\ mode' = "Stationary" /\ step' = "timers" /\ ~Among(events', {"linked"})
        /\ retained' = retained \/ retained' = FALSE
    BY <1>1, <1>2, Entered DEF Starts, StartProvisioning
  <2>2. ~retained
    BY <2>1 DEF CloudInv, Ahead
  <2> QED
    BY <2>1, <2>2 DEF CloudInv, Ahead
<1>3. CASE UserLeaves
  <2>1. ~Ahead
    <3>1. ~retained /\ ~Told({"linked"})
      BY <1>3, Unnoted DEF UserLeaves, Overtaken
    <3> QED
      BY <1>1, <1>3, <3>1, ToldAmong DEF UserLeaves, Ahead
  <2> QED
    BY <1>1, <1>3, <2>1, Left DEF UserLeaves, CloudInv, Ahead
<1>4. CASE SwitchTransport
  <2>1. "stopped" \in OrchestratorEvents /\ "stopped" # "linked"
    BY OrchestratorKinds
  <2>2. events' \in {events, Append(events, "stopped")}
    BY <1>4 DEF SwitchTransport, SwitchFails
  <2>3. Among(events', {"linked"}) => Among(events, {"linked"})
    BY <1>1, <2>1, <2>2, KindAppended
  <2> QED
    BY <1>4, <2>3 DEF SwitchTransport, Then, CloudInv, Ahead, latchVars
<1>5. ASSUME NEW network \in Credentials, HandOverCredentials(network) PROVE CloudInv'
  <2>1. Among(events', {"linked"}) => Among(events, {"linked"})
    <3>1. notice' \in {"none", "soft"}
      BY <1>5, Answered DEF HandOverCredentials
    <3>2. events' = events \/ events' = Append(events, "soft")
      BY <1>5, <3>1 DEF HandOverCredentials
    <3>3. "soft" \in OrchestratorEvents /\ "soft" # "linked"
      BY OrchestratorKinds
    <3> QED
      BY <1>1, <3>2, <3>3, KindAppended
  <2> QED
    BY <1>5, <2>1 DEF HandOverCredentials, policyVars, CloudInv, Ahead
<1> QED
  BY <1>2, <1>3, <1>4, <1>5 DEF User

LEMMA CloudStep ==
  ASSUME Typed, CloudInv, [Next]_vars, "overtake" \notin mishaps' PROVE CloudInv'
<1>1. CASE UNCHANGED vars
  BY <1>1 DEF vars, policyVars, latchVars, sessionVars, CloudInv, Ahead
<1>2. CASE Driver
  BY <1>2 DEF Driver, DriverAnswers, Unheard, policyVars, latchVars, sessionVars, CloudInv, Ahead
<1>3. CASE WifiTask
  <2>1. /\ \A reason \in Reasons : ~(reason = "linked") /\ reason \in OrchestratorEvents
        /\ "up" \in OrchestratorEvents /\ "up" # "linked"
    BY OrchestratorKinds, EventNames
  <2>2. \A e \in OrchestratorEvents :
          Among(Append(events, e), {"linked"}) => Among(events, {"linked"}) \/ e = "linked"
    BY KindAppended DEF Typed
  <2>3. UNCHANGED <<mode, page, cloud, step, owner>>
    BY <1>3, Heard
  <2>4. CASE owner = "prov" /\ been' = TRUE
    BY <2>3, <2>4 DEF CloudInv, Ahead
  <2>5. CASE /\ been' = been \/ been' = TRUE
             /\ retained' = retained
             /\ Among(events', {"linked"}) => Among(events, {"linked"})
    BY <2>3, <2>5 DEF CloudInv, Ahead
  <2> QED
    BY <1>3, <2>1, <2>2, <2>4, <2>5, Heard
<1>4. CASE Handler
  BY <1>4, CloudHandler
<1>5. CASE Timers
  <2>1. PICK delivered \in BOOLEAN, expired \in BOOLEAN, posted \in BOOLEAN, due \in BOOLEAN :
          Tick(delivered, expired, posted, due)
    BY <1>5 DEF Timers
  <2> QED
    BY <2>1, Ticked DEF Typed, CloudInv, Ahead
<1>6. CASE User
  BY <1>6, CloudUser
<1> QED
  BY <1>1, <1>2, <1>3, <1>4, <1>5, <1>6 DEF Next

LEMMA CloudRestarts == ASSUME FactoryFails PROVE CloudInv'
BY AmongNothing DEF FactoryFails, Then, CloudInv, Ahead

\* The cloud client is armed in Stationary only: no address that was queued before the user
\* left, and no success of a session that has ended, arms it in Portable.  One thing does: an
\* input that is handled ahead of a success of provisioning, which the handler of that success
\* acts upon in whatever mode it is met (go_orchestrator.cpp, on_wifi_connected() and the
\* Connected event of provisioning).
THEOREM CloudInStationary == Spec => []CloudStationaryOnly
<1> DEFINE CloudUnlessOvertaken == "overtake" \notin mishaps => CloudInv
<1>1. Init => Typed /\ CloudUnlessOvertaken
  BY TypesInit, CloudInit
<1>2. Typed /\ CloudUnlessOvertaken /\ [Next]_vars => Typed' /\ CloudUnlessOvertaken'
  BY TypesStep, CloudStep, CloudRestarts, Grows
<1>3. CloudUnlessOvertaken => CloudStationaryOnly
  BY DEF CloudInv, CloudStationaryOnly, Spared
<1> QED
  BY <1>1, <1>2, <1>3, PTL DEF Spec

-----------------------------------------------------------------------------
(* The session.                                                             *)

\* A session has started, ended and been heard of as the orchestrator expects.
Calm == \A kind \in {"start", "late", "stale", "overtake"} : kind \notin mishaps

LEMMA SparedCalm == Calm <=> Spared(CalmKinds)
BY DEF Calm, Spared, CalmKinds

\* The radio is off and nothing of it is still to be handled.
Dead == inbox = <<>> /\ link = "down" /\ ~scanning /\ ~retryTimer /\ ~dhcpTimer

\* What the orchestrator shows, who holds the callbacks, and the latches agree.
Session ==
  /\ provActive <=> prov # "Idle"
  /\ mode = "Away" => ~provActive /\ ~been /\ ~reconnect /\ (owner = "service" => Dead)
  /\ page = "info" => owner = "service"
  /\ provActive => page = "provisioning" /\ ~reconnect
  /\ provActive <=> owner = "prov"
  /\ been /\ provActive => Ahead
  /\ step = "failing" => ~been /\ ~provActive /\ (page = "info" \/ owner = "none")
  /\ mode = "Stationary" /\ owner = "none" => ~been /\ Among(events, {"stopped"})
  /\ page = "provisioning" => provActive \/ owner = "none"
  /\ reconnect => been
  /\ mode = "Stationary" /\ page = "home" => been
  /\ mode = "Stationary" /\ Among(events, {"up"}) => been

LEMMA SessionInit == ASSUME Init PROVE Session
BY AmongNothing DEF Init, ManagerInit, Asleep, Session, Dead

LEMMA DeadSilent == ASSUME Dead PROVE ~Driver /\ ~WifiTask
<1>1. ~Driver
  BY DEF Dead, Driver, DriverAnswers, LinkSettles, Associates, GetsIp, LinkLost, LinkStep, ScanEnds
<1>2. ~WifiTask
  BY DEF Dead, WifiTask, EventTask, TimerTask, HalConnected, HalGotIp, HalLost, HalScanned,
         Received, DhcpTimeout, RetryDue
<1> QED
  BY <1>1, <1>2

LEMMA Started ==
  ASSUME Starts, prov = "Idle", Calm'
  PROVE  /\ prov' = "Waiting" /\ owner' = "prov" /\ provActive' = TRUE
         /\ retained' = FALSE /\ reconnect' = FALSE /\ been' = been /\ events' = events
BY DEF Starts, StartProvisioning, Note, Calm

LEMMA SessionDriver == ASSUME Session, Driver, Typed PROVE Session'
<1>1. ~Dead
  BY DeadSilent
<1>2. UNCHANGED <<mode, page, cloud, step, events, been, reconnect, provActive, retained, owner, prov>>
  BY DEF Driver, DriverAnswers, Unheard, policyVars, latchVars, deadlineVars, sessionVars
<1> QED
  BY <1>1, <1>2 DEF Session, Ahead, Typed, PolicyTypes

\* An address is heard of from the event task.
LEMMA NotTimed == ASSUME ManagerTypes, HalGotIp PROVE ~TimerTask
<1>1. SUFFICES ASSUME TimerTask PROVE FALSE
  OBVIOUS
<1>2. notice' = "ip"
  BY DEF HalGotIp
<1>3. ASSUME NEW n, NEW reason \in Reasons, NEW q, NEW l, Sweep(n, reason, q, l)
      PROVE  notice' # "ip"
  BY <1>3 DEF Sweep, Reasons
<1> QED
  BY <1>1, <1>2, <1>3 DEF TimerTask, DhcpTimeout, RetryDue, Attempt, Quiet, Reasons

LEMMA SessionWifi == ASSUME Session, CloudInv, Typed, Calm', WifiTask PROVE Session'
<1>1. ~Dead
  BY DeadSilent
<1>2. UNCHANGED <<mode, page, cloud, step, reconnect, provActive, owner>>
  BY Heard
<1>3. \A e \in OrchestratorEvents :
        /\ Among(Append(events, e), {"linked"}) <=> Among(events, {"linked"}) \/ e = "linked"
        /\ Among(Append(events, e), {"up"}) <=> Among(events, {"up"}) \/ e = "up"
        /\ Among(Append(events, e), {"stopped"}) <=> Among(events, {"stopped"}) \/ e = "stopped"
  BY KindAppended DEF Typed
<1>4. mode \in {"Stationary", "Away"} /\ been \in BOOLEAN
  BY DEF Typed, PolicyTypes
<1>5. CASE /\ owner = "service" /\ HalGotIp /\ been' = TRUE
           /\ events' = Append(events, "up") /\ UNCHANGED <<retained, prov>>
  <2>1. step # "failing"
    <3> DEFINE condition == GivenUp /\ Received("gotip")
    <3>0. Note(When("late", condition))
      <4>1. ~TimerTask
        BY <1>5, NotTimed DEF Typed
      <4> QED
        BY <4>1, Zenon DEF WifiTask
    <3>1. SUFFICES ASSUME step = "failing" PROVE FALSE
      OBVIOUS
    <3>2. page = "info" /\ ~been
      BY <1>5, <3>1 DEF Session
    <3>3. GivenUp /\ Received("gotip")
      BY <1>5, <3>1, <3>2 DEF GivenUp, HalGotIp
    <3> QED
      BY <3>0, <3>3, Unnoted DEF Calm
  <2>2. "up" \in OrchestratorEvents
    BY OrchestratorKinds
  <2> QED
    BY <1>1, <1>2, <1>3, <1>4, <1>5, <2>1, <2>2 DEF Session
<1>6. CASE /\ owner = "service"
           /\ \E reason \in Reasons : notice' = reason /\ events' = Append(events, reason)
           /\ UNCHANGED <<been, retained, prov>>
  <2>1. PICK reason \in Reasons : events' = Append(events, reason)
    BY <1>6
  <2>2. reason \in OrchestratorEvents /\ reason \notin {"up", "linked", "stopped"}
    BY OrchestratorKinds, EventNames
  <2> QED
    BY <1>1, <1>2, <1>3, <1>4, <1>6, <2>1, <2>2 DEF Session
<1>7. CASE /\ owner = "prov" /\ prov = "Connecting"
           /\ prov' = "Connected" /\ been' = TRUE
           /\ \/ events' = Append(events, "linked") /\ UNCHANGED retained
              \/ retained' = TRUE /\ UNCHANGED events
  <2>1. Ahead'
    BY <1>3, <1>7, OrchestratorKinds DEF Ahead
  <2>2. provActive /\ mode = "Stationary"
    BY <1>4, <1>7 DEF Session
  <2>3. page = "provisioning" /\ step # "failing" /\ ~reconnect
    BY <2>2 DEF Session
  <2> QED
    BY <1>2, <1>7, <2>1, <2>2, <2>3 DEF Session
<1>8. CASE /\ UNCHANGED <<been, retained, events>>
           /\ prov' = prov \/ (prov = "Connecting" /\ prov' = "Waiting")
  BY <1>1, <1>2, <1>4, <1>8 DEF Session, Ahead
<1> QED
  BY <1>5, <1>6, <1>7, <1>8, Heard

LEMMA SessionHandler == ASSUME Session, CloudInv, Typed, Calm', Handler PROVE Session'
<1>1. events \in Seq(OrchestratorEvents) /\ PolicyTypes
  BY DEF Typed, PolicyTypes
<1>2. \A S : events # <<>> => (Among(events, S) <=> Head(events) \in S \/ Among(Tail(events), S))
  BY <1>1, AmongRest
<1>3. events # <<>> => Tail(events) \in Seq(OrchestratorEvents)
  BY <1>1
<1>4. ASSUME ServiceIdle PROVE Dead => Dead'
  BY <1>4 DEF ServiceIdle, timerVars, driverVars, Dead
<1>5. mode \in {"Stationary", "Away"} /\ been \in BOOLEAN
  BY DEF Typed, PolicyTypes
<1>6. CASE OnUp
  <2>1. /\ events # <<>> /\ Head(events) = "up" /\ events' = Tail(events)
        /\ step = "receive" /\ step' = "timers"
        /\ UNCHANGED <<mode, been, reconnect, provActive, retained, owner, prov>>
        /\ \/ page' = page
           \/ page = "info" /\ page' = "home" /\ mode = "Stationary"
    BY <1>6 DEF OnUp, Receive, Then, HeedsUp, latchVars, deadlineVars, sessionVars
  <2>2. /\ Among(events, {"linked"}) => Among(events', {"linked"})
        /\ Among(events, {"stopped"}) => Among(events', {"stopped"})
        /\ Among(events', {"up"}) => Among(events, {"up"})
        /\ Among(events, {"up"})
    BY <1>2, <2>1
  <2>3. Dead => Dead'
    BY <1>4, <1>6 DEF OnUp
  <2> QED
    BY <1>5, <2>1, <2>2, <2>3 DEF Session, Ahead
<1>7. CASE OnLinked
  <2>1. /\ events # <<>> /\ Head(events) = "linked" /\ events' = Tail(events)
        /\ step = "receive" /\ step' = "linked"
        /\ UNCHANGED <<mode, page, been, reconnect, provActive, retained, owner, prov>>
    BY <1>7 DEF OnLinked, Receive, Then, latchVars, deadlineVars, sessionVars
  <2>2. /\ Among(events, {"stopped"}) => Among(events', {"stopped"})
        /\ Among(events', {"up"}) => Among(events, {"up"})
        /\ Ahead'
    BY <1>2, <2>1 DEF Ahead
  <2>3. Dead => Dead'
    BY <1>4, <1>7 DEF OnLinked
  <2> QED
    BY <1>5, <2>1, <2>2, <2>3 DEF Session
<1>8. CASE OnStopped
  <2>1. events # <<>> /\ Head(events) = "stopped" /\ step = "receive"
    BY <1>8 DEF OnStopped, Receive
  <2>2. CASE LeaveStationary(Tail(events))
    BY <1>3, <2>1, <2>2, Left DEF Session
  <2>3. CASE ~LeaveStationary(Tail(events))
    <3>1. /\ events' = Tail(events) /\ step' = "timers" /\ ServiceIdle
          /\ been \/ mode # "Stationary"
          /\ UNCHANGED <<mode, page, been, reconnect, provActive, retained, owner, prov>>
      BY <1>8, <2>3 DEF OnStopped, Then, latchVars, deadlineVars, sessionVars
    <3>2. /\ Among(events, {"linked"}) => Among(events', {"linked"})
          /\ Among(events', {"up"}) => Among(events, {"up"})
      BY <1>2, <2>1, <3>1
    <3>3. Dead => Dead'
      BY <1>4, <3>1
    <3> QED
      BY <1>5, <2>1, <3>1, <3>2, <3>3 DEF Session, Ahead
  <2> QED
    BY <2>2, <2>3
<1>9. CASE OpenProvisioning
  <2>1. step = "failing" /\ step' = "timers" /\ page' = "provisioning" /\ mode' = mode
    BY <1>9 DEF OpenProvisioning, Then
  <2>2. prov = "Idle" /\ ~been /\ mode = "Stationary"
    BY <1>5, <2>1 DEF Session, CloudInv
  <2>3. /\ prov' = "Waiting" /\ owner' = "prov" /\ provActive' = TRUE
        /\ retained' = FALSE /\ reconnect' = FALSE /\ been' = been /\ events' = events
    BY <1>9, <2>2, Started DEF OpenProvisioning, Starts
  <2> QED
    BY <2>1, <2>2, <2>3 DEF Session
<1>10. CASE HandBack
  <2>1. /\ step = "linked" /\ step' = "timers" /\ page' = "home" /\ ServiceIdle
        /\ UNCHANGED <<mode, been, reconnect, retained>>
    BY <1>10 DEF HandBack, Then, latchVars, deadlineVars
  <2>2. been /\ mode = "Stationary"
    BY <2>1 DEF CloudInv, Ahead
  <2>3. CASE provActive
    <3>1. prov' = "Idle" /\ provActive' = FALSE /\ owner' = "service"
      BY <1>10, <2>3 DEF HandBack, StopProvisioning
    <3> QED
      BY <2>1, <2>2, <3>1 DEF Session
  <2>4. CASE ~provActive
    <3>1. UNCHANGED <<prov, provActive, owner, events>>
      BY <1>10, <2>4 DEF HandBack
    <3> QED
      BY <2>1, <2>2, <2>4, <3>1 DEF Session
  <2> QED
    BY <2>3, <2>4
<1>11. ASSUME NEW reason \in Reasons, OnLost(reason) PROVE Session'
  <2>1. CASE FactoryFails
    BY <2>1, AmongNothing DEF FactoryFails, Then, Session, Dead, Quiet
  <2>2. CASE ~FactoryFails
    <3>0. ~(mode = "Stationary" /\ provActive)
      <4>1. Note(When("stale", mode = "Stationary" /\ provActive))
        BY <1>11, <2>2 DEF OnLost
      <4> QED
        BY <4>1, Unnoted DEF Calm
    <3>1. /\ events # <<>> /\ Head(events) = reason /\ events' = Tail(events)
          /\ step = "receive" /\ ServiceIdle
          /\ ~(mode = "Stationary" /\ provActive)
          /\ UNCHANGED <<mode, page, been, provActive, retained, owner, prov>>
          /\ \/ reconnect' = reconnect /\ step' = "timers"
             \/ mode = "Stationary" /\ been /\ reconnect' = TRUE /\ step' = "timers"
             \/ mode = "Stationary" /\ ~been /\ reconnect' = reconnect /\ step' = "failing"
      BY <1>11, <2>2, <3>0 DEF OnLost, Receive, RuntimeLost, BringUpLost, Then, latchVars, sessionVars
    <3>2. reason \notin {"up", "linked", "stopped"}
      BY EventNames
    <3>3. /\ Among(events, {"linked"}) => Among(events', {"linked"})
          /\ Among(events, {"stopped"}) => Among(events', {"stopped"})
          /\ Among(events', {"up"}) => Among(events, {"up"})
      BY <1>2, <3>1, <3>2
    <3>4. Dead => Dead'
      BY <1>4, <3>1
    <3>5. page \in {"info", "provisioning", "home"}
      BY <1>1 DEF PolicyTypes
    <3> QED
      BY <1>5, <3>1, <3>3, <3>4, <3>5 DEF Session, Ahead
  <2> QED
    BY <2>1, <2>2
<1> QED
  BY <1>6, <1>7, <1>8, <1>9, <1>10, <1>11 DEF Handler

LEMMA SessionTimers == ASSUME Session, CloudInv, Typed, Timers PROVE Session'
<1>1. PICK delivered \in BOOLEAN, expired \in BOOLEAN, posted \in BOOLEAN, due \in BOOLEAN :
        Tick(delivered, expired, posted, due)
  BY DEF Timers
<1>2. /\ step \in {"receive", "timers"} /\ step' = "receive"
      /\ UNCHANGED <<mode, page, provActive, prov, been>>
      /\ delivered => retained
      /\ retained' = (retained /\ ~delivered)
      /\ delivered => Among(events', {"linked"})
      /\ Among(events, {"linked"}) => Among(events', {"linked"})
      /\ Among(events, {"stopped"}) => Among(events', {"stopped"})
      /\ Among(events', {"up"}) => Among(events, {"up"})
      /\ \/ due /\ reconnect /\ reconnect' = FALSE /\ owner' = "service"
         \/ ~due /\ ServiceIdle /\ UNCHANGED <<reconnect, owner>>
  BY <1>1, Ticked DEF Typed
<1>3. /\ mode \in {"Stationary", "Away"} /\ been \in BOOLEAN /\ retained \in BOOLEAN
      /\ reconnect \in BOOLEAN /\ owner \in {"service", "prov", "none"}
  BY DEF Typed, PolicyTypes
<1>4. Ahead <=> Ahead'
  BY <1>2, <1>3, Ticked, <1>1 DEF Ahead, Typed
<1>5. CASE due /\ reconnect /\ reconnect' = FALSE /\ owner' = "service"
  <2>1. been /\ mode = "Stationary" /\ ~provActive /\ page # "provisioning"
    BY <1>3, <1>5 DEF Session
  <2> QED
    BY <1>2, <1>3, <1>4, <1>5, <2>1 DEF Session
<1>6. CASE ServiceIdle /\ UNCHANGED <<reconnect, owner>>
  <2>1. Dead => Dead'
    BY <1>6 DEF ServiceIdle, timerVars, driverVars, Dead
  <2> QED
    BY <1>2, <1>3, <1>4, <1>6, <2>1 DEF Session
<1> QED
  BY <1>2, <1>5, <1>6

LEMMA SessionUser == ASSUME Session, CloudInv, Typed, Calm', User PROVE Session'
<1>1. events \in Seq(OrchestratorEvents) /\ PolicyTypes
  BY DEF Typed, PolicyTypes
<1>2. CASE EnterStationary
  <2>1. /\ mode = "Away" /\ mode' = "Stationary" /\ step' = "timers"
        /\ ~Among(events', {"up"})
        /\ \/ /\ page' = "info" /\ owner' = "service" /\ been' = FALSE
              /\ UNCHANGED <<reconnect, provActive, retained, prov>>
           \/ page' = "provisioning" /\ Starts
    BY <1>1, <1>2, Entered DEF Calm
  <2>2. ~provActive /\ ~been /\ ~reconnect /\ prov = "Idle"
    BY <2>1 DEF Session
  <2>3. CASE /\ page' = "info" /\ owner' = "service" /\ been' = FALSE
             /\ UNCHANGED <<reconnect, provActive, retained, prov>>
    BY <2>1, <2>2, <2>3 DEF Session
  <2>4. CASE page' = "provisioning" /\ Starts
    <3>1. /\ prov' = "Waiting" /\ owner' = "prov" /\ provActive' = TRUE
          /\ retained' = FALSE /\ reconnect' = FALSE /\ been' = been
      BY <2>2, <2>4, Started
    <3> QED
      BY <2>1, <2>2, <2>4, <3>1 DEF Session
  <2> QED
    BY <2>1, <2>3, <2>4
<1>3. CASE UserLeaves
  BY <1>1, <1>3, Left DEF UserLeaves, Session
<1>4. CASE SwitchTransport
  <2>1. /\ step = "receive" /\ step' = "timers" /\ page = "provisioning" /\ provActive
        /\ UNCHANGED <<mode, page, been, reconnect, retained>>
    BY <1>4 DEF SwitchTransport, Then, latchVars, deadlineVars
  <2>2. ~Ahead
    <3>1. ~retained /\ ~Told({"linked"})
      BY <1>4, Unnoted DEF SwitchTransport, Overtaken, Calm
    <3> QED
      BY <1>1, <2>1, <3>1, ToldAmong DEF Ahead
  <2>3. ~been /\ ~reconnect /\ mode = "Stationary"
    BY <2>1, <2>2 DEF Session, CloudInv
  <2>4. CASE prov' = "Waiting" /\ owner' = "prov" /\ UNCHANGED <<provActive, events>>
    BY <2>1, <2>3, <2>4 DEF Session
  <2>5. CASE /\ prov' = "Idle" /\ owner' = "none" /\ provActive' = FALSE
             /\ events' = Append(events, "stopped")
    <3>1. Among(events', {"stopped"}) /\ (Among(events', {"up"}) => Among(events, {"up"}))
      BY <1>1, <2>5, KindAppended, OrchestratorKinds
    <3> QED
      BY <2>1, <2>3, <2>5, <3>1 DEF Session
  <2> QED
    BY <1>4, <2>4, <2>5 DEF SwitchTransport, SwitchFails
<1>5. ASSUME NEW network \in Credentials, HandOverCredentials(network) PROVE Session'
  <2>1. prov = "Waiting"
    BY <1>5 DEF HandOverCredentials
  <2>2. provActive /\ owner = "prov"
    BY <2>1 DEF Session
  <2>3. /\ prov' \in {"Hung", "Connecting"} /\ events' = events
        /\ UNCHANGED <<mode, page, step, been, reconnect, provActive, retained, owner>>
    BY <1>5, <2>2 DEF HandOverCredentials, policyVars, deadlineVars
  <2>4. mode = "Stationary"
    BY <2>2 DEF CloudInv
  <2> QED
    BY <2>1, <2>2, <2>3, <2>4 DEF Session, Ahead
<1> QED
  BY <1>2, <1>3, <1>4, <1>5 DEF User

LEMMA SessionStep == ASSUME Session, CloudInv, Typed, Calm', [Next]_vars PROVE Session'
<1>1. CASE UNCHANGED vars
  BY <1>1 DEF vars, managerVars, timerVars, driverVars, policyVars, latchVars, deadlineVars,
              sessionVars, Session, Ahead, Dead
<1> QED
  BY <1>1, SessionDriver, SessionWifi, SessionHandler, SessionTimers, SessionUser DEF Next

Governed == Typed /\ CloudInv /\ Session

LEMMA Restarts == ASSUME FactoryFails PROVE CloudInv' /\ Session'
BY CloudRestarts, AmongNothing DEF FactoryFails, Then, Session, Dead, Quiet

GovernedWhileCalm == Typed /\ (Calm => Governed)

LEMMA GovernedStep == ASSUME GovernedWhileCalm, [Next]_vars PROVE GovernedWhileCalm'
<1>1. Typed'
  BY TypesStep DEF GovernedWhileCalm
<1>2. FactoryFails => Governed'
  BY <1>1, Restarts DEF Governed
<1>3. ASSUME ~FactoryFails, Calm' PROVE Governed'
  <2>1. Calm
    BY <1>3, Grows DEF Calm
  <2>2. "overtake" \notin mishaps'
    BY <1>3 DEF Calm
  <2> QED
    BY <1>1, <1>3, <2>1, <2>2, CloudStep, SessionStep DEF GovernedWhileCalm, Governed
<1> QED
  BY <1>1, <1>2, <1>3 DEF GovernedWhileCalm

LEMMA AlwaysGoverned == Spec => []GovernedWhileCalm
<1>1. Init => GovernedWhileCalm
  BY TypesInit, CloudInit, SessionInit DEF Governed, GovernedWhileCalm
<1> QED
  BY <1>1, GovernedStep, PTL DEF Spec

\* In Stationary the callbacks are the session's while it is active and the service's
\* otherwise, except between a switch that failed and the Stopped it made up, however failures,
\* hand-overs, switches, reconnects and restarts follow each other (provisioning_manager.cpp,
\* start() and stop(); go_wifi.cpp, stop_provisioning()).  It ends with the first session that
\* does not start, address that comes with the end of its attempt, failure told twice or input
\* that overtakes.
THEOREM OwnersMatch == Spec => []OwnerMatches
<1>1. GovernedWhileCalm => OwnerMatches
  <2>1. ASSUME Governed PROVE OwnerMatches
    <3>1. owner \in {"service", "prov", "none"} /\ (Told({"stopped"}) <=> Among(events, {"stopped"}))
      BY <2>1, ToldAmong DEF Governed, Typed, PolicyTypes
    <3> QED
      BY <2>1, <3>1 DEF Governed, Session, OwnerMatches
  <2> QED
    BY <2>1, SparedCalm DEF GovernedWhileCalm, OwnerMatches
<1> QED
  BY <1>1, AlwaysGoverned, PTL

\* Once the orchestrator has nothing left to handle, a session is behind the provisioning page,
\* failed switches of the transport included (go_wifi.cpp, switch_provisioning_transport() and
\* the Stopped it makes up), until one of the same four mishaps; a first session that does not
\* start is one of them, for start_provisioning() makes up nothing.
THEOREM PagesHaveTransport == Spec => []PageHasTransport
<1>1. GovernedWhileCalm => PageHasTransport
  <2>1. ASSUME Governed, page = "provisioning", events = <<>> PROVE provActive
    <3>1. mode = "Stationary" /\ ~Among(events, {"stopped"})
      BY <2>1, AmongNothing DEF Governed, CloudInv
    <3> QED
      BY <2>1, <3>1 DEF Governed, Session
  <2> QED
    BY <2>1, SparedCalm DEF GovernedWhileCalm, PageHasTransport
<1> QED
  BY <1>1, AlwaysGoverned, PTL

-----------------------------------------------------------------------------
(* A device that has been online is looked after.                           *)

\* Nothing but the outcome of a scan is posted, or follows an address.
OnlyScans(q) == \A i \in 1..Len(q) : q[i].event = "scan"
Settled(q) == \A i, j \in 1..Len(q) : q[i].event = "gotip" /\ i < j => q[j].event = "scan"

LEMMA ScansAppended ==
  ASSUME NEW q \in Seq(DriverEvents), NEW d \in DriverEvents, OnlyScans(q), d.event = "scan"
  PROVE  OnlyScans(Append(q, d))
<1> DEFINE a == Append(q, d)
<1>1. /\ Len(a) = Len(q) + 1 /\ Len(q) \in Nat /\ a[Len(q) + 1] = d
      /\ \A i \in 1..Len(q) : a[i] = q[i]
  BY Appended
<1> HIDE DEF a
<1>2. \A i \in 1..Len(a) : i \in 1..Len(q) \/ i = Len(q) + 1
  BY <1>1
<1> QED
  BY <1>1, <1>2 DEF OnlyScans, a

LEMMA HasOnlyAppended ==
  ASSUME NEW q \in Seq(DriverEvents), NEW d \in DriverEvents, NEW kind, d.event # kind,
         Has(Append(q, d), kind)
  PROVE  Has(q, kind)
<1> DEFINE a == Append(q, d)
<1>1. /\ Len(a) = Len(q) + 1 /\ Len(q) \in Nat /\ a[Len(q) + 1] = d
      /\ \A i \in 1..Len(q) : a[i] = q[i]
  BY Appended
<1>2. Has(a, kind)
  OBVIOUS
<1> HIDE DEF a
<1>3. PICK i \in 1..Len(a) : a[i].event = kind
  BY <1>2 DEF Has
<1>4. i \in 1..Len(q)
  BY <1>1, <1>3
<1> QED
  BY <1>1, <1>3, <1>4 DEF Has

LEMMA SettledAppended ==
  ASSUME NEW q \in Seq(DriverEvents), NEW d \in DriverEvents, Settled(q),
         d.event = "scan" \/ ~Has(q, "gotip")
  PROVE  Settled(Append(q, d))
<1> DEFINE a == Append(q, d)
<1>1. /\ Len(a) = Len(q) + 1 /\ Len(q) \in Nat /\ a[Len(q) + 1] = d
      /\ \A i \in 1..Len(q) : a[i] = q[i]
  BY Appended
<1> HIDE DEF a
<1>2. SUFFICES ASSUME NEW i \in 1..Len(a), NEW j \in 1..Len(a), a[i].event = "gotip", i < j
               PROVE  a[j].event = "scan"
  BY DEF Settled, a
<1>3. i \in 1..Len(q) /\ q[i].event = "gotip"
  BY <1>1, <1>2
<1>4. CASE j \in 1..Len(q)
  BY <1>1, <1>2, <1>3, <1>4 DEF Settled
<1>5. CASE j = Len(q) + 1
  BY <1>1, <1>3, <1>5 DEF Has
<1> QED
  BY <1>1, <1>4, <1>5

\* What handling the first event leaves.
LEMMA SettledRest ==
  ASSUME NEW q \in Seq(DriverEvents), q # <<>>
  PROVE  /\ \A kind : Has(Tail(q), kind) => Has(q, kind)
         /\ Head(q).event = "gotip" => Has(q, "gotip")
         /\ OnlyScans(q) => Head(q).event = "scan" /\ OnlyScans(Tail(q))
         /\ Settled(q) => Settled(Tail(q))
         /\ Settled(q) /\ Head(q).event = "gotip" => OnlyScans(Tail(q))
<1> DEFINE t == Tail(q)
<1>1. /\ Len(t) = Len(q) - 1 /\ Len(q) \in Nat \ {0} /\ Head(q) = q[1]
      /\ \A i \in 1..(Len(q) - 1) : t[i] = q[i + 1]
  BY Rest
<1> HIDE DEF t
<1>2. 1 \in 1..Len(q)
  BY <1>1
<1>3. \A i \in 1..Len(t) : i + 1 \in 1..Len(q) /\ 1 < i + 1 /\ t[i] = q[i + 1]
  BY <1>1
<1>4. ASSUME NEW kind, Has(t, kind) PROVE Has(q, kind)
  <2>1. PICK i \in 1..Len(t) : t[i].event = kind
    BY <1>4 DEF Has
  <2>2. i + 1 \in 1..Len(q) /\ q[i + 1].event = kind
    BY <1>3, <2>1
  <2> QED
    BY <2>2 DEF Has
<1>5. Head(q).event = "gotip" => Has(q, "gotip")
  BY <1>1, <1>2 DEF Has
<1>6. OnlyScans(q) => Head(q).event = "scan" /\ OnlyScans(t)
  BY <1>1, <1>2, <1>3 DEF OnlyScans
<1>7. ASSUME Settled(q) PROVE Settled(t)
  <2>1. SUFFICES ASSUME NEW i \in 1..Len(t), NEW j \in 1..Len(t), t[i].event = "gotip", i < j
                 PROVE  t[j].event = "scan"
    BY DEF Settled
  <2>2. i + 1 \in 1..Len(q) /\ j + 1 \in 1..Len(q) /\ t[i] = q[i + 1] /\ t[j] = q[j + 1]
    BY <1>3
  <2>3. i + 1 < j + 1
    BY <1>1, <2>1
  <2> QED
    BY <1>7, <2>1, <2>2, <2>3 DEF Settled
<1>8. ASSUME Settled(q), Head(q).event = "gotip" PROVE OnlyScans(t)
  <2>1. SUFFICES ASSUME NEW i \in 1..Len(t) PROVE t[i].event = "scan"
    BY DEF OnlyScans
  <2>2. i + 1 \in 1..Len(q) /\ 1 < i + 1 /\ t[i] = q[i + 1] /\ q[1].event = "gotip"
    BY <1>1, <1>3, <1>8
  <2> QED
    BY <1>2, <1>8, <2>2 DEF Settled
<1> QED
  BY <1>4, <1>5, <1>6, <1>7, <1>8 DEF t

\* An address the manager has heard of is there, or its loss is still to be handled.
Sighted ==
  /\ swallow => LostBefore(inbox, "gotip")
  /\ sta = "GotIp" => ~swallow /\ (link = "up" \/ Has(inbox, "lost"))

LEMMA SightedPosts == ASSUME ManagerTypes, Driven, Sighted, DriverPosts PROVE Sighted'
<1>1. inbox \in Seq(DriverEvents)
  BY DEF ManagerTypes
<1>2. PICK e \in DriverEvents :
        /\ inbox' = Append(inbox, e) /\ UNCHANGED <<sta, swallow>>
        /\ link' = link \/ link' = "up" \/ (link # "up") \/ e.event = "lost"
  <2>1. ASSUME NEW from, NEW to, NEW e, LinkStep(from, to, e)
        PROVE  link = from /\ link' = to /\ inbox' = Append(inbox, e) /\ UNCHANGED <<sta, swallow>>
    BY <2>1 DEF LinkStep, attemptVars
  <2>2. CASE Associates
    BY <2>1, <2>2, EventKinds DEF Associates
  <2>3. CASE GetsIp
    BY <2>1, <2>3, EventKinds DEF GetsIp
  <2>4. ASSUME NEW reason \in Reasons, LinkLost(reason)
        PROVE  inbox' = Append(inbox, Lost(reason)) /\ UNCHANGED <<sta, swallow>>
    BY <2>1, <2>4 DEF LinkLost
  <2>5. CASE ScanEnds
    BY <2>5, EventKinds DEF ScanEnds, attemptVars
  <2> QED
    BY <2>2, <2>3, <2>4, <2>5, EventKinds DEF DriverPosts
<1>3. Has(inbox, "lost") \/ e.event = "lost" => Has(inbox', "lost")
  BY <1>1, <1>2, HasAppended
<1>4. swallow => LostBefore(inbox', "gotip")
  BY <1>1, <1>2, LostBeforeAppended DEF Sighted, Driven
<1> QED
  BY <1>2, <1>3, <1>4 DEF Sighted

LEMMA SightedTry ==
  ASSUME NEW q \in Seq(DriverEvents), AfterTry(q), swallow' => LostBefore(q, "gotip")
  PROVE  Sighted'
BY FollowsKeeps DEF AfterTry, Sighted

LEMMA SightedAsked == ASSUME ManagerTypes, Driven, Sighted, Asked PROVE Sighted'
<1>1. inbox \in Seq(DriverEvents) /\ Ordered(inbox, link)
  BY DEF ManagerTypes, Driven
<1>2. ASSUME NEW off \in BOOLEAN, DisconnectAnd(off) PROVE Sighted'
  <2>1. Follows(inbox, inbox') /\ sta' = "Disconnected" /\ swallow' = swallow
    BY <1>2 DEF DisconnectAnd, EchoTo, Follows
  <2> QED
    BY <1>1, <2>1, FollowsKeeps DEF Sighted
<1>3. ASSUME Attempt(inbox, link, 0), swallow' = swallow PROVE Sighted'
  BY <1>1, <1>3, AttemptOutcome, SightedTry DEF Sighted
<1>4. ASSUME UNCHANGED <<sta, swallow, link, inbox>> PROVE Sighted'
  BY <1>4 DEF Sighted
<1>5. ASSUME NEW network, NEW status, ConnectTo(network, status)
      PROVE  Sighted'
  BY <1>3, <1>4, <1>5 DEF ConnectTo, attemptVars, driverVars
<1>6. ASSUME NEW status, ConnectSaved(status) PROVE Sighted'
  BY <1>3, <1>4, <1>6 DEF ConnectSaved, attemptVars, driverVars
<1>7. CASE Reset
  BY <1>7 DEF Reset, Sighted
<1> QED
  BY <1>2, <1>5, <1>6, <1>7 DEF Asked

\* The watchdog does not give up an attempt whose address is posted.
Patient == ~(dhcpTimer /\ ~dhcpTimer' /\ Posted("gotip"))

LEMMA WifiPatient ==
  ASSUME WifiTask, "late" \notin mishaps' PROVE EventTask \/ (TimerTask /\ Patient)
<1>1. SUFFICES ASSUME TimerTask, ~EventTask PROVE Patient
  BY DEF WifiTask
<1>2. PICK kinds : Note(kinds) /\ When("late", ~Patient) \subseteq kinds
  BY <1>1 DEF WifiTask, Patient
<1> QED
  BY <1>2, Unnoted

LEMMA SightedTask ==
  ASSUME ManagerTypes, Driven, Sighted, EventTask \/ (TimerTask /\ Patient)
  PROVE  Sighted'
<1> DEFINE t == Tail(inbox)
<1>1. inbox \in Seq(DriverEvents) /\ Ordered(inbox, link)
  BY DEF ManagerTypes, Driven
<1>2. inbox # <<>> => t \in Seq(DriverEvents) /\ Ordered(t, link)
  BY <1>1, QueueTypes, OrderedRest
<1>3. ASSUME inbox # <<>>, Head(inbox).event # "lost", swallow PROVE LostBefore(t, "gotip")
  BY <1>1, <1>3, LostBeforeRest DEF Sighted
<1>4. CASE HalConnected
  <2>1. /\ inbox # <<>> /\ Head(inbox).event = "connected" /\ inbox' = t
        /\ sta' = "Connected" /\ swallow' = swallow
    BY <1>4 DEF HalConnected, Received
  <2> HIDE DEF t
  <2> QED
    BY <1>3, <2>1 DEF Sighted
<1>5. CASE HalGotIp
  <2>1. /\ inbox # <<>> /\ Head(inbox).event = "gotip" /\ inbox' = t
        /\ UNCHANGED <<swallow, link>>
    BY <1>5 DEF HalGotIp, Received
  <2>2. ~swallow
    BY <1>1, <2>1, LostBeforeRest DEF Sighted
  <2>3. link = "up" \/ Has(t, "lost")
    BY <1>1, <2>1, LostAfterRest DEF Ordered
  <2> HIDE DEF t
  <2> QED
    BY <2>1, <2>2, <2>3, ManagerTypes DEF Sighted
<1>6. CASE HalLost
  <2>1. inbox # <<>>
    BY <1>6 DEF HalLost, Received
  <2>2. CASE swallow
    BY <1>6, <2>2 DEF HalLost, Sighted
  <2>3. CASE ~swallow /\ sta' = "Disconnected"
    BY <1>6, <2>3 DEF HalLost, Sighted
  <2>4. CASE ~swallow /\ sta' = "Connecting"
    BY <1>6, <2>4 DEF HalLost, Sighted
  <2>5. ~swallow => sta' \in {"Disconnected", "Connecting"}
    BY <1>6 DEF HalLost, LinkFailed, Sweep
  <2> QED
    BY <2>2, <2>3, <2>4, <2>5 DEF ManagerTypes
<1>7. CASE HalScanned
  <2>1. inbox # <<>> /\ Head(inbox).event = "scan" /\ swallow' = swallow
    BY <1>7 DEF HalScanned, Received
  <2>2. CASE auto # "scanning"
    <3>1. inbox' = t /\ UNCHANGED <<sta, link>>
      BY <1>7, <2>2 DEF HalScanned, Keep
    <3>2. Has(inbox, "lost") => Has(t, "lost")
      BY <1>1, <2>1, HasRest
    <3> HIDE DEF t
    <3> QED
      BY <1>3, <2>1, <3>1, <3>2 DEF Sighted
  <2>3. CASE auto = "scanning"
    <3>1. PICK seen \in 0..saved : Sweep(seen, "missing", t, link)
      BY <1>7, <2>3 DEF HalScanned
    <3>2. AfterTry(t)
      BY <1>2, <2>1, <3>1, SweepOutcome
    <3> QED
      BY <1>2, <1>3, <2>1, <3>2, SightedTry
  <2> QED
    BY <2>2, <2>3
<1>8. CASE DhcpTimeout /\ Patient
  <2>1. CASE sta # "Connected"
    BY <1>8, <2>1 DEF DhcpTimeout, Sighted
  <2>2. CASE sta = "Connected"
    <3>1. LostBefore(inbox, "gotip")
      <4>1. ~Posted("gotip") /\ DOMAIN inbox = 1..Len(inbox)
        BY <1>1, <1>8 DEF DhcpTimeout, Patient
      <4> QED
        BY <4>1 DEF Posted, LostBefore
    <3>2. Follows(inbox, EchoTo(inbox))
      BY DEF EchoTo, Follows
    <3>3. LostBefore(EchoTo(inbox), "gotip")
      BY <1>1, <3>1, <3>2, FollowsKeeps
    <3>4. Follows(EchoTo(inbox), inbox') /\ sta' # "GotIp"
      BY <1>8, <2>2 DEF DhcpTimeout, Sweep, Keep, Join, Follows
    <3>5. LostBefore(inbox', "gotip")
      BY <1>1, <3>3, <3>4, FollowsKeeps, EchoTypes
    <3> QED
      BY <3>4, <3>5 DEF Sighted
  <2> QED
    BY <2>1, <2>2
<1>9. CASE RetryDue
  <2>1. swallow' = swallow
    BY <1>9 DEF RetryDue
  <2>2. CASE requested \/ sta # "Connecting"
    BY <1>9, <2>2 DEF RetryDue, Sighted
  <2>3. CASE ~requested /\ sta = "Connecting"
    <3>1. Sweep(left + 1, "soft", inbox, link) \/ Attempt(inbox, link, retry)
      BY <1>9, <2>3 DEF RetryDue
    <3>2. AfterTry(inbox)
      BY <1>1, <3>1, SweepOutcome, AttemptOutcome
    <3> QED
      BY <1>1, <2>1, <3>2, SightedTry DEF Sighted
  <2> QED
    BY <2>2, <2>3
<1> QED
  BY <1>4, <1>5, <1>6, <1>7, <1>8, <1>9 DEF EventTask, TimerTask

LEMMA SightedStep ==
  ASSUME Typed, Driven, Sighted, "late" \notin mishaps', [Next]_vars PROVE Sighted'
<1>1. CASE Idles
  BY <1>1 DEF Idles, attemptVars, driverVars, Sighted
<1>2. CASE WifiTask
  BY <1>2, WifiPatient, SightedTask DEF Typed
<1> QED
  BY <1>1, <1>2, OnlyMoves, SightedAsked, SightedPosts DEF Typed, Moves

\* The manager's attempt stays the session's: what it posts is what the session awaits.
Awaited == Settled(inbox) /\ (Has(inbox, "gotip") => link = "up")

\* A session and the service each find the manager in the state they left it in.
Handed ==
  /\ mode = "Stationary" /\ owner = "service" => ~requested
  /\ prov \in {"Connecting", "Connected"} => ~requested
  /\ prov = "Connecting" => Awaited
  /\ prov = "Connected" => sta = "GotIp" /\ link = "up" /\ OnlyScans(inbox)
  /\ provActive => auto = "off"
  /\ Ahead /\ provActive => prov = "Connected"

\* In Stationary, a device that has been online and is not trying has a reconnect, or a
\* failure to be told of, ahead of it.
Trying ==
  mode = "Stationary" /\ been /\ ~provActive =>
    sta # "Disconnected" \/ auto # "off" \/ reconnect \/ Among(events, Reasons)

\* Nothing that a session began has been taken from it.
Kept == Calm /\ "drop" \notin mishaps /\ "resubmit" \notin mishaps

LEMMA SparedKept == Kept <=> Spared(KeptKinds)
BY DEF Kept, Calm, Spared, KeptKinds, CalmKinds

LEMMA HandedDriver == ASSUME Governed, Handed, Kept', Driver PROVE Handed'
<1>1. /\ UNCHANGED <<mode, step, events, been, reconnect, provActive, retained, owner, prov>>
      /\ UNCHANGED <<sta, auto, requested>>
  BY DEF Driver, DriverAnswers, LinkSettles, Associates, GetsIp, LinkLost, LinkStep, ScanEnds,
         Unheard, policyVars, latchVars, deadlineVars, sessionVars, attemptVars
<1>2. inbox \in Seq(DriverEvents)
  BY DEF Governed, Typed, ManagerTypes
<1>3. prov \in {"Connecting", "Connected"} => provActive
  BY DEF Governed, Session
<1>4. CASE ScanEnds
  <2> DEFINE e == Plain("scan")
  <2>1. inbox' = Append(inbox, e) /\ link' = link
    BY <1>4 DEF ScanEnds
  <2>2. e \in DriverEvents /\ e.event = "scan"
    BY EventKinds
  <2> HIDE DEF e
  <2>3. prov = "Connecting" => Awaited'
    BY <1>2, <2>1, <2>2, SettledAppended, HasOnlyAppended DEF Handed, Awaited
  <2>4. OnlyScans(inbox) => OnlyScans(inbox')
    BY <1>2, <2>1, <2>2, ScansAppended
  <2> QED
    BY <1>1, <2>1, <2>3, <2>4 DEF Handed, Ahead
<1>5. CASE GetsIp
  <2> DEFINE e == Plain("gotip")
  <2>1. inbox' = Append(inbox, e) /\ link = "assoc" /\ link' = "up"
    BY <1>5 DEF GetsIp, LinkStep
  <2>2. e \in DriverEvents
    BY EventKinds
  <2> HIDE DEF e
  <2>3. prov = "Connecting" => Awaited'
    BY <1>2, <2>1, <2>2, SettledAppended DEF Handed, Awaited
  <2>4. prov # "Connected"
    BY <2>1 DEF Handed
  <2> QED
    BY <1>1, <2>1, <2>3, <2>4 DEF Handed, Ahead
<1>6. ASSUME NEW e \in DriverEvents, e.event # "gotip", inbox' = Append(inbox, e), link # "up"
      PROVE  Handed'
  <2>1. prov = "Connecting" => Awaited'
    <3>1. SUFFICES ASSUME prov = "Connecting" PROVE Awaited'
      OBVIOUS
    <3>2. Settled(inbox) /\ ~Has(inbox, "gotip")
      BY <1>6, <3>1 DEF Handed, Awaited
    <3> QED
      BY <1>2, <1>6, <3>2, SettledAppended, HasOnlyAppended DEF Awaited
  <2>2. prov # "Connected"
    BY <1>6 DEF Handed
  <2> QED
    BY <1>1, <2>1, <2>2 DEF Handed, Ahead
<1>7. CASE Associates
  BY <1>6, <1>7, EventKinds DEF Associates, LinkStep
<1>8. ASSUME NEW reason \in Reasons, LinkLost(reason), link # "up" PROVE Handed'
  BY <1>6, <1>8, EventKinds DEF LinkLost, LinkStep
<1>9. ASSUME NEW reason \in Reasons, LinkLost(reason), link = "up" PROVE Handed'
  <2>1. CASE provActive
    <3>1. Note(When("drop", HandingOver))
      BY <1>9, <2>1 DEF Driver, DriverAnswers, LinkSettles, Associates, GetsIp, ScanEnds,
                        LinkLost, LinkStep
    <3>2. HandingOver
      BY <1>9, <2>1 DEF HandingOver
    <3> QED
      BY <3>1, <3>2, Unnoted DEF Kept
  <2>2. CASE ~provActive
    BY <1>1, <1>3, <2>2 DEF Handed, Ahead
  <2> QED
    BY <2>1, <2>2 DEF Governed, Typed, PolicyTypes
<1>10. \/ ScanEnds \/ GetsIp \/ Associates \/ \E reason \in Reasons : LinkLost(reason)
  BY DEF Driver, DriverAnswers, LinkSettles, LinkLost
<1> QED
  BY <1>4, <1>5, <1>7, <1>8, <1>9, <1>10

\* The event task and the timer task, for a session that awaits its address.
LEMMA AwaitedRest ==
  ASSUME ManagerTypes, Awaited, inbox # <<>>, inbox' = Tail(inbox), link' = link
  PROVE  Awaited'
BY SettledRest DEF Awaited, ManagerTypes

LEMMA AwaitedEcho ==
  ASSUME ManagerTypes, ~Has(inbox, "gotip"), Follows(inbox, inbox') PROVE Awaited'
<1>1. ~Has(inbox', "gotip")
  BY HasOnlyAppended, EventKinds DEF Follows, ManagerTypes
<1> QED
  BY <1>1 DEF Awaited, Settled, Has

LEMMA AwaitedEvent == ASSUME ManagerTypes, auto = "off", Awaited, EventTask PROVE Awaited'
<1>1. inbox # <<>> /\ inbox' = Tail(inbox) /\ link' = link
  BY DEF EventTask, HalConnected, HalGotIp, HalLost, LinkFailed, HalScanned, Received, Keep
<1> QED
  BY <1>1, AwaitedRest

LEMMA AwaitedTimer ==
  ASSUME ManagerTypes, auto = "off", Awaited, TimerTask, Patient,
         ~(link = "up" /\ sta = "Connecting")
  PROVE  Awaited'
<1>1. ASSUME UNCHANGED <<inbox, link>> PROVE Awaited'
  BY <1>1 DEF Awaited
<1>2. CASE DhcpTimeout
  <2>1. CASE sta # "Connected"
    BY <1>1, <1>2, <2>1 DEF DhcpTimeout
  <2>2. CASE sta = "Connected"
    <3>1. ~Has(inbox, "gotip")
      <4>1. ~Posted("gotip") /\ DOMAIN inbox = 1..Len(inbox)
        BY <1>2 DEF DhcpTimeout, ManagerTypes, Patient
      <4> QED
        BY <4>1 DEF Posted, Has
    <3>2. Follows(inbox, inbox')
      BY <1>2, <2>2 DEF DhcpTimeout, Keep, EchoTo, Follows
    <3> QED
      BY <3>1, <3>2, AwaitedEcho
  <2> QED
    BY <2>1, <2>2
<1>3. CASE RetryDue
  <2>1. CASE requested \/ sta # "Connecting"
    BY <1>1, <1>3, <2>1 DEF RetryDue
  <2>2. CASE ~requested /\ sta = "Connecting"
    <3>1. Attempt(inbox, link, retry)
      BY <1>3, <2>2 DEF RetryDue
    <3>2. Follows(inbox, inbox')
      BY <3>1 DEF Attempt, Join, Keep, Follows
    <3>3. ~Has(inbox, "gotip")
      BY <2>2 DEF Awaited
    <3> QED
      BY <3>2, <3>3, AwaitedEcho
  <2> QED
    BY <2>1, <2>2
<1> QED
  BY <1>2, <1>3 DEF TimerTask

LEMMA HandedWifi == ASSUME Governed, Driven, Handed, Kept', WifiTask PROVE Handed'
<1>1. /\ UNCHANGED <<mode, step, provActive, owner>>
      /\ EventTask \/ (TimerTask /\ Patient /\ ~(HandingOver /\ sta = "Connecting"))
  <2>1. "late" \notin mishaps' /\ "drop" \notin mishaps'
    BY DEF Kept, Calm
  <2>2. ASSUME ~EventTask PROVE ~(HandingOver /\ sta = "Connecting")
    <3>1. PICK kinds : Note(kinds) /\ When("drop", HandingOver /\ sta = "Connecting") \subseteq kinds
      BY <2>2 DEF WifiTask
    <3> QED
      BY <2>1, <3>1, Unnoted
  <2> QED
    BY <2>1, <2>2, WifiPatient, Heard DEF Governed
<1>2. ManagerTypes /\ Typed /\ inbox \in Seq(DriverEvents)
  BY DEF Governed, Typed, ManagerTypes
<1>3. requested' => requested
  BY <1>1 DEF EventTask, TimerTask, HalConnected, HalGotIp, HalLost, HalScanned, DhcpTimeout, RetryDue
<1>4. CASE ~provActive
  <2>1. owner # "prov" /\ prov = "Idle"
    BY <1>4 DEF Governed, Session
  <2>2. prov' = prov
    BY <1>2, <2>1, Heard
  <2> QED
    BY <1>1, <1>3, <1>4, <2>1, <2>2 DEF Handed
<1>5. CASE provActive /\ HalGotIp /\ prov = "Connecting" /\ prov' = "Connected"
  <2>1. inbox # <<>> /\ Head(inbox).event = "gotip" /\ Settled(inbox)
    BY <1>5 DEF HalGotIp, Received, Handed, Awaited
  <2>2. link = "up" /\ OnlyScans(Tail(inbox))
    BY <1>2, <1>5, <2>1, SettledRest DEF Handed, Awaited
  <2>3. sta' = "GotIp" /\ auto' = "off" /\ link' = link /\ inbox' = Tail(inbox)
    BY <1>5 DEF HalGotIp
  <2>4. owner # "service"
    BY <1>5 DEF Governed, Session
  <2> QED
    BY <1>1, <1>3, <1>5, <2>2, <2>3, <2>4 DEF Handed
<1>6. CASE provActive /\ ~(prov = "Connecting" /\ prov' = "Connected")
  <2>1. /\ UNCHANGED <<been, retained, events>>
        /\ prov' = prov \/ (prov = "Connecting" /\ prov' = "Waiting")
    <3>1. owner = "prov"
      BY <1>6 DEF Governed, Session
    <3> QED
      BY <1>2, <1>6, <3>1, Heard
  <2>2. auto = "off"
    BY <1>6 DEF Handed
  <2>3. auto' = "off"
    BY <1>1, <2>2 DEF EventTask, TimerTask, HalConnected, HalGotIp, HalLost, LinkFailed, HalScanned,
                      DhcpTimeout, RetryDue, Attempt
  <2>4. prov' = "Connecting" => Awaited'
    <3>1. SUFFICES ASSUME prov' = "Connecting" PROVE Awaited'
      OBVIOUS
    <3>2. Awaited
      BY <2>1, <3>1 DEF Handed
    <3>3. ~EventTask => Patient /\ ~(link = "up" /\ sta = "Connecting")
      BY <1>1, <1>6 DEF HandingOver
    <3>4. CASE EventTask
      BY <1>2, <2>2, <3>2, <3>4, AwaitedEvent
    <3>5. CASE ~EventTask
      BY <1>1, <1>2, <2>2, <3>2, <3>3, <3>5, AwaitedTimer
    <3> QED
      BY <3>4, <3>5
  <2>5. prov' = "Connected" => sta' = "GotIp" /\ link' = "up" /\ OnlyScans(inbox')
    <3>1. SUFFICES ASSUME prov' = "Connected"
                   PROVE  sta' = "GotIp" /\ link' = "up" /\ OnlyScans(inbox')
      OBVIOUS
    <3>2. sta = "GotIp" /\ link = "up" /\ OnlyScans(inbox)
      BY <1>6, <2>1, <3>1 DEF Handed
    <3>3. CASE EventTask
      <4>1. HalScanned /\ inbox # <<>>
        BY <1>2, <3>2, <3>3, SettledRest DEF EventTask, HalConnected, HalGotIp, HalLost, HalScanned, Received
      <4>2. sta' = sta /\ link' = link /\ inbox' = Tail(inbox)
        BY <2>2, <4>1 DEF HalScanned, Keep
      <4> QED
        BY <1>2, <3>2, <4>1, <4>2, SettledRest
    <3>4. CASE TimerTask
      BY <3>2, <3>4 DEF TimerTask, DhcpTimeout, RetryDue
    <3> QED
      BY <1>1, <3>3, <3>4
  <2>6. prov' \in {"Connecting", "Connected"} => prov = prov'
    BY <1>6, <2>1
  <2>7. owner # "service"
    BY <1>6 DEF Governed, Session
  <2>8. Ahead' => prov' = "Connected"
    <3>1. Ahead' => Ahead
      BY <1>1, <2>1 DEF Ahead
    <3> QED
      BY <1>6, <2>1, <3>1 DEF Handed
  <2> QED
    BY <1>1, <1>3, <2>3, <2>4, <2>5, <2>6, <2>7, <2>8 DEF Handed
<1>7. prov = "Connecting" /\ prov' = "Connected" => HalGotIp
  BY <1>2, Heard
<1>8. provActive \in BOOLEAN
  BY DEF Governed, Typed, PolicyTypes
<1> QED
  BY <1>4, <1>5, <1>6, <1>7, <1>8

LEMMA HandedHandler == ASSUME Governed, Handed, Kept', Handler PROVE Handed'
<1>1. events \in Seq(OrchestratorEvents) /\ Typed /\ provActive \in BOOLEAN
  BY DEF Governed, Typed, PolicyTypes
<1>2. events # <<>> => (Among(Tail(events), {"linked"}) => Among(events, {"linked"}))
  BY <1>1, AmongRest
<1>3. ASSUME ServiceIdle, UNCHANGED <<provActive, owner, prov>>, mode' = mode, Ahead' => Ahead
      PROVE  Handed'
  BY <1>3 DEF ServiceIdle, attemptVars, driverVars, Handed, Awaited
<1>4. CASE OnUp
  <2>1. Ahead' => Ahead
    BY <1>2, <1>4 DEF OnUp, Receive, Then, Ahead, sessionVars
  <2> QED
    BY <1>3, <1>4, <2>1 DEF OnUp, sessionVars
<1>5. CASE OnLinked
  <2>1. Ahead
    <3>1. events # <<>> /\ Head(events) = "linked"
      BY <1>5 DEF OnLinked, Receive
    <3> QED
      BY <1>1, <3>1, AmongRest DEF Ahead
  <2> QED
    BY <1>3, <1>5, <2>1 DEF OnLinked, sessionVars
<1>6. ASSUME mode' = "Away", provActive' = FALSE, prov' = "Idle" PROVE Handed'
  BY <1>6 DEF Handed
<1>7. CASE OnStopped
  <2>1. CASE LeaveStationary(Tail(events))
    BY <1>6, <2>1 DEF LeaveStationary, Shutdown
  <2>2. CASE ~LeaveStationary(Tail(events))
    <3>1. Ahead' => Ahead
      BY <1>2, <1>7, <2>2 DEF OnStopped, Receive, Then, Ahead, sessionVars
    <3> QED
      BY <1>3, <1>7, <2>2, <3>1 DEF OnStopped, sessionVars
  <2> QED
    BY <2>1, <2>2
<1>8. CASE OpenProvisioning
  <2>1. step = "failing" /\ step' = "timers" /\ Starts
    BY <1>8, Opens DEF OpenProvisioning, Then
  <2>2. prov = "Idle" /\ ~been
    BY <2>1 DEF Governed, Session
  <2>3. prov' = "Waiting" /\ owner' = "prov" /\ retained' = FALSE /\ events' = events
    BY <2>1, <2>2, Started DEF Kept
  <2>4. ~Ahead'
    BY <2>1, <2>2, <2>3 DEF Governed, CloudInv, Ahead
  <2>5. auto' = "off"
    BY <2>1 DEF Starts, StartProvisioning, DisconnectAnd, ClearAutoState
  <2> QED
    BY <2>3, <2>4, <2>5 DEF Handed
<1>9. CASE HandBack
  <2>1. step = "linked" /\ ServiceIdle /\ UNCHANGED <<mode, requested>>
    BY <1>9 DEF HandBack, ServiceIdle, attemptVars
  <2>2. CASE provActive
    <3>1. prov' = "Idle" /\ provActive' = FALSE
      BY <1>9, <2>2 DEF HandBack, StopProvisioning
    <3>2. ~requested
      BY <2>1, <2>2 DEF Ahead, Handed
    <3> QED
      BY <2>1, <3>1, <3>2 DEF Handed
  <2>3. CASE ~provActive
    <3>1. UNCHANGED <<provActive, owner, prov>> /\ prov = "Idle"
      BY <1>9, <2>3 DEF HandBack, Governed, Session
    <3> QED
      BY <2>1, <2>3, <3>1 DEF Handed
  <2> QED
    BY <1>1, <2>2, <2>3
<1>10. ASSUME NEW reason \in Reasons, OnLost(reason) PROVE Handed'
  <2>1. CASE FactoryFails
    BY <1>6, <2>1 DEF FactoryFails
  <2>2. CASE ~FactoryFails
    <3>1. Ahead' => Ahead
      BY <1>2, <1>10, <2>2
         DEF OnLost, Receive, RuntimeLost, BringUpLost, Then, Ahead, sessionVars
    <3> QED
      BY <1>3, <1>10, <2>2, <3>1 DEF OnLost, sessionVars
  <2> QED
    BY <2>1, <2>2
<1> QED
  BY <1>4, <1>5, <1>7, <1>8, <1>9, <1>10 DEF Handler

\* After connect() the manager is not waiting for the end of a disconnect it was asked for.
LEMMA NotRequested ==
  ASSUME Driven, NEW fresh, NEW q
  PROVE  /\ ConnectFallbackInternal(fresh, q) => ~requested'
         /\ ConnectsSaved(fresh, q) /\ (saved > 0 \/ ~requested) => ~requested'
<1>1. ASSUME NEW network, NEW status, ConnectTo(network, status)
      PROVE  ~requested'
  BY <1>1 DEF ConnectTo, Busy, Driven, attemptVars
<1>2. ASSUME NEW status, ConnectSaved(status), saved > 0 \/ ~requested PROVE ~requested'
  BY <1>2, WifiAssumption DEF ConnectSaved, Busy, Driven, attemptVars
<1> QED
  BY <1>1, <1>2 DEF ConnectFallbackInternal, ConnectsSaved, ConnectSavedInternal

LEMMA HandedTimers == ASSUME Governed, Driven, Handed, Timers PROVE Handed'
<1>1. PICK delivered \in BOOLEAN, expired \in BOOLEAN, posted \in BOOLEAN, due \in BOOLEAN :
        Tick(delivered, expired, posted, due)
  BY DEF Timers
<1>2. PolicyTypes
  BY DEF Governed, Typed
<1>3. /\ step' = "receive" /\ delivered => retained
      /\ UNCHANGED <<mode, provActive, prov, been>>
      /\ retained' = (retained /\ ~delivered)
      /\ Among(events', {"linked"}) => Among(events, {"linked"}) \/ delivered
      /\ \/ due /\ reconnect /\ reconnect' = FALSE /\ owner' = "service"
         \/ ~due /\ ServiceIdle /\ UNCHANGED <<reconnect, owner>>
  BY <1>1, <1>2, Ticked
<1>4. Ahead' => Ahead
  BY <1>1, <1>2, Ticked DEF Ahead
<1>5. CASE ServiceIdle /\ UNCHANGED owner
  BY <1>3, <1>4, <1>5 DEF ServiceIdle, attemptVars, driverVars, Handed, Awaited
<1>6. CASE due /\ reconnect /\ owner' = "service"
  <2>1. been /\ ~provActive /\ prov = "Idle" /\ mode \in {"Stationary", "Away"}
    BY <1>2, <1>6 DEF Governed, Session, PolicyTypes
  <2>2. owner = "service" /\ mode = "Stationary"
    BY <1>2, <1>6, <2>1 DEF Governed, Session, PolicyTypes
  <2>3. ~requested
    BY <2>2 DEF Handed
  <2>4. \E q : ConnectsSaved(FALSE, q) \/ ConnectFallbackInternal(FALSE, q)
    BY <1>1, <1>6, DueConnects, Zenon
  <2>5. ~requested'
    BY <2>3, <2>4, NotRequested
  <2> QED
    BY <1>3, <2>1, <2>5 DEF Handed
<1> QED
  BY <1>3, <1>5, <1>6

LEMMA HandedUser == ASSUME Governed, Driven, Handed, Kept', User PROVE Handed'
<1>1. Typed /\ PolicyTypes /\ events \in Seq(OrchestratorEvents) /\ inbox \in Seq(DriverEvents)
  BY DEF Governed, Typed, PolicyTypes, ManagerTypes
<1>2. CASE EnterStationary
  <2>1. /\ mode = "Away" /\ step' = "timers" /\ ~Among(events', {"linked"})
        /\ \/ UNCHANGED <<provActive, retained, prov>>
           \/ Starts
    BY <1>1, <1>2, Entered DEF Kept, Calm
  <2>2. ~provActive /\ prov = "Idle" /\ ~Ahead
    BY <2>1 DEF Governed, Session, CloudInv
  <2>3. CASE Starts
    <3>1. prov' = "Waiting" /\ owner' = "prov" /\ retained' = FALSE
      BY <2>2, <2>3, Started DEF Kept
    <3>2. auto' = "off"
      BY <2>3 DEF Starts, StartProvisioning, DisconnectAnd, ClearAutoState
    <3> QED
      BY <2>1, <3>1, <3>2 DEF Handed, Ahead
  <2>4. CASE ~Starts
    <3>1. UNCHANGED <<provActive, prov>>
      BY <2>1, <2>4
    <3>2. ~requested'
      BY <1>2, <2>4, NotRequested DEF EnterStationary, Starts, ConnectsSaved
    <3> QED
      BY <2>2, <3>1, <3>2 DEF Handed
  <2> QED
    BY <2>3, <2>4
<1>3. CASE UserLeaves
  BY <1>3 DEF UserLeaves, LeaveStationary, Shutdown, Handed
<1>4. CASE SwitchTransport
  <2>1. ~Ahead /\ step' = "timers" /\ UNCHANGED <<retained, mode, auto, requested>>
    <3>1. ~retained /\ ~Told({"linked"}) /\ step = "receive"
      BY <1>4, Unnoted DEF SwitchTransport, Overtaken, Kept, Calm
    <3> QED
      BY <1>1, <1>4, <3>1, ToldAmong DEF Ahead, SwitchTransport, Then, ServiceIdle, attemptVars
  <2>2. Among(events', {"linked"}) => Among(events, {"linked"})
    <3>1. events' \in {events, Append(events, "stopped")}
      BY <1>4 DEF SwitchTransport, SwitchFails
    <3> QED
      BY <1>1, <3>1, KindAppended, OrchestratorKinds
  <2>3. prov' \in {"Waiting", "Idle"} /\ owner' # "service" /\ provActive
    BY <1>4 DEF SwitchTransport, SwitchFails
  <2> QED
    BY <2>1, <2>2, <2>3 DEF Handed, Ahead
<1>5. ASSUME NEW network \in Credentials, HandOverCredentials(network) PROVE Handed'
  <2>1. prov = "Waiting" /\ link = "down" /\ sta = "Disconnected" /\ ~Posted("gotip")
    <3>1. Note(When("resubmit", link # "down" \/ sta # "Disconnected" \/ Posted("gotip")))
      BY <1>5 DEF HandOverCredentials
    <3> QED
      BY <1>5, <3>1, Unnoted DEF HandOverCredentials, Kept
  <2>2. provActive /\ owner = "prov"
    BY <2>1 DEF Governed, Session
  <2>3. auto = "off" /\ ~Ahead
    BY <2>1, <2>2 DEF Handed
  <2>4. PICK status \in {"ok", "busy"} : ConnectTo(network, status)
    BY <1>5, Zenon DEF HandOverCredentials
  <2>5. /\ requested' = FALSE /\ auto' = auto /\ inbox' = inbox
    BY <2>1, <2>3, <2>4 DEF ConnectTo, Busy, Attempt, Join, Keep
  <2>6. ~Has(inbox', "gotip")
    BY <1>1, <2>1, <2>5 DEF Posted, Has
  <2>7. Awaited'
    BY <2>6 DEF Awaited, Settled, Has
  <2>8. /\ prov' \in {"Hung", "Connecting"} /\ events' = events
        /\ UNCHANGED <<mode, step, retained, provActive, owner>>
    BY <1>5, <2>2 DEF HandOverCredentials, policyVars
  <2>9. ~Ahead'
    BY <2>3, <2>8 DEF Ahead
  <2> QED
    BY <2>2, <2>3, <2>5, <2>7, <2>8, <2>9 DEF Handed
<1> QED
  BY <1>2, <1>3, <1>4, <1>5 DEF User

LEMMA HandedStep ==
  ASSUME Governed, Driven, Handed, Kept', [Next]_vars PROVE Handed'
<1>1. CASE UNCHANGED vars
  BY <1>1 DEF vars, managerVars, attemptVars, driverVars, policyVars, sessionVars,
              Handed, Awaited, Ahead
<1> QED
  BY <1>1, HandedDriver, HandedWifi, HandedHandler, HandedTimers, HandedUser DEF Next

\* What the tasks below leave of a manager that nobody asked to disconnect.
LEMMA TaskTries ==
  ASSUME ManagerTypes, ~requested, EventTask \/ TimerTask
  PROVE  \/ sta' # "Disconnected" \/ auto' # "off"
         \/ notice' \in Reasons
         \/ UNCHANGED <<sta, auto>>
<1>1. ASSUME NEW n, NEW reason \in Reasons, NEW q, NEW l, Sweep(n, reason, q, l)
      PROVE  auto' # "off" \/ notice' \in Reasons
  BY <1>1 DEF Sweep, Reasons
<1>2. ASSUME NEW q, NEW l, NEW tries, Attempt(q, l, tries)
      PROVE  sta' # "Disconnected" \/ notice' \in Reasons
  BY <1>2 DEF Attempt, Reasons
<1>3. "hard" \in Reasons /\ "soft" \in Reasons /\ "missing" \in Reasons
  BY DEF Reasons
<1>4. CASE HalConnected \/ HalGotIp
  BY <1>4 DEF HalConnected, HalGotIp
<1>5. CASE HalLost
  <2>1. Head(inbox).reason \in Reasons
    BY <1>5, QueueTypes, EventTypes DEF HalLost, Received, ManagerTypes
  <2>2. UNCHANGED <<sta, auto>> \/ LinkFailed(Head(inbox).reason)
    BY <1>5 DEF HalLost
  <2>3. ASSUME LinkFailed(Head(inbox).reason)
        PROVE  sta' # "Disconnected" \/ auto' # "off" \/ notice' \in Reasons
    BY <1>1, <2>1, <2>3 DEF LinkFailed
  <2> QED
    BY <2>2, <2>3
<1>6. CASE HalScanned
  <2>1. UNCHANGED <<sta, auto>> \/ \E seen \in 0..saved : Sweep(seen, "missing", Tail(inbox), link)
    BY <1>6 DEF HalScanned
  <2> QED
    BY <1>1, <1>3, <2>1
<1>7. CASE DhcpTimeout
  <2>1. \/ UNCHANGED <<sta, auto>> \/ Sweep(left, "hard", EchoTo(inbox), "down")
        \/ notice' = "hard"
    BY <1>7 DEF DhcpTimeout
  <2> QED
    BY <1>1, <1>3, <2>1
<1>8. CASE RetryDue
  <2>1. \/ UNCHANGED <<sta, auto>> \/ Sweep(left + 1, "soft", inbox, link)
        \/ Attempt(inbox, link, retry)
    BY <1>8 DEF RetryDue
  <2> QED
    BY <1>1, <1>2, <1>3, <2>1
<1> QED
  BY <1>4, <1>5, <1>6, <1>7, <1>8 DEF EventTask, TimerTask

\* A reconnect is under way, or its failure is told.
LEMMA ServiceTries ==
  ASSUME NEW fresh, NEW q, ConnectsSaved(fresh, q) \/ ConnectFallbackInternal(fresh, q)
  PROVE  \/ sta' # "Disconnected" \/ auto' # "off"
         \/ \E e \in Reasons : events' = Append(q, e)
<1>1. "soft" \in Reasons /\ "missing" \in Reasons
  BY DEF Reasons
<1>2. ASSUME NEW status, PostAnswer(status, q), status # "ok" \/ notice' = "soft",
             status \in {"ok", "busy", "none", "failed"}, notice' \in {"none", "soft"}
      PROVE  \E e \in Reasons : events' = Append(q, e)
  <2>1. events' = Append(q, "missing") \/ events' = Append(q, "soft")
    BY <1>2 DEF PostAnswer
  <2> QED
    BY <1>1, <2>1
<1>3. CASE ConnectsSaved(fresh, q)
  <2>1. PICK status \in {"ok", "busy", "none", "failed"} :
          ConnectSaved(status) /\ PostAnswer(status, q)
    BY <1>3, Zenon DEF ConnectsSaved, ConnectSavedInternal
  <2>2. status # "ok" \/ notice' = "soft" \/ sta' # "Disconnected" \/ auto' # "off"
    BY <2>1 DEF ConnectSaved, Attempt
  <2> QED
    BY <1>2, <2>1, <2>2, Answered
<1>4. CASE ConnectFallbackInternal(fresh, q)
  <2>1. PICK status \in {"ok", "busy"} :
          ConnectTo("factory", status) /\ PostAnswer(status, q)
    BY <1>4, Zenon DEF ConnectFallbackInternal
  <2>2. status # "ok" \/ notice' = "soft" \/ sta' # "Disconnected"
    BY <2>1 DEF ConnectTo, Attempt
  <2> QED
    BY <1>2, <2>1, <2>2, Answered
<1> QED
  BY <1>3, <1>4

LEMMA TryingWifi ==
  ASSUME Governed, Driven, Handed, Trying, WifiTask PROVE Trying'
<1>1. Typed /\ PolicyTypes /\ ManagerTypes
  BY DEF Governed, Typed
<1>2. UNCHANGED <<mode, step, provActive, owner, reconnect>> /\ (EventTask \/ TimerTask)
  BY <1>1, Heard DEF WifiTask
<1>3. SUFFICES ASSUME mode = "Stationary", ~provActive, been'
               PROVE  sta' # "Disconnected" \/ auto' # "off" \/ reconnect \/ Among(events', Reasons)
  BY <1>2 DEF Trying
<1>4. \A e \in OrchestratorEvents :
        Among(Append(events, e), Reasons) <=> Among(events, Reasons) \/ e \in Reasons
  BY <1>1, KindAppended
<1>5. owner # "prov"
  BY <1>3 DEF Governed, Session
<1>6. CASE HalGotIp
  BY <1>6 DEF HalGotIp
<1>7. CASE /\ owner = "service"
           /\ \E reason \in Reasons : notice' = reason /\ events' = Append(events, reason)
  BY <1>4, <1>7, OrchestratorKinds
<1>8. CASE /\ owner = "service" => notice' = "none"
           /\ UNCHANGED <<been, retained, events>>
  <2>1. owner = "service"
    BY <1>1, <1>3, <1>5, <1>8 DEF Governed, Session, PolicyTypes
  <2>2. ~requested /\ notice' \notin Reasons
    BY <1>3, <1>8, <2>1 DEF Handed, Reasons
  <2>3. sta' # "Disconnected" \/ auto' # "off" \/ UNCHANGED <<sta, auto>>
    BY <1>1, <1>2, <2>2, TaskTries
  <2> QED
    BY <1>3, <1>8, <2>3 DEF Trying
<1> QED
  BY <1>1, <1>6, <1>7, <1>8, Heard

LEMMA TryingHandler == ASSUME Governed, Handed, Trying, Handler PROVE Trying'
<1>1. Typed /\ PolicyTypes /\ events \in Seq(OrchestratorEvents) /\ provActive \in BOOLEAN
  BY DEF Governed, Typed, PolicyTypes
<1>2. events # <<>> =>
        (Among(events, Reasons) <=> Head(events) \in Reasons \/ Among(Tail(events), Reasons))
  BY <1>1, AmongRest
<1>3. ASSUME ServiceIdle, UNCHANGED <<provActive, been, reconnect>>, mode' = mode,
             Among(events, Reasons) => Among(events', Reasons)
      PROVE  Trying'
  BY <1>3 DEF ServiceIdle, attemptVars, Trying
<1>4. CASE OnUp
  BY <1>2, <1>3, <1>4, EventNames DEF OnUp, Receive, latchVars, deadlineVars, sessionVars
<1>5. CASE OnLinked
  BY <1>2, <1>3, <1>5, EventNames DEF OnLinked, Receive, latchVars, deadlineVars, sessionVars
<1>6. CASE OnStopped
  <2>1. CASE LeaveStationary(Tail(events))
    BY <2>1 DEF LeaveStationary, Trying
  <2>2. CASE ~LeaveStationary(Tail(events))
    BY <1>2, <1>3, <1>6, <2>2, EventNames DEF OnStopped, Receive, latchVars, deadlineVars, sessionVars
  <2> QED
    BY <2>1, <2>2
<1>7. CASE OpenProvisioning
  BY <1>7 DEF OpenProvisioning, Starts, StartProvisioning, Governed, Session, Trying
<1>8. CASE HandBack
  <2>1. step = "linked" /\ ServiceIdle /\ UNCHANGED <<mode, been, reconnect>>
    BY <1>8 DEF HandBack, latchVars, deadlineVars
  <2>2. CASE provActive
    <3>1. sta = "GotIp" /\ sta' = sta
      BY <2>1, <2>2 DEF Ahead, Handed, ServiceIdle, attemptVars
    <3> QED
      BY <3>1 DEF Trying
  <2>3. CASE ~provActive
    <3>1. UNCHANGED <<provActive, events>>
      BY <1>8, <2>3 DEF HandBack
    <3> QED
      BY <1>3, <2>1, <3>1
  <2> QED
    BY <1>1, <2>2, <2>3
<1>9. ASSUME NEW reason \in Reasons, OnLost(reason) PROVE Trying'
  <2>1. CASE FactoryFails
    BY <2>1 DEF FactoryFails, Trying
  <2>2. CASE ~FactoryFails
    <3>1. /\ UNCHANGED <<mode, been>>
          /\ mode = "Stationary" /\ been => reconnect' = TRUE
      BY <1>9, <2>2 DEF OnLost, RuntimeLost, latchVars
    <3> QED
      BY <3>1 DEF Trying
  <2> QED
    BY <2>1, <2>2
<1> QED
  BY <1>4, <1>5, <1>6, <1>7, <1>8, <1>9 DEF Handler

LEMMA TryingTimers == ASSUME Governed, Trying, Timers PROVE Trying'
<1>1. PICK delivered \in BOOLEAN, expired \in BOOLEAN, posted \in BOOLEAN, due \in BOOLEAN :
        Tick(delivered, expired, posted, due)
  BY DEF Timers
<1>2. PolicyTypes /\ events \in Seq(OrchestratorEvents)
  BY DEF Governed, Typed, PolicyTypes
<1>3. /\ UNCHANGED <<mode, provActive, been>>
      /\ Among(events, Reasons) => Among(events', Reasons)
      /\ \/ due /\ reconnect /\ reconnect' = FALSE
         \/ ~due /\ ServiceIdle /\ UNCHANGED reconnect
  BY <1>1, <1>2, Ticked
<1>4. CASE ~due
  BY <1>3, <1>4 DEF ServiceIdle, attemptVars, Trying
<1>5. CASE due
  <2>1. PICK q : /\ q \in Seq(OrchestratorEvents)
                 /\ ConnectsSaved(FALSE, q) \/ ConnectFallbackInternal(FALSE, q)
    <3> DEFINE told == IF delivered THEN Append(events, "linked") ELSE events
               q == IF expired /\ posted THEN Append(told, "missing") ELSE told
    <3>1. told \in Seq(OrchestratorEvents)
      BY <1>2, OrchestratorQueue, OrchestratorKinds
    <3>2. q \in Seq(OrchestratorEvents)
      BY <3>1, OrchestratorQueue, OrchestratorKinds
    <3>3. ConnectsSaved(FALSE, q) \/ ConnectFallbackInternal(FALSE, q)
      BY <1>1, <1>5, DueConnects
    <3> HIDE DEF q
    <3> QED
      BY <3>2, <3>3
  <2>2. ASSUME NEW e \in Reasons, events' = Append(q, e) PROVE Among(events', Reasons)
    BY <2>1, <2>2, AmongAppended, OrchestratorKinds
  <2>3. sta' # "Disconnected" \/ auto' # "off" \/ Among(events', Reasons)
    BY <2>1, <2>2, ServiceTries
  <2> QED
    BY <2>3 DEF Trying
<1> QED
  BY <1>4, <1>5

LEMMA TryingUser == ASSUME Governed, Kept', Trying, User PROVE Trying'
<1>1. PolicyTypes
  BY DEF Governed, Typed
<1>2. CASE EnterStationary
  <2>1. been' = FALSE \/ Starts
    BY <1>1, <1>2, Entered
  <2>2. mode = "Away"
    BY <1>2 DEF EnterStationary
  <2>3. Starts => been' = been
    BY DEF Starts, StartProvisioning
  <2> QED
    BY <2>1, <2>2, <2>3 DEF Governed, Session, Trying
<1>3. CASE UserLeaves
  BY <1>3 DEF UserLeaves, LeaveStationary, Trying
<1>4. CASE SwitchTransport
  <2>1. ~retained /\ ~Told({"linked"}) /\ step = "receive" /\ provActive /\ been' = been
    BY <1>4, Unnoted DEF SwitchTransport, Overtaken, Kept, Calm, latchVars
  <2>2. ~been
    BY <1>1, <2>1, ToldAmong DEF Ahead, Governed, Session
  <2> QED
    BY <2>1, <2>2 DEF Trying
<1>5. ASSUME NEW network \in Credentials, HandOverCredentials(network) PROVE Trying'
  <2>1. provActive /\ provActive' = provActive
    BY <1>5 DEF HandOverCredentials, Governed, Session
  <2> QED
    BY <2>1 DEF Trying
<1> QED
  BY <1>2, <1>3, <1>4, <1>5 DEF User

LEMMA TryingStep ==
  ASSUME Governed, Driven, Handed, Kept', Trying, [Next]_vars PROVE Trying'
<1>1. CASE UNCHANGED vars
  BY <1>1 DEF vars, managerVars, attemptVars, policyVars, latchVars, deadlineVars, sessionVars, Trying
<1>2. CASE Driver
  BY <1>2 DEF Driver, DriverAnswers, LinkSettles, Associates, GetsIp, LinkLost, LinkStep, ScanEnds,
              Unheard, policyVars, latchVars, deadlineVars, sessionVars, attemptVars, Trying
<1> QED
  BY <1>1, <1>2, TryingWifi, TryingHandler, TryingTimers, TryingUser DEF Next

Watched == Driven /\ Sighted /\ Handed /\ Trying

\* "Runtime: never provision, never give up": in Stationary a device that has been online is
\* online with the service listening, or is connecting, or has a reconnect or the event that
\* will schedule one ahead of it, whatever the driver refuses or loses and whichever task
\* comes first (go_wifi.cpp, on_wifi_disconnected and tick();
\* wifi_manager.cpp, the retry timer and the DHCP watchdog).
\* Six kinds of mishap break it, each of which a link of this chain does not provide for.
THEOREM AlwaysSupervised == Spec => []Supervised
<1> DEFINE WatchedWhileKept == Driven /\ (Kept => Watched)
<1>1. Init => WatchedWhileKept
  BY DrivenInit, AmongNothing
     DEF Init, ManagerInit, Asleep, Watched, Sighted, Handed, Trying, Ahead
<1>2. ASSUME GovernedWhileCalm, WatchedWhileKept, [Next]_vars PROVE WatchedWhileKept'
  <2>1. Typed /\ Driven /\ Driven'
    BY <1>2, DrivenStep DEF GovernedWhileCalm
  <2>2. CASE FactoryFails
    BY <2>1, <2>2 DEF FactoryFails, Watched, Sighted, Handed, Trying
  <2>3. ASSUME ~FactoryFails, Kept' PROVE Watched'
    <3>1. Kept /\ "late" \notin mishaps'
      BY <1>2, <2>3, Grows DEF Kept, Calm
    <3>2. Governed /\ Watched
      BY <1>2, <3>1 DEF GovernedWhileCalm, Kept
    <3> QED
      BY <1>2, <2>1, <2>3, <3>1, <3>2, SightedStep, HandedStep, TryingStep DEF Watched
  <2> QED
    BY <2>1, <2>2, <2>3
<1>3. Spec => []GovernedWhileCalm
  BY AlwaysGoverned
<1>4. Governed /\ Watched => Supervised
  <2>1. SUFFICES ASSUME Governed, Watched, mode = "Stationary", been, ~provActive,
                        ~reconnect, ~Told(Reasons)
                 PROVE  /\ owner = "service"
                        /\ \/ sta = "GotIp" /\ (link = "up" \/ inbox # <<>>)
                           \/ sta \in {"Connecting", "Connected"} \/ auto # "off"
    BY DEF Supervised
  <2>2. owner = "service"
    BY <2>1 DEF Governed, Session, Typed, PolicyTypes
  <2>3. sta # "Disconnected" \/ auto # "off"
    BY <2>1, ToldAmong DEF Governed, Typed, Watched, Trying
  <2>4. sta = "GotIp" => link = "up" \/ inbox # <<>>
    <3>1. ~Has(<<>>, "lost")
      <4>1. Len(<<>>) = 0 /\ 1..0 = {}
        OBVIOUS
      <4> QED
        BY <4>1 DEF Has
    <3> QED
      BY <2>1, <3>1 DEF Watched, Sighted
  <2> QED
    BY <2>1, <2>2, <2>3, <2>4 DEF Governed, Typed, ManagerTypes, Stas
<1>5. GovernedWhileCalm /\ WatchedWhileKept => Supervised
  BY <1>4, SparedKept DEF GovernedWhileCalm, Kept, Supervised
<1> HIDE DEF WatchedWhileKept
<1> QED
  BY <1>1, <1>2, <1>3, <1>5, PTL DEF Spec

-----------------------------------------------------------------------------
(* What is stored as verified.                                              *)

\* While a session has the manager, only the session asks it to connect; and the attempt that
\* it awaits is for the credentials it was handed.
Lent ==
  /\ provActive <=> prov # "Idle"
  /\ provActive => mode = "Stationary" /\ step # "failing" /\ ~reconnect /\ auto = "off"
  /\ step = "failing" => mode = "Stationary"
  /\ prov = "Connecting" => pending = target

\* A step of the manager that no caller asked for leaves the target alone and begins no sweep.
LEMMA UnaskedTarget ==
  ASSUME DriverPosts \/ EventTask \/ TimerTask \/ Idles
  PROVE  target' = target /\ (auto = "off" => auto' = "off")
<1>1. CASE DriverPosts \/ Idles
  BY <1>1 DEF DriverPosts, Idles, Associates, GetsIp, LinkLost, LinkStep, ScanEnds, attemptVars
<1>2. CASE EventTask
  BY <1>2 DEF EventTask, HalConnected, HalGotIp, HalLost, LinkFailed, HalScanned
<1>3. CASE TimerTask
  BY <1>3 DEF TimerTask, DhcpTimeout, RetryDue, Attempt
<1> QED
  BY <1>1, <1>2, <1>3

LEMMA LentBelow == ASSUME Typed, Lent, Driver \/ WifiTask PROVE Lent'
<1>1. target' = target /\ (auto = "off" => auto' = "off")
  BY UnaskedTarget DEF Driver, DriverAnswers, LinkSettles, DriverPosts, LinkLost, WifiTask
<1>2. CASE Driver
  BY <1>1, <1>2 DEF Driver, DriverAnswers, Unheard, policyVars, deadlineVars, sessionVars, Lent
<1>3. CASE WifiTask
  <2>1. UNCHANGED <<mode, step, reconnect, provActive, pending>>
    BY <1>3, Heard
  <2>2. prov' = prov \/ (prov = "Connecting" /\ prov' \in {"Connected", "Waiting"})
    BY <1>3, Heard
  <2> QED
    BY <1>1, <2>1, <2>2 DEF Lent
<1> QED
  BY <1>2, <1>3

\* A session begins, or one that does not start leaves none.
LEMMA LentStart ==
  ASSUME Lent, Starts, mode' = "Stationary", step' # "failing" PROVE Lent'
<1>1. auto' = "off" /\ reconnect' = FALSE /\ UNCHANGED <<target, pending>>
  BY DEF Starts, StartProvisioning, DisconnectAnd, ClearAutoState
<1>2. \/ prov' = "Waiting" /\ provActive' = TRUE
      \/ UNCHANGED <<prov, provActive>>
      \/ prov # "Idle" /\ prov' = "Waiting" /\ UNCHANGED provActive
  BY DEF Starts, StartProvisioning
<1> QED
  BY <1>1, <1>2 DEF Lent

LEMMA LentEnd ==
  ASSUME prov' = "Idle", provActive' = FALSE, step' # "failing" PROVE Lent'
BY DEF Lent

LEMMA LentIdle ==
  ASSUME Lent, ServiceIdle, UNCHANGED <<mode, reconnect, provActive, prov, pending>>,
         step' # "failing"
  PROVE  Lent'
BY DEF Lent, ServiceIdle, attemptVars

LEMMA LentHandler == ASSUME Typed, Lent, "stale" \notin mishaps', Handler PROVE Lent'
<1>1. CASE OnUp \/ OnLinked
  BY <1>1, LentIdle DEF OnUp, OnLinked, Then, sessionVars, deadlineVars
<1>2. CASE OnStopped
  <2>1. LeaveStationary(Tail(events)) => Lent'
    BY LentEnd DEF LeaveStationary, Shutdown, Then
  <2> QED
    BY <1>2, <2>1, LentIdle DEF OnStopped, Then, sessionVars, deadlineVars
<1>3. CASE OpenProvisioning
  BY <1>3, LentStart DEF OpenProvisioning, Starts, Then, Lent
<1>4. CASE HandBack
  BY <1>4, LentEnd, LentIdle DEF HandBack, StopProvisioning, Then, deadlineVars
<1>5. ASSUME NEW reason \in Reasons, OnLost(reason) PROVE Lent'
  <2>1. CASE FactoryFails
    BY <2>1, LentEnd DEF FactoryFails, Then
  <2>2. CASE ~FactoryFails
    <3>1. ServiceIdle /\ UNCHANGED <<mode, provActive, prov, pending>>
      BY <1>5, <2>2 DEF OnLost, sessionVars
    <3>2. CASE mode = "Stationary"
      <4>1. ~provActive
        <5>1. Note(When("stale", mode = "Stationary" /\ provActive))
          BY <1>5, <2>2 DEF OnLost
        <5> QED
          BY <3>2, <5>1, Unnoted
      <4> QED
        BY <3>1, <3>2, <4>1 DEF Lent, ServiceIdle, attemptVars
    <3>3. CASE mode # "Stationary"
      BY <1>5, <2>2, <3>1, <3>3, LentIdle DEF OnLost, Then
    <3> QED
      BY <3>2, <3>3
  <2> QED
    BY <2>1, <2>2
<1> QED
  BY <1>1, <1>2, <1>3, <1>4, <1>5 DEF Handler

LEMMA LentTimers == ASSUME Typed, Lent, Timers PROVE Lent'
<1>1. PICK delivered \in BOOLEAN, expired \in BOOLEAN, posted \in BOOLEAN, due \in BOOLEAN :
        Tick(delivered, expired, posted, due)
  BY DEF Timers
<1>2. step' = "receive" /\ UNCHANGED <<mode, provActive, prov, pending>>
  BY <1>1 DEF Tick, Then
<1>3. (ServiceIdle /\ UNCHANGED reconnect) \/ reconnect
  BY <1>1 DEF Tick
<1>4. CASE reconnect
  BY <1>2, <1>4 DEF Lent
<1> QED
  BY <1>2, <1>3, <1>4, LentIdle

LEMMA LentUser == ASSUME Typed, Lent, "resubmit" \notin mishaps', User PROVE Lent'
<1>1. CASE EnterStationary
  <2>1. mode = "Away" /\ mode' = "Stationary" /\ step' = "timers"
    BY <1>1, Entered DEF Typed
  <2>2. UNCHANGED <<provActive, prov>> \/ Starts
    BY <1>1, Entered DEF Typed
  <2> QED
    BY <2>1, <2>2, LentStart DEF Lent
<1>2. CASE UserLeaves
  BY <1>2, LentEnd DEF UserLeaves, LeaveStationary, Shutdown, Then
<1>3. CASE SwitchTransport
  BY <1>3 DEF SwitchTransport, SwitchFails, Then, ServiceIdle, attemptVars, deadlineVars, Lent
<1>4. ASSUME NEW network \in Credentials, HandOverCredentials(network) PROVE Lent'
  <2>1. /\ prov = "Waiting" /\ prov' \in {"Hung", "Connecting"} /\ sta = "Disconnected"
        /\ pending' = network /\ UNCHANGED <<mode, step, provActive, reconnect>>
    <3>1. Note(When("resubmit", link # "down" \/ sta # "Disconnected" \/ Posted("gotip")))
      BY <1>4 DEF HandOverCredentials
    <3>2. sta = "Disconnected"
      BY <3>1, Unnoted
    <3> QED
      BY <1>4, <3>2 DEF HandOverCredentials, policyVars, deadlineVars
  <2>2. auto = "off"
    BY <2>1 DEF Lent
  <2>3. PICK status \in {"ok", "busy"} : ConnectTo(network, status)
    BY <1>4, Zenon DEF HandOverCredentials
  <2>4. target' = network /\ auto' = "off"
    BY <2>1, <2>2, <2>3 DEF ConnectTo, Busy, Attempt
  <2> QED
    BY <2>1, <2>2, <2>4 DEF Lent
<1> QED
  BY <1>1, <1>2, <1>3, <1>4 DEF User

LEMMA LentStep ==
  ASSUME Typed, Lent, "stale" \notin mishaps', "resubmit" \notin mishaps', [Next]_vars PROVE Lent'
<1>1. CASE UNCHANGED vars
  BY <1>1 DEF vars, managerVars, attemptVars, policyVars, deadlineVars, sessionVars, Lent
<1> QED
  BY <1>1, LentBelow, LentHandler, LentTimers, LentUser DEF Next

\* A session is told of an address only while it awaits the one it asked for.
LEMMA LentLinked ==
  ASSUME Typed, Lent, [Next]_vars, prov # "Connected", prov' = "Connected"
  PROVE  pending = target
<1>1. prov = "Connecting"
  <2>1. CASE UNCHANGED vars
    BY <2>1 DEF vars, sessionVars
  <2>2. CASE Driver
    BY <2>2 DEF Driver, DriverAnswers, Unheard, sessionVars
  <2>3. CASE WifiTask
    BY <2>3, Heard
  <2>4. ASSUME NEW q, LeaveStationary(q) PROVE FALSE
    BY <2>4 DEF LeaveStationary, Shutdown
  <2>5. ASSUME Starts PROVE FALSE
    BY <2>5 DEF Starts, StartProvisioning
  <2>6. CASE Handler
    <3>1. ASSUME NEW reason \in Reasons, OnLost(reason) PROVE FALSE
      BY <3>1 DEF OnLost, FactoryFails, sessionVars
    <3> QED
      BY <2>4, <2>5, <2>6, <3>1, Opens
         DEF Handler, OnUp, OnLinked, OnStopped, HandBack, StopProvisioning, sessionVars
  <2>7. CASE Timers
    BY <2>7 DEF Timers, Tick
  <2>8. CASE User
    <3>1. ASSUME NEW network \in Credentials, HandOverCredentials(network) PROVE FALSE
      BY <3>1 DEF HandOverCredentials
    <3>2. ~EnterStationary
      BY <2>5, Entered DEF Typed
    <3> QED
      BY <2>4, <2>8, <3>1, <3>2 DEF User, UserLeaves, SwitchTransport, SwitchFails
  <2> QED
    BY <2>1, <2>2, <2>3, <2>6, <2>7, <2>8 DEF Next
<1> QED
  BY <1>1 DEF Lent

\* The credentials stored as verified are those the device connected with, until one of two
\* mishaps has the answer to one network taken for another's: a second hand-over during an
\* attempt, and a failure told again that lets the service connect on the session's behalf
\* (provisioning_manager.cpp, _accept_credentials() and _on_sta_connected()).
THEOREM VerifiedUnlessResubmitted ==
  Spec => [][ prov # "Connected" /\ prov' = "Connected" /\ Spared({"stale", "resubmit"})
                => pending = target ]_vars
<1> DEFINE LentUnless == Spared({"stale", "resubmit"}) => Lent
<1>1. Init => Typed /\ LentUnless
  BY TypesInit DEF Init, ManagerInit, Asleep, Lent
<1>2. ASSUME Typed, LentUnless, [Next]_vars PROVE Typed' /\ LentUnless'
  <2>1. FactoryFails => Lent'
    BY LentEnd DEF FactoryFails, Then
  <2>2. ASSUME ~FactoryFails, Spared({"stale", "resubmit"})' PROVE Lent'
    BY <1>2, <2>2, Grows, LentStep DEF Spared
  <2> QED
    BY <1>2, <2>1, <2>2, TypesStep
<1>3. Typed /\ LentUnless /\ [Next]_vars =>
        [ prov # "Connected" /\ prov' = "Connected" /\ Spared({"stale", "resubmit"})
            => pending = target ]_vars
  BY LentLinked
<1> HIDE DEF LentUnless
<1> QED
  BY <1>1, <1>2, <1>3, PTL DEF Spec

=============================================================================
