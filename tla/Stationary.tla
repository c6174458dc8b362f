------------------------------- MODULE Stationary -------------------------------
(***************************************************************************)
(* Stationary mode: WifiManager under WifiService (go_wifi.cpp), the       *)
(* provisioning session that borrows its callbacks                         *)
(* (provisioning_manager.cpp), and the policy of the orchestrator          *)
(* (go_orchestrator.cpp) that decides between connecting, reconnecting and *)
(* provisioning.                                                           *)
(*                                                                         *)
(* The orchestrator receives one event, handles it, then looks at the      *)
(* timers.  Two of its handlers paint and wait in the middle: "failing"    *)
(* before provisioning opens and "linked" before it is handed back; the    *)
(* other tasks run meanwhile.  Timers carry no time: an armed one may be   *)
(* due whenever the orchestrator looks.  The events that only change what  *)
(* the provisioning page says (Started, Connecting, ConnectFailed) are     *)
(* left out, and so are scans for that page and a mode change that the     *)
(* settings refuse.                                                        *)
(***************************************************************************)
EXTENDS WifiManager, FiniteSets

CONSTANTS
  EventBound,   \* bound: Wi-Fi and provisioning events queued for the orchestrator
  MaxTrials     \* bound: times Stationary is entered and kinds of mishap, together

VARIABLES
  mode,         \* _mode: "Stationary", or "Away" for Portable and Offline
  factory,      \* _manufacturing_mode
  page,         \* "info" while the bring-up is pending, "provisioning", or "home"
  cloud,        \* the cloud client is armed
  step,         \* where the orchestrator's loop is
  events,       \* its queue, of these events
  sessions,     \* times Stationary mode was entered
  online,       \* _online
  been,         \* _has_been_online
  window,       \* _initial_connect_deadline_ms is armed
  clearWindow,  \* _clear_deadline_pending
  reconnect,    \* _reconnect_at_ms is armed
  provActive,   \* _provisioning_active
  retained,     \* _provisioning_connected_event_pending
  owner,        \* whose callbacks the manager holds: "service", "prov" or "none"
  prov,         \* ProvisioningManager::_state, or "Hung" in its own callback
  pending,      \* _pending_data: whose network the user handed over
  mishaps       \* history: the kinds of mishap since the last restart

policyVars == <<mode, factory, page, cloud, step, sessions>>
latchVars == <<online, been>>
deadlineVars == <<window, clearWindow, reconnect>>
sessionVars == <<provActive, retained, owner, prov, pending>>
vars == <<managerVars, policyVars, events, latchVars, deadlineVars, sessionVars, mishaps>>

ASSUME StationaryAssumption ==
  EventBound \in Nat \ {0} /\ MaxTrials \in Nat

\* What the code does not provide for, told apart so that a property can say what it stands:
\*   "drop"      the link is lost, or started over by the retry timer of an attempt that has
\*               ended, while provisioning still owns the callbacks;
\*   "late"      an address meets the end of the attempt it is for;
\*   "stale"     a failure of the bring-up is told twice, the second time into the session
\*               that the first one opened;
\*   "overtake"  an input is handled before a success of provisioning that is queued, or
\*               Stationary is entered before the events of the time before are handled;
\*   "start"     a first provisioning session does not start;
\*   "scan"      the driver refuses the scan that a bring-up begins with;
\*   "resubmit"  credentials are handed over while an earlier attempt is under way.
Kinds == {"drop", "late", "stale", "overtake", "start", "scan", "resubmit"}

When(kind, condition) == IF condition THEN {kind} ELSE {}
Note(kinds) ==
  /\ mishaps' = mishaps \cup kinds
  /\ kinds \subseteq mishaps \/ sessions + Cardinality(mishaps') <= MaxTrials

Asleep ==
  /\ mode = "Away" /\ factory = FALSE /\ page = "home" /\ cloud = FALSE /\ step = "receive"
  /\ events = <<>>
  /\ online = FALSE /\ been = FALSE
  /\ window = FALSE /\ clearWindow = FALSE /\ reconnect = FALSE
  /\ provActive = FALSE /\ retained = FALSE
  /\ owner = "service" /\ prov = "Idle" /\ pending = "saved"
  /\ mishaps = {}

Init == ManagerInit /\ Asleep /\ sessions = 0

-----------------------------------------------------------------------------
(* What the owner of the callbacks does with a notice of the manager.       *)

\* _on_got_ip() and _on_disconnected() of the service.
ServiceHears(n) ==
  /\ CASE n = "ip"   -> online' = TRUE /\ been' = TRUE /\ clearWindow' = TRUE
                        /\ events' = Append(events, "up")
       [] n = "user" -> online' = FALSE /\ UNCHANGED <<been, clearWindow, events>>
       [] OTHER      -> online' = FALSE /\ events' = Append(events, n)
                        /\ UNCHANGED <<been, clearWindow>>
  /\ UNCHANGED <<saved, retained, prov>>

\* _on_sta_connected() of provisioning, and what the service makes of Connected: the
\* network is stored if it can be, and the event retained when the queue has no room.
ProvisioningLinked ==
  /\ prov' = "Connected"
  /\ saved' \in {saved, IF saved < MaxSaved THEN saved + 1 ELSE saved}
  /\ online' = TRUE /\ been' = TRUE
  /\ \/ events' = Append(events, "linked") /\ UNCHANGED retained
     \/ retained' = TRUE /\ UNCHANGED events
  /\ UNCHANGED clearWindow

\* _on_sta_connected() and _on_sta_disconnected(): heard only while an attempt is on.
ProvisioningHears(n) ==
  IF prov = "Connecting" /\ n = "ip" THEN ProvisioningLinked
  ELSE /\ prov' = IF prov = "Connecting" THEN "Waiting" ELSE prov
       /\ UNCHANGED <<saved, latchVars, clearWindow, events, retained>>

Hears(n) ==
  CASE n # "none" /\ owner = "service" -> ServiceHears(n)
    [] n # "none" /\ owner = "prov" -> ProvisioningHears(n)
    [] OTHER -> UNCHANGED <<saved, latchVars, clearWindow, events, retained, prov>>

-----------------------------------------------------------------------------
(* The tasks below the orchestrator.                                        *)

\* The link is up and not yet the service's to look after.
HandingOver == link = "up" /\ provActive

Unheard == UNCHANGED <<saved, policyVars, events, latchVars, deadlineVars, sessionVars>>

\* The driver answers what it was asked, and more.
DriverAnswers == (LinkSettles \/ ScanEnds) /\ Unheard /\ UNCHANGED mishaps
Driver ==
  \/ DriverAnswers
  \/ GetsIp /\ Unheard /\ UNCHANGED mishaps
  \/ /\ \E reason \in Reasons : LinkLost(reason)
     /\ Unheard
     /\ Note(When("drop", HandingOver))

Told(S) == \E i \in DOMAIN events : events[i] \in S

\* The bring-up has failed, and provisioning is about to be opened.
GivenUp == page = "info" /\ ~been /\ (step = "failing" \/ Told({"hard", "missing"}))

WifiTask ==
  /\ Len(events) < EventBound
  /\ \/ EventTask /\ Note(When("late", GivenUp /\ Received("gotip")))
     \/ /\ TimerTask
        /\ Note(When("late", dhcpTimer /\ ~dhcpTimer' /\ Posted("gotip"))
                  \cup When("drop", HandingOver /\ sta = "Connecting"))
  /\ Hears(notice')
  /\ UNCHANGED <<policyVars, window, reconnect, provActive, owner, pending>>

\* _accept_credentials(), on the BLE or the httpd task: connect() is called with the
\* session's mutex held, and its answer is not looked at.
HandOverCredentials(network) ==
  /\ prov = "Waiting" /\ Room
  /\ Note(When("resubmit", link # "down" \/ sta # "Disconnected" \/ Posted("gotip")))
  /\ pending' = network
  /\ \E status \in {"ok", "busy"} : ConnectTo(network, status)
  /\ IF notice' # "none" /\ owner = "service"
       THEN online' = FALSE /\ events' = Append(events, notice')
       ELSE UNCHANGED <<online, events>>
  /\ prov' = IF notice' # "none" /\ owner = "prov" THEN "Hung" ELSE "Connecting"
  /\ UNCHANGED <<saved, policyVars, been, deadlineVars, provActive, retained, owner>>

-----------------------------------------------------------------------------
(* WifiService, called by the orchestrator.  "q" is the queue so far.       *)

\* _post_wifi_disconnected() for what connect() answered or reported.
\* Broken variant: only a missing network is posted.
PostMissingOnly(status, q) == events' = IF status = "none" THEN Append(q, "missing") ELSE q

PostAnswer(status, q) ==
  events' = CASE status = "none" -> Append(q, "missing")
              [] status \in {"busy", "failed"} -> Append(q, "soft")
              [] notice' # "none" -> Append(q, notice')
              [] OTHER -> q

ServiceTakes(fresh) ==
  /\ owner' = "service" /\ clearWindow' = FALSE
  /\ online' = (online /\ ~fresh /\ notice' = "none")
  /\ been' = (been /\ ~fresh)

\* _connect_saved_internal()
ConnectSavedInternal(fresh, q, kinds) ==
  \E status \in {"ok", "busy", "none", "failed"} :
    /\ ConnectSaved(status)
    /\ Note(kinds \cup When("scan", fresh /\ status = "failed"))
    /\ ServiceTakes(fresh) /\ PostAnswer(status, q)
    /\ window' = (fresh /\ status = "ok")

\* _connect_fallback_internal(): the window is armed whatever the driver answers.
ConnectFallbackInternal(fresh, q) ==
  \E status \in {"ok", "busy"} :
    /\ ConnectTo("factory", status)
    /\ ServiceTakes(fresh) /\ PostAnswer(status, q)
    /\ window' = fresh

\* start_provisioning(): any attempt is cancelled, then the session takes the callbacks, or
\* does not start and says nothing.
StartProvisioning(kinds) ==
  /\ DisconnectAnd(FALSE)
  /\ online' = (online /\ ~(notice' = "user" /\ owner = "service"))
  /\ retained' = FALSE
  /\ window' = FALSE /\ clearWindow' = FALSE /\ reconnect' = FALSE
  /\ \/ /\ prov = "Idle" /\ prov' = "Waiting" /\ owner' = "prov" /\ provActive' = TRUE
        /\ Note(kinds)
     \/ /\ prov = "Idle" /\ Note(kinds \cup {"start"})
        /\ owner' \in {owner, "none"}
        /\ UNCHANGED <<prov, provActive>>
     \/ /\ prov # "Idle" /\ Note(kinds)
        /\ prov' = IF notice' = "user" /\ owner = "prov" /\ prov = "Connecting" THEN "Waiting"
                     ELSE prov
        /\ UNCHANGED <<owner, provActive>>
  /\ UNCHANGED <<saved, been, events, pending>>

\* shutdown(): the session's Stopped event is posted before the latches are reset.
Shutdown(q) ==
  /\ prov # "Hung"
  /\ DisconnectAnd(TRUE)
  /\ retained' = FALSE
  /\ window' = FALSE /\ clearWindow' = FALSE /\ reconnect' = FALSE
  /\ prov' = "Idle" /\ provActive' = FALSE /\ owner' = "none"
  /\ events' = IF provActive THEN Append(q, "stopped") ELSE q
  /\ online' = FALSE /\ been' = FALSE
  /\ UNCHANGED <<saved, pending>>

-----------------------------------------------------------------------------
(* The orchestrator.                                                        *)

Then(next) == step' = next
ServiceIdle == Quiet /\ UNCHANGED <<saved, attemptVars, timerVars, driverVars>>
\* An input may be queued ahead of a provisioning success, or overtake a retained one.
Overtaken == retained \/ Told({"linked"})
Receive(event) == step = "receive" /\ events # <<>> /\ Head(events) = event

\* enter_stationary(); manufacturing mode lasts until a restart.
EnterStationary ==
  LET overtaken == When("overtake", events # <<>>) IN
  /\ step = "receive" /\ mode = "Away"
  /\ sessions' = sessions + 1
  /\ mode' = "Stationary" /\ Then("timers")
  /\ \/ /\ factory' = TRUE /\ page' = "info"
        /\ ConnectFallbackInternal(TRUE, events) /\ Note(overtaken)
        /\ UNCHANGED <<saved, reconnect, provActive, retained, prov, pending>>
     \/ /\ saved > 0 /\ ~factory /\ page' = "info"
        /\ ConnectSavedInternal(TRUE, events, overtaken)
        /\ UNCHANGED <<factory, saved, reconnect, provActive, retained, prov, pending>>
     \/ /\ saved = 0 /\ ~factory /\ page' = "provisioning"
        /\ StartProvisioning(overtaken) /\ UNCHANGED factory
  /\ sessions' + Cardinality(mishaps') <= MaxTrials
  /\ UNCHANGED cloud

\* apply_mode_transition() out of Stationary: the menu, a cancelled setup, or Stopped.
LeaveStationary(q) ==
  /\ Shutdown(q)
  /\ mode' = "Away" /\ page' = "home" /\ cloud' = FALSE
  /\ Then("timers")
  /\ UNCHANGED <<factory, sessions>>

UserLeaves ==
  /\ step = "receive" /\ mode = "Stationary" /\ page # "info" /\ Room
  /\ LeaveStationary(events)
  /\ Note(When("overtake", Overtaken))

\* Broken variant: an event that outlived its session is acted upon.
HeedsUpLate == ~provActive

HeedsUp == mode = "Stationary" /\ ~provActive

\* on_wifi_connected()
OnUp ==
  /\ Receive("up") /\ events' = Tail(events) /\ Then("timers")
  /\ IF HeedsUp
       THEN page' = (IF page = "info" THEN "home" ELSE page) /\ cloud' = TRUE
       ELSE UNCHANGED <<page, cloud>>
  /\ ServiceIdle
  /\ UNCHANGED <<mode, factory, sessions, latchVars, deadlineVars, sessionVars, mishaps>>

\* A factory session that did not come online shows it and reboots.
FactoryFails ==
  /\ prov # "Hung"
  /\ mode' = "Away" /\ factory' = FALSE /\ page' = "home" /\ cloud' = FALSE /\ Then("receive")
  /\ events' = <<>> /\ online' = FALSE /\ been' = FALSE
  /\ window' = FALSE /\ clearWindow' = FALSE /\ reconnect' = FALSE
  /\ provActive' = FALSE /\ retained' = FALSE
  /\ owner' = "service" /\ prov' = "Idle" /\ pending' = "saved"
  /\ target' = "saved" /\ budget' = 0 /\ retry' = 0 /\ sta' = "Disconnected"
  /\ auto' = "off" /\ left' = 0 /\ requested' = FALSE /\ swallow' = FALSE
  /\ retryTimer' = FALSE /\ dhcpTimer' = FALSE
  /\ link' = "down" /\ scanning' = FALSE /\ inbox' = <<>> /\ Quiet
  /\ mishaps' = {}
  /\ UNCHANGED <<saved, sessions>>

\* on_wifi_disconnected(): runtime reconnects, the bring-up falls back to provisioning.
\* Broken variant: a network that rejects the device is not tried again.
RuntimeLostRetriable(reason) == reconnect' = (reason # "hard") /\ Then("timers")

RuntimeLost(reason) == reconnect' = TRUE /\ Then("timers")
BringUpLost(reason) ==
  /\ Then(IF reason \in {"hard", "missing"} THEN "failing" ELSE "timers")
  /\ UNCHANGED reconnect

OnLost(reason) ==
  /\ Receive(reason)
  /\ IF mode = "Stationary" /\ ~been /\ factory /\ ~(window /\ ~online)
       THEN FactoryFails
       ELSE /\ events' = Tail(events)
            /\ cloud' = (cloud /\ mode # "Stationary")
            /\ CASE mode # "Stationary" -> Then("timers") /\ UNCHANGED reconnect
                 [] mode = "Stationary" /\ been -> RuntimeLost(reason)
                 [] mode = "Stationary" /\ ~been /\ factory -> Then("timers") /\ UNCHANGED reconnect
                 [] OTHER -> BringUpLost(reason)
            /\ ServiceIdle /\ Note(When("stale", mode = "Stationary" /\ provActive))
            /\ UNCHANGED <<mode, factory, page, sessions, latchVars, window, clearWindow,
                           sessionVars>>

\* The failure has been shown: enter_provisioning_page().
OpenProvisioning ==
  /\ step = "failing" /\ Then("timers")
  /\ page' = "provisioning"
  /\ StartProvisioning({})
  /\ UNCHANGED <<mode, factory, cloud, sessions>>

\* ProvisioningEvent::Connected, up to the success page.
OnLinked ==
  /\ Receive("linked") /\ events' = Tail(events) /\ Then("linked")
  /\ ServiceIdle
  /\ UNCHANGED <<mode, factory, page, cloud, sessions, latchVars, deadlineVars, sessionVars,
                 mishaps>>

\* Broken variant: the callbacks are left to nobody.
StopProvisioningDetached(q) ==
  /\ prov # "Hung"
  /\ prov' = "Idle" /\ provActive' = FALSE /\ owner' = "none"
  /\ events' = Append(q, "stopped")

\* stop_provisioning() of an active session: the service takes its callbacks back.
StopProvisioning(q) ==
  /\ prov # "Hung"
  /\ prov' = "Idle" /\ provActive' = FALSE /\ owner' = "service"
  /\ events' = Append(q, "stopped")

\* The rest of it: stop_provisioning() gives the callbacks back, then home and the cloud.
HandBack ==
  /\ step = "linked" /\ Then("timers")
  /\ page' = "home" /\ cloud' = TRUE
  /\ IF provActive
       THEN StopProvisioning(events)
       ELSE UNCHANGED <<prov, provActive, owner, events>>
  /\ ServiceIdle
  /\ UNCHANGED <<mode, factory, sessions, latchVars, deadlineVars, retained, pending, mishaps>>

\* ProvisioningEvent::Stopped: without a success the device goes back to Portable.
OnStopped ==
  /\ Receive("stopped") /\ UNCHANGED mishaps
  /\ IF ~been /\ mode = "Stationary"
       THEN LeaveStationary(Tail(events))
       ELSE /\ events' = Tail(events) /\ Then("timers")
            /\ ServiceIdle
            /\ UNCHANGED <<mode, factory, page, cloud, sessions, latchVars, deadlineVars,
                           sessionVars>>

\* Broken variant: the session ends without a word.
SwitchFailsSilently == prov' = "Idle" /\ owner' = "none" /\ provActive' = FALSE /\ UNCHANGED events

\* The other transport does not start: a Stopped is made up for the orchestrator.
SwitchFails ==
  /\ prov' = "Idle" /\ owner' = "none" /\ provActive' = FALSE
  /\ events' = Append(events, "stopped")

\* switch_provisioning_transport(), on the user's confirmation: stop() swallowed, start().
SwitchTransport ==
  /\ Note(When("overtake", Overtaken))
  /\ step = "receive" /\ page = "provisioning" /\ provActive /\ prov # "Hung"
  /\ Then("timers")
  /\ \/ prov' = "Waiting" /\ owner' = "prov" /\ UNCHANGED <<provActive, events>>
     \/ SwitchFails
  /\ ServiceIdle
  /\ UNCHANGED <<mode, factory, page, cloud, sessions, latchVars, deadlineVars, retained, pending>>

\* Broken variant: the window is forgotten though its event was not taken.
ForgetsWindow(expired, posted) == window /\ ~clearWindow /\ ~expired

\* The window after tick(): due until its event is admitted.
StillOpen(expired, posted) == window /\ ~clearWindow /\ ~(expired /\ posted)

\* tick(): the retained event, the window, then a due reconnect.
Tick(delivered, expired, posted, due) ==
  LET open == window /\ ~clearWindow
      told == IF delivered THEN Append(events, "linked") ELSE events
      q == IF expired /\ posted THEN Append(told, "missing") ELSE told
  IN
  /\ step = "timers" \/ (step = "receive" /\ events = <<>>)
  /\ Then("receive")
  /\ delivered => retained
  /\ retained' = (retained /\ ~delivered)
  /\ expired => open
  /\ posted => expired
  /\ IF due
       THEN /\ reconnect /\ Room /\ reconnect' = FALSE
            /\ IF factory THEN ConnectFallbackInternal(FALSE, q) /\ UNCHANGED mishaps
                 ELSE ConnectSavedInternal(FALSE, q, {})
       ELSE /\ events' = q
            /\ window' = StillOpen(expired, posted) /\ clearWindow' = FALSE
            /\ ServiceIdle
            /\ UNCHANGED <<reconnect, latchVars, owner, mishaps>>
  /\ UNCHANGED <<saved, mode, factory, page, cloud, sessions, provActive, prov, pending>>

Timers == \E delivered, expired, posted, due \in BOOLEAN : Tick(delivered, expired, posted, due)

Handler ==
  \/ OnUp \/ OnLinked \/ OnStopped \/ OpenProvisioning \/ HandBack
  \/ \E reason \in Reasons : OnLost(reason)

User ==
  \/ EnterStationary \/ UserLeaves \/ SwitchTransport
  \/ \E network \in Credentials : HandOverCredentials(network)

Next == Driver \/ WifiTask \/ Handler \/ Timers \/ User

Spec == Init /\ [][Next]_vars

\* An armed deadline comes due in the end, and the queue takes its event; the driver does
\* not refuse every reconnect.
WindowExpires == \E delivered, due \in BOOLEAN : Tick(delivered, TRUE, TRUE, due)
ReconnectDue ==
  /\ \E delivered, expired, posted \in BOOLEAN : Tick(delivered, expired, posted, TRUE)
  /\ notice' = "none" /\ (saved > 1 /\ ~factory /\ ~Busy => scanning')
FairSpec ==
  /\ Spec
  /\ WF_vars(Handler) /\ WF_vars(Timers) /\ WF_vars(DriverAnswers)
  /\ SF_vars(WifiTask) /\ SF_vars(WindowExpires) /\ SF_vars(ReconnectDue)

-----------------------------------------------------------------------------
(* Properties.                                                              *)

Networks == Credentials \cup {"saved", "factory"}
DriverEvents == {Plain("connected"), Plain("gotip"), Plain("scan")} \cup {Lost(r) : r \in Reasons}
OrchestratorEvents == Reasons \cup {"up", "linked", "stopped"}

\* None of these mishaps has happened since the last restart.
Spared(kinds) == mishaps \cap kinds = {}
CalmKinds == {"start", "late", "stale", "overtake"}
KeptKinds == CalmKinds \cup {"drop", "resubmit"}

\* Type invariant; the retries stay within the budget of the attempt.
StationaryTypeOK ==
  /\ saved \in 0..MaxSaved /\ target \in Networks /\ budget \in {0, MaxRetry}
  /\ retry \in 0..budget /\ sta \in {"Disconnected", "Connecting", "Connected", "GotIp"}
  /\ auto \in {"off", "scanning", "sweeping"} /\ left \in 0..MaxSaved
  /\ {requested, swallow, retryTimer, dhcpTimer, scanning} \subseteq BOOLEAN
  /\ link \in {"down", "joining", "assoc", "up"} /\ inbox \in Seq(DriverEvents)
  /\ notice \in Reasons \cup {"none", "ip", "user"}
  /\ mode \in {"Stationary", "Away"} /\ page \in {"info", "provisioning", "home"}
  /\ step \in {"receive", "timers", "failing", "linked"}
  /\ events \in Seq(OrchestratorEvents) /\ sessions \in 0..MaxTrials
  /\ {factory, cloud, online, been, window, clearWindow, reconnect, provActive, retained}
       \subseteq BOOLEAN
  /\ owner \in {"service", "prov", "none"} /\ pending \in Credentials \cup {"saved"}
  /\ prov \in {"Idle", "Waiting", "Connecting", "Connected", "Hung"}
  /\ mishaps \subseteq Kinds

\* connect() answers AlreadyInProgress while an attempt is under way, so an attempt that
\* nothing will ever end keeps the device offline for good.  Every attempt the manager
\* believes in is driven: by the driver, an event it has posted, the retry timer or the
\* DHCP watchdog.
AttemptDriven ==
  /\ sta = "Connecting" => link = "joining" \/ inbox # <<>> \/ retryTimer
  /\ sta = "Connected" => dhcpTimer \/ inbox # <<>>
  /\ auto = "scanning" => scanning \/ Posted("scan")

\* "Runtime: never provision, never give up": in Stationary a device that has been online is
\* online with the service listening, or is connecting, or has a reconnect or the event that
\* will schedule one ahead of it.  The chain runs through three tasks, two timers and four
\* owners of a flag, and one broken link leaves the device offline until it is restarted.
\* It is broken by six kinds of mishap, so the property holds until the first of them: a
\* link lost in provisioning's hands, credentials handed over twice, an address that comes
\* with the end of its attempt, a failure told twice, an input that overtakes, and a first
\* session that does not start.  A refusal by the driver at any point is not one of them.
Supervised ==
  mode = "Stationary" /\ been /\ ~provActive /\ step # "linked" /\ Spared(KeptKinds) =>
    \/ owner = "service" /\ sta = "GotIp" /\ (link = "up" \/ inbox # <<>>)
    \/ owner = "service" /\ (sta \in {"Connecting", "Connected"} \/ auto # "off")
    \/ reconnect \/ Told(Reasons)

\* In Stationary the callbacks are the session's while it is active and the service's
\* otherwise, except between a switch that failed and the Stopped it made up, until a
\* session does not start, an address comes with the end of its attempt, a failure is told
\* twice or an input overtakes.
OwnerMatches ==
  mode = "Stationary" /\ Spared(CalmKinds) =>
    \/ owner = IF provActive THEN "prov" ELSE "service"
    \/ owner = "none" /\ Told({"stopped"})

\* Once the orchestrator has nothing left to handle, a session is behind the provisioning
\* page, failed switches of the transport included, until one of the same four mishaps: the
\* code's "never stranded on the page with no active transport" holds of a switch, and not
\* of a first session that does not start, which posts nothing.
PageHasTransport ==
  page = "provisioning" /\ step = "receive" /\ events = <<>> /\ Spared(CalmKinds) => provActive

\* The cloud client is armed in Stationary only: neither an address that was queued before
\* the user left nor the teardown of a session arms it afterwards, as long as no input is
\* handled ahead of a success of provisioning that is queued or retained: that success is
\* acted upon in whatever mode it is met.
CloudStationaryOnly == cloud /\ Spared({"overtake"}) => mode = "Stationary"

\* The Info page of a bring-up ends, in Home, in provisioning or in a restart, whatever the
\* driver answers: the connect window closes what no failure has closed.  The one answer
\* that leaves it open for good is a refused scan, which posts a reason that opens nothing
\* and arms no window.
BringUpEnds == []<>(page # "info" \/ ~Spared({"scan"}))

\* A device on the Home page does not stay with its link down and nothing under way while it
\* has a network to try, whatever the driver refuses, until a mishap that breaks its
\* supervision; a session that did not start ends the other promises and not this one.
KeepsTrying ==
  []<>~( /\ mode = "Stationary" /\ been /\ page = "home" /\ (saved > 0 \/ factory)
         /\ link = "down" /\ ~scanning /\ Spared(KeptKinds \ {"start"}) )

\* The credential that is stored as verified is the one the device connected with.
VerifiedOnly ==
  [][prov # "Connected" /\ prov' = "Connected" => pending = target]_vars

=============================================================================
