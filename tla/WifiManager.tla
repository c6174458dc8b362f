------------------------------ MODULE WifiManager ------------------------------
(***************************************************************************)
(* WifiManager (components/airgradient-wifi/services/wifi_manager.cpp):    *)
(* one station connection, its retries, and the sweep over the saved       *)
(* networks, driven by the events of the ESP-IDF driver below it.          *)
(*                                                                         *)
(* The driver is external: it posts its events to the system event task in *)
(* order ("inbox"), and its own view of the link may be ahead of what the  *)
(* manager has been told.  The two timers run in a task of their own.  The *)
(* manager has no lock, so the caller's task, the event task and the timer *)
(* task meet in its fields.                                                *)
(*                                                                         *)
(* A handler reports at most one thing to whoever owns the callbacks.      *)
(* "notice" is what the last step reported; modules that own the callbacks *)
(* react to notice' in the same step, as the code calls them synchronously,*)
(* and say what becomes of the credential store.                           *)
(***************************************************************************)
EXTENDS Integers, Sequences

CONSTANTS
  MaxSaved,     \* WIFI_MAX_SAVED_NETWORKS
  MaxRetry,     \* STATIONARY_MAX_RETRY_COUNT
  Credentials,  \* the networks a user may hand over in provisioning
  InboxBound    \* bound: driver events posted and not yet handled when more are caused

VARIABLES
  saved,       \* number of networks in the credential store
  target,      \* _sta_config: whose network the current or last attempt is for
  budget,      \* _sta_config.max_retry_count
  retry,       \* _retry_attempt
  sta,         \* _sta_state
  auto,        \* _auto_scan_pending, _auto_sweeping
  left,        \* candidates of the sweep after the current one
  requested,   \* _disconnect_requested
  swallow,     \* _swallow_next_disconnect
  retryTimer,  \* the retry timer is armed
  dhcpTimer,   \* the DHCP watchdog is armed
  link,        \* driver: state of the station link
  scanning,    \* driver: a scan is under way
  inbox,       \* driver events posted to the event task and not yet handled
  notice       \* what the last step reported to the owner of the callbacks

attemptVars == <<target, budget, retry, sta, auto, left, requested, swallow>>
timerVars == <<retryTimer, dhcpTimer>>
driverVars == <<link, scanning, inbox>>
managerVars == <<saved, attemptVars, timerVars, driverVars, notice>>

\* Disconnect reasons by what is done about them: "hard" is not retried (wrong password,
\* association or DHCP failed); "missing" is retried and ends in provisioning (no access
\* point, connection lost); "soft" is retried and waits for the connect window.
Reasons == {"hard", "missing", "soft"}
Lost(reason) == [event |-> "lost", reason |-> reason]
Plain(event) == [event |-> event, reason |-> "soft"]

ASSUME WifiAssumption ==
  /\ MaxSaved \in Nat \ {0} /\ MaxRetry \in Nat /\ InboxBound \in Nat \ {0}
  /\ Credentials # {} /\ "saved" \notin Credentials /\ "factory" \notin Credentials

ManagerInit ==
  /\ saved \in 0..MaxSaved
  /\ target = "saved" /\ budget = 0 /\ retry = 0
  /\ sta = "Disconnected" /\ auto = "off" /\ left = 0
  /\ requested = FALSE /\ swallow = FALSE
  /\ retryTimer = FALSE /\ dhcpTimer = FALSE
  /\ link = "down" /\ scanning = FALSE /\ inbox = <<>>
  /\ notice = "none"

-----------------------------------------------------------------------------
(* The driver.                                                              *)

Quiet == notice' = "none"

\* esp_wifi_disconnect(): a link being made or up is dropped, and the driver says so.
EchoTo(queue) == IF link = "down" THEN queue ELSE Append(queue, Lost("soft"))

\* esp_wifi_connect() starts over from whatever the link was.
Join(queue, l) ==
  /\ link' = "joining"
  /\ inbox' = IF l = "down" THEN queue ELSE Append(queue, Lost("soft"))
Keep(queue, l) == link' = l /\ inbox' = queue

Room == Len(inbox) < InboxBound
Posted(event) == \E i \in DOMAIN inbox : inbox[i].event = event

LinkStep(from, to, event) ==
  /\ link = from /\ link' = to /\ Room
  /\ inbox' = Append(inbox, event)
  /\ Quiet
  /\ UNCHANGED <<attemptVars, timerVars, scanning>>

Associates == LinkStep("joining", "assoc", Plain("connected"))
GetsIp == LinkStep("assoc", "up", Plain("gotip"))
LinkLost(reason) == \E from \in {"joining", "assoc", "up"} : LinkStep(from, "down", Lost(reason))

\* A link being made is made or fails; an association gets its address or not.
LinkSettles == Associates \/ \E reason \in Reasons : LinkStep("joining", "down", Lost(reason))

ScanEnds ==
  /\ scanning /\ scanning' = FALSE
  /\ inbox' = Append(inbox, Plain("scan"))
  /\ Quiet
  /\ UNCHANGED <<attemptVars, timerVars, link>>

-----------------------------------------------------------------------------
(* Attempts.                                                                *)

\* _start_connect_attempt() outside a sweep: the driver takes it, or a refusal is reported at
\* once.
Attempt(queue, l, tries) ==
  /\ UNCHANGED <<auto, left>>
  /\ \/ sta' = "Connecting" /\ retry' = tries /\ notice' = "none" /\ Join(queue, l)
     \/ sta' = "Disconnected" /\ retry' = 0 /\ notice' = "soft" /\ Keep(queue, l)

\* _start_connect_attempt() and _advance_candidate() in a sweep, with n candidates to try:
\* one the driver refuses is passed over, and the last failure is reported.
Sweep(n, reason, queue, l) ==
  \/ \E k \in 1..n :
       /\ auto' = "sweeping" /\ left' = n - k
       /\ sta' = "Connecting" /\ notice' = "none" /\ Join(queue, l)
       /\ UNCHANGED retry
  \/ /\ auto' = "off" /\ left' = 0
     /\ sta' = "Disconnected" /\ retry' = 0
     /\ notice' = IF n = 0 THEN reason ELSE "soft"
     /\ Keep(queue, l)

Busy == sta = "Connecting" \/ auto # "off"

\* connect() with an SSID; "busy" is AlreadyInProgress.
ConnectTo(network, status) ==
  \/ status = "busy" /\ Busy /\ Quiet
     /\ UNCHANGED <<attemptVars, timerVars, driverVars>>
  \/ /\ status = "ok" /\ ~Busy
     /\ target' = network /\ budget' = 0 /\ requested' = FALSE
     /\ Attempt(inbox, link, 0)
     /\ UNCHANGED <<swallow, timerVars, scanning>>

\* connect() without one, _start_auto_connect(): one saved network is tried directly,
\* several are ranked by a scan first, which the driver may refuse.
ConnectSaved(status) ==
  \/ status = "busy" /\ Busy /\ Quiet
     /\ UNCHANGED <<attemptVars, timerVars, driverVars>>
  \/ status = "none" /\ ~Busy /\ saved = 0 /\ Quiet
     /\ UNCHANGED <<attemptVars, timerVars, driverVars>>
  \/ /\ status \in {"ok", "failed"} /\ ~Busy /\ saved > 0
     /\ target' = "saved" /\ budget' = MaxRetry /\ requested' = FALSE
     /\ \/ saved = 1 /\ status = "ok" /\ Attempt(inbox, link, 0)
           /\ UNCHANGED scanning
        \/ /\ saved > 1
           /\ retry' = 0 /\ left' = 0 /\ Quiet
           /\ IF status = "ok" THEN ~scanning /\ scanning' = TRUE /\ auto' = "scanning"
                ELSE auto' = "off" /\ UNCHANGED scanning
           /\ UNCHANGED <<sta, link, inbox>>
     /\ UNCHANGED <<swallow, timerVars>>

\* Broken variant: a scan that ranks the saved networks is still waited for.
ClearSweepOnly == auto' = (IF auto = "sweeping" THEN "off" ELSE auto) /\ left' = 0

\* _clear_auto_state()
ClearAutoState == auto' = "off" /\ left' = 0

\* disconnect(); with set_mode(Off) after it, the radio is switched off as well and a link
\* the manager takes for disconnected goes down too.
DisconnectAnd(off) ==
  /\ requested' = TRUE
  /\ retryTimer' = FALSE /\ dhcpTimer' = FALSE
  /\ ClearAutoState /\ retry' = 0
  /\ sta' = "Disconnected"
  /\ notice' = IF sta = "Disconnected" THEN "none" ELSE "user"
  /\ IF sta # "Disconnected" \/ off
       THEN link' = "down" /\ inbox' = EchoTo(inbox)
       ELSE UNCHANGED <<link, inbox>>
  /\ scanning' = (scanning /\ ~off)
  /\ UNCHANGED <<target, budget, swallow>>

-----------------------------------------------------------------------------
(* Handlers of the event task and of the timer task.                        *)

Received(event) == inbox # <<>> /\ Head(inbox).event = event

\* _on_hal_sta_connected()
HalConnected ==
  /\ Received("connected") /\ inbox' = Tail(inbox)
  /\ sta' = "Connected" /\ dhcpTimer' = TRUE /\ Quiet
  /\ UNCHANGED <<target, budget, retry, auto, left, requested, swallow, retryTimer, link,
                 scanning>>

\* _on_hal_got_ip()
HalGotIp ==
  /\ Received("gotip") /\ inbox' = Tail(inbox)
  /\ sta' = "GotIp" /\ dhcpTimer' = FALSE
  /\ auto' = "off" /\ left' = 0 /\ retry' = 0 /\ notice' = "ip"
  /\ UNCHANGED <<target, budget, requested, swallow, retryTimer, link, scanning>>

Retriable(reason) == reason # "hard"

\* Broken variant: one retry more than the budget.
TriesLeftOneMore(reason) == Retriable(reason) /\ budget > 0 /\ retry <= budget

TriesLeft(reason) == Retriable(reason) /\ retry < budget

\* A disconnect that is not an echo: the next candidate, a retry, or the end.
LinkFailed(reason) ==
  \/ /\ auto = "sweeping" /\ Sweep(left, reason, Tail(inbox), link)
     /\ UNCHANGED retryTimer
  \/ /\ auto # "sweeping" /\ TriesLeft(reason)
     /\ retry' = retry + 1 /\ sta' = "Connecting" /\ retryTimer' = TRUE
     /\ Quiet /\ Keep(Tail(inbox), link)
     /\ UNCHANGED <<auto, left>>
  \/ /\ auto # "sweeping" /\ ~TriesLeft(reason)
     /\ sta' = "Disconnected" /\ retry' = 0 /\ notice' = reason
     /\ Keep(Tail(inbox), link)
     /\ UNCHANGED <<auto, left, retryTimer>>

\* _on_hal_sta_disconnected(): the echoes of the manager's own disconnects are dropped.
HalLost ==
  /\ Received("lost")
  /\ IF swallow
       THEN /\ swallow' = FALSE /\ inbox' = Tail(inbox) /\ Quiet
            /\ UNCHANGED <<retry, sta, auto, left, requested, timerVars, link>>
       ELSE /\ dhcpTimer' = FALSE
            /\ IF requested
                 THEN /\ requested' = FALSE /\ sta' = "Disconnected"
                      /\ inbox' = Tail(inbox) /\ Quiet
                      /\ UNCHANGED <<retry, auto, left, retryTimer, link>>
                 ELSE LinkFailed(Head(inbox).reason) /\ UNCHANGED requested
            /\ UNCHANGED swallow
  /\ UNCHANGED <<target, budget, scanning>>

\* _on_hal_scan_complete() and _consume_auto_scan(): the saved networks in sight are the
\* candidates; a scan that no connect waits for is the product's.
HalScanned ==
  /\ Received("scan")
  /\ IF auto # "scanning"
       THEN Keep(Tail(inbox), link) /\ Quiet /\ UNCHANGED <<retry, sta, auto, left>>
       ELSE \E seen \in 0..saved : Sweep(seen, "missing", Tail(inbox), link)
  /\ UNCHANGED <<target, budget, requested, swallow, timerVars, scanning>>

\* _on_hal_dhcp_timeout(): the link is dropped and its echo announced.
DhcpTimeout ==
  /\ dhcpTimer /\ dhcpTimer' = FALSE
  /\ IF sta # "Connected"
       THEN Quiet /\ UNCHANGED <<retry, sta, auto, left, swallow, link, inbox>>
       ELSE /\ swallow' = TRUE
            /\ IF auto = "sweeping"
                 THEN Sweep(left, "hard", EchoTo(inbox), "down")
                 ELSE /\ sta' = "Disconnected" /\ retry' = 0 /\ notice' = "hard"
                      /\ Keep(EchoTo(inbox), "down")
                      /\ UNCHANGED <<auto, left>>
  /\ UNCHANGED <<target, budget, requested, retryTimer, scanning>>

\* _on_hal_retry_due()
RetryDue ==
  /\ retryTimer /\ retryTimer' = FALSE
  /\ IF requested \/ sta # "Connecting"
       THEN Quiet /\ UNCHANGED <<retry, sta, auto, left, link, inbox>>
       ELSE IF auto = "sweeping" THEN Sweep(left + 1, "soft", inbox, link)
              ELSE Attempt(inbox, link, retry)
  /\ UNCHANGED <<target, budget, requested, swallow, dhcpTimer, scanning>>

\* The event task, in the order the driver posted.
EventTask == HalConnected \/ HalGotIp \/ HalLost \/ HalScanned
TimerTask == Room /\ (DhcpTimeout \/ RetryDue)

=============================================================================
