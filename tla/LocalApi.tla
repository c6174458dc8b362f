-------------------------------- MODULE LocalApi --------------------------------
(***************************************************************************)
(* The local HTTP configuration API of a Stationary device.                *)
(*                                                                         *)
(* Two tasks share GoLocalApiService (products/go/main/go_local_api.cpp).  *)
(* The single httpd task validates a PUT against the published snapshot    *)
(* without the lock, then admits it to a FIFO under the lock and posts a   *)
(* wake event carrying the FIFO's epoch.  The orchestrator                 *)
(* (products/go/main/go_orchestrator.cpp) pops one request per wake event, *)
(* applies it to the settings it owns and publishes a new snapshot; on a   *)
(* mode change, on provisioning and around a firmware update it closes the *)
(* API and discards what is queued.                                        *)
(*                                                                         *)
(* Every call the orchestrator makes on the service takes the lock for     *)
(* itself, so a handler is a plan of such calls and the httpd task may run *)
(* between any two of them.                                                *)
(***************************************************************************)
EXTENDS Integers, Sequences

CONSTANTS
  Changes,      \* the configuration changes a client or the cloud asks for
  FifoDepth,    \* LOCAL_API_REQUEST_QUEUE_DEPTH
  EventDepth,   \* EVENT_QUEUE_DEPTH
  MaxRequests,  \* bound: requests put in progress in a behaviour
  MaxEpoch      \* bound: times the FIFO is cleared between two boots

VARIABLES
  settings,      \* _settings: control, cloud, and one field for all the others
  mode,          \* _mode: "Stationary", or "Away" for Portable and Offline
  provisioning,  \* WifiService::_provisioning_active
  listening,     \* WifiService::_local_http_active
  plan,          \* the service calls left in the handler the orchestrator is in
  beforeOta,     \* _local_api_access_before_ota
  access,        \* _access
  active,        \* _active_config, the published snapshot
  fifo,          \* _requests from _head to _tail; ids are numbers of admission
  epoch,         \* _queue_epoch
  wakes,         \* the LocalApiRequestReady events in the orchestrator's queue
  put,           \* the PUT the httpd task has translated and not yet admitted
  taken          \* number of requests admitted so far

endpointVars == <<provisioning, listening, beforeOta>>
queueVars == <<fifo, epoch, wakes, taken>>
apiVars == <<access, active, queueVars, put>>
orchestratorVars == <<settings, mode, plan, endpointVars>>
vars == <<settings, mode, provisioning, listening, plan, beforeOta, access, active, fifo, epoch,
          wakes, put, taken>>

Controls == {"Cloud", "Local", "Both"}
Settings == [control: Controls, cloud: {"on", "off"}, other: {"a", "b"}]
Fields == {"control", "cloud", "other"}

\* A change gives values to some of the fields: the bits of its update_mask.
IsChange(change) ==
  /\ DOMAIN change \subseteq Fields
  /\ "control" \in DOMAIN change => change["control"] \in Controls
  /\ "cloud" \in DOMAIN change => change["cloud"] \in {"on", "off"}
  /\ "other" \in DOMAIN change => change["other"] \in {"a", "b"}

ASSUME LocalApiAssumption ==
  /\ \A change \in Changes : IsChange(change)
  /\ FifoDepth \in Nat \ {0} /\ EventDepth \in Nat \ {0}
  /\ MaxRequests \in Nat \ {0} /\ MaxEpoch \in Nat \ {0}

-----------------------------------------------------------------------------
(* Policy shared by both tasks.                                             *)

\* is_go_settings_valid(): cloud control needs the cloud connection.
Valid(s) == ~(s.control = "Cloud" /\ s.cloud = "off")

\* is_exact_control_recovery()
ControlRecovery(change) ==
  DOMAIN change = {"control"} /\ change["control"] \in {"Local", "Both"}

\* is_go_config_update_allowed()
Allowed(control, from, change) ==
  CASE from = "CloudFetch"  -> control \in {"Cloud", "Both"}
    [] from = "LocalServer" -> control \in {"Local", "Both"} \/ ControlRecovery(change)
    [] OTHER -> TRUE

\* merge_config_update(): the cloud owns neither the connection nor the control.
Merge(change, from, s) ==
  LET Field(f) == IF f \in DOMAIN change /\ (from = "CloudFetch" => f = "other")
                    THEN change[f] ELSE s[f]
  IN [control |-> Field("control"), cloud |-> Field("cloud"), other |-> Field("other")]

-----------------------------------------------------------------------------
(* The httpd task: one request at a time.                                   *)

HttpdFree == listening /\ put = <<>> /\ taken < MaxRequests

\* append_and_signal_locked(), broken: a failed send leaves the request queued.
AppendWithoutRollback(kind, change, sent) ==
  /\ fifo' = Append(fifo, [id |-> taken + 1, kind |-> kind, change |-> change])
  /\ wakes' = IF sent THEN Append(wakes, [id |-> taken + 1, epoch |-> epoch]) ELSE wakes
  /\ taken' = taken + 1
  /\ UNCHANGED epoch

\* append_and_signal_locked(): the request is rolled back when the event queue,
\* which other producers also fill, has no room for its wake event.
AppendAndSignal(kind, change, sent) ==
  \/ /\ sent /\ Len(wakes) < EventDepth
     /\ fifo' = Append(fifo, [id |-> taken + 1, kind |-> kind, change |-> change])
     /\ wakes' = Append(wakes, [id |-> taken + 1, epoch |-> epoch])
     /\ taken' = taken + 1
     /\ UNCHANGED epoch
  \/ ~sent /\ UNCHANGED queueVars

\* submit_config() up to admit_config(): checked against the snapshot; whatever
\* it refuses changes nothing.
BeginPut(change) ==
  /\ HttpdFree /\ access = "ReadWrite"
  /\ active.control = "Cloud" => ControlRecovery(change)
  /\ Valid(Merge(change, "LocalServer", active))
  /\ put' = <<[change |-> change, epoch |-> epoch]>>
  /\ UNCHANGED <<orchestratorVars, access, active, queueVars>>

Admissible(p) ==
  /\ access = "ReadWrite"
  /\ Allowed(active.control, "LocalServer", p.change)
  /\ DOMAIN p.change # {}
  /\ p.epoch = epoch
  /\ Len(fifo) < FifoDepth

\* Broken variant: admission forgets that the FIFO has a limit.
FinishPutUnbounded(sent) ==
  /\ put # <<>>
  /\ put' = <<>>
  /\ IF access = "ReadWrite" /\ put[1].epoch = epoch /\ DOMAIN put[1].change # {}
       THEN AppendAndSignal("Config", put[1].change, sent)
       ELSE UNCHANGED queueVars
  /\ UNCHANGED <<orchestratorVars, access, active>>

\* admit_config(), under the lock: access, control, epoch and room are looked at again.
FinishPut(sent) ==
  /\ put # <<>>
  /\ put' = <<>>
  /\ IF Admissible(put[1])
       THEN AppendAndSignal("Config", put[1].change, sent)
       ELSE UNCHANGED queueVars
  /\ UNCHANGED <<orchestratorVars, access, active>>

\* trigger(): an action request, one lock from end to end.
Trigger(sent) ==
  /\ HttpdFree /\ access = "ReadWrite" /\ Len(fifo) < FifoDepth
  /\ AppendAndSignal("Action", <<>>, sent)
  /\ UNCHANGED <<orchestratorVars, access, active, put>>

Httpd ==
  \/ \E change \in Changes : BeginPut(change)
  \/ \E sent \in BOOLEAN : FinishPut(sent) \/ Trigger(sent)

-----------------------------------------------------------------------------
(* The orchestrator task.                                                   *)

Idle == plan = <<>>
MayClear == epoch < MaxEpoch

Init ==
  /\ settings \in {s \in Settings : Valid(s)}
  /\ mode \in {"Stationary", "Away"}
  /\ provisioning = FALSE /\ listening = FALSE
  /\ plan = <<>> /\ beforeOta = "Disabled"
  /\ access = "Disabled"
  /\ active = settings           \* published by init() before anything listens
  /\ fifo = <<>> /\ epoch = 0 /\ wakes = <<>> /\ put = <<>>
  /\ taken = 0

\* Broken variant: the handler ends without publishing what it committed.
CommitUnpublished(candidate, saved, rest) ==
  IF saved
    THEN settings' = candidate /\ plan' = rest
    ELSE plan' = rest /\ UNCHANGED settings

\* activate_settings_candidate() within a mode: a failed save changes nothing;
\* otherwise the settings are replaced, then published.
Commit(candidate, saved, rest) ==
  IF saved
    THEN settings' = candidate /\ plan' = <<"Publish">> \o rest
    ELSE plan' = rest /\ UNCHANGED settings

\* Broken variants: the source is not checked again; the candidate is not.
ApplyConfigUpdateTrusting(change, from, saved) ==
  LET candidate == Merge(change, from, settings) IN
    IF Valid(candidate) /\ candidate # settings
      THEN Commit(candidate, saved, <<>>)
      ELSE UNCHANGED <<settings, plan>>
ApplyConfigUpdateUnvalidated(change, from, saved) ==
  LET candidate == Merge(change, from, settings) IN
    IF Allowed(settings.control, from, change) /\ candidate # settings
      THEN Commit(candidate, saved, <<>>)
      ELSE UNCHANGED <<settings, plan>>

\* apply_config_update(): everything is checked again against the settings themselves.
ApplyConfigUpdate(change, from, saved) ==
  LET candidate == Merge(change, from, settings) IN
    IF Allowed(settings.control, from, change) /\ Valid(candidate) /\ candidate # settings
      THEN Commit(candidate, saved, <<>>)
      ELSE UNCHANGED <<settings, plan>>

\* pop_request() refuses a wake event of an older epoch.
Poppable(wake) == wake.epoch = epoch /\ fifo # <<>>

\* on_local_api_request()
HandleWake(saved) ==
  /\ Idle /\ wakes # <<>>
  /\ wakes' = Tail(wakes)
  /\ IF Poppable(Head(wakes))
       THEN /\ fifo' = Tail(fifo)
            /\ IF Head(fifo).kind = "Config"
                 THEN ApplyConfigUpdate(Head(fifo).change, "LocalServer", saved)
                 ELSE UNCHANGED <<settings, plan>>
       ELSE UNCHANGED <<fifo, settings, plan>>
  /\ UNCHANGED <<mode, endpointVars, access, active, epoch, put, taken>>

\* A FetchConfigResult event.
CloudFetch(change, saved) ==
  /\ Idle
  /\ ApplyConfigUpdate(change, "CloudFetch", saved)
  /\ UNCHANGED <<mode, endpointVars, apiVars>>

\* The settings menu, which offers neither the control nor the connection.
UiChange(value, saved) ==
  /\ Idle /\ settings.other # value
  /\ Commit([settings EXCEPT !.other = value], saved, <<>>)
  /\ UNCHANGED <<mode, endpointVars, apiVars>>

\* Broken variant: the API is not closed before the queue is discarded.
LeaveStationaryOpen == <<"Clear", "StopEndpoint", "Publish">>

\* apply_mode_transition(), the calls that concern the API.
LeaveStationary == <<"Disable", "Clear", "StopEndpoint", "Publish">>
EnterStationary(saved) ==
  IF saved THEN <<"Disable", "Publish">>
           ELSE <<"Disable", "Clear", "StartProvisioning", "Publish">>

\* change_mode(): whether networks are saved decides what entering Stationary does.
ChangeMode(networks) ==
  /\ Idle /\ MayClear
  /\ IF mode = "Stationary" THEN mode' = "Away" /\ plan' = LeaveStationary
                            ELSE mode' = "Stationary" /\ plan' = EnterStationary(networks)
  /\ UNCHANGED <<settings, endpointVars, apiVars>>

\* factory_reset(): the default settings, in Portable mode.
FactoryReset ==
  /\ Idle /\ MayClear
  /\ settings' = [control |-> "Both", cloud |-> "on", other |-> "a"]
  /\ mode' = "Away"
  /\ plan' = IF mode = "Stationary" THEN LeaveStationary ELSE <<"Publish">>
  /\ UNCHANGED <<endpointVars, apiVars>>

\* enter_provisioning_page() from a running session.
EnterProvisioning ==
  /\ Idle /\ MayClear /\ mode = "Stationary" /\ ~provisioning
  /\ plan' = <<"Disable", "Clear", "StartProvisioning">>
  /\ UNCHANGED <<settings, mode, endpointVars, apiVars>>

\* ProvisioningEvent::Connected: switching the cloud off takes it the control.
ProvisioningConnected(cloud, saved) ==
  /\ Idle /\ provisioning
  /\ Commit([settings EXCEPT !.cloud = cloud,
               !.control = IF cloud = "off" /\ @ = "Cloud" THEN "Local" ELSE @],
            saved, <<"EndProvisioning", "Activate">>)
  /\ UNCHANGED <<mode, endpointVars, apiVars>>

\* on_wifi_connected() and the activation retry timer.
WifiUp ==
  /\ Idle /\ mode = "Stationary" /\ ~provisioning
  /\ plan' = <<"Activate">>
  /\ UNCHANGED <<settings, mode, endpointVars, apiVars>>

\* Broken variant of enter_ota(): the queue is discarded before the API is closed.
EnterOtaLate ==
  /\ Idle /\ MayClear /\ mode = "Stationary" /\ ~provisioning /\ settings.cloud = "on"
  /\ plan' = <<"Clear", "Gate", "Download", "Drain", "Restore">>
  /\ UNCHANGED <<settings, mode, endpointVars, apiVars>>
\* enter_ota(), the blocking transfer, and exit_ota() once it has failed.  In Portable
\* mode the image comes over BLE and the API is not concerned, but its exit drains too.
EnterOta ==
  /\ Idle /\ MayClear
  /\ \/ /\ mode = "Stationary" /\ ~provisioning /\ settings.cloud = "on"
        /\ plan' = <<"Gate", "Clear", "Download", "Drain", "Restore">>
     \/ mode = "Away" /\ plan' = <<"Download", "Drain">>
  /\ UNCHANGED <<settings, mode, endpointVars, apiVars>>

-----------------------------------------------------------------------------
(* The calls a handler consists of, each under the service's lock.          *)

Make(call) == plan # <<>> /\ Head(plan) = call /\ plan' = Tail(plan)

\* publish_config_snapshot()
Publish ==
  /\ Make("Publish")
  /\ active' = settings
  /\ UNCHANGED <<settings, mode, endpointVars, access, queueVars, put>>

\* set_access(Disabled)
Disable ==
  /\ Make("Disable")
  /\ access' = "Disabled"
  /\ UNCHANGED <<settings, mode, endpointVars, active, queueVars, put>>

\* Broken variant: the epoch stays, and wake events of discarded requests stay good.
ClearSameEpoch ==
  /\ Make("Clear")
  /\ fifo' = <<>>
  /\ UNCHANGED <<settings, mode, endpointVars, access, active, epoch, wakes, taken, put>>

\* clear_requests()
Clear ==
  /\ Make("Clear")
  /\ fifo' = <<>> /\ epoch' = epoch + 1
  /\ UNCHANGED <<settings, mode, endpointVars, access, active, wakes, taken, put>>

\* WifiService::shutdown(): httpd_stop() waits for the request being served.
StopEndpoint ==
  /\ Make("StopEndpoint") /\ put = <<>>
  /\ listening' = FALSE /\ provisioning' = FALSE
  /\ UNCHANGED <<settings, mode, beforeOta, apiVars>>

\* WifiService::start_provisioning(): the transport may fail to start.
StartProvisioning ==
  /\ Make("StartProvisioning") /\ put = <<>>
  /\ listening' = FALSE
  /\ provisioning' \in BOOLEAN
  /\ UNCHANGED <<settings, mode, beforeOta, apiVars>>

EndProvisioning ==
  /\ Make("EndProvisioning")
  /\ provisioning' = FALSE
  /\ UNCHANGED <<settings, mode, listening, beforeOta, apiVars>>

\* activate_local_endpoint(): nothing when the link is gone again; otherwise the
\* listener is started unless it runs, and may fail to.
Activate ==
  /\ Make("Activate")
  /\ \/ UNCHANGED <<listening, access>>
     \/ listening' = TRUE /\ access' = "ReadWrite"
     \/ ~listening /\ access' = "Disabled" /\ UNCHANGED listening
  /\ UNCHANGED <<settings, mode, provisioning, beforeOta, active, queueVars, put>>

Gate ==
  /\ Make("Gate")
  /\ beforeOta' = access
  /\ access' = IF access = "ReadWrite" THEN "ReadOnly" ELSE access
  /\ UNCHANGED <<settings, mode, provisioning, listening, active, queueVars, put>>

\* The transfer returns.
Download ==
  /\ Make("Download")
  /\ UNCHANGED <<settings, mode, endpointVars, apiVars>>

\* exit_ota() throws away every event queued meanwhile.
Drain ==
  /\ Make("Drain")
  /\ wakes' = <<>>
  /\ UNCHANGED <<settings, mode, endpointVars, access, active, fifo, epoch, taken, put>>

Restore ==
  /\ Make("Restore")
  /\ access' = beforeOta
  /\ UNCHANGED <<settings, mode, endpointVars, active, queueVars, put>>

\* The new image boots with the stored settings; a Stationary boot enters the mode.
Reboot(networks) ==
  /\ plan # <<>> /\ Head(plan) = "Download"
  /\ plan' = IF mode = "Stationary" THEN EnterStationary(networks) ELSE <<>>
  /\ provisioning' = FALSE /\ listening' = FALSE /\ beforeOta' = "Disabled"
  /\ access' = "Disabled" /\ active' = settings
  /\ fifo' = <<>> /\ epoch' = 0 /\ wakes' = <<>> /\ put' = <<>>
  /\ UNCHANGED <<settings, mode, taken>>

-----------------------------------------------------------------------------

Event ==
  \/ \E saved \in BOOLEAN :
       \/ HandleWake(saved)
       \/ \E change \in Changes : CloudFetch(change, saved)
       \/ \E value \in {"a", "b"} : UiChange(value, saved)
       \/ \E cloud \in {"on", "off"} : ProvisioningConnected(cloud, saved)
       \/ ChangeMode(saved)
  \/ FactoryReset \/ EnterProvisioning \/ WifiUp \/ EnterOta

Call ==
  \/ Publish \/ Disable \/ Clear \/ StopEndpoint \/ StartProvisioning \/ EndProvisioning
  \/ Activate \/ Gate \/ Download \/ Drain \/ Restore
  \/ \E networks \in BOOLEAN : Reboot(networks)

Next == Httpd \/ Event \/ Call

\* The orchestrator's handlers end, the httpd task finishes what it serves, and the
\* events of a FIFO queue are all received in the end.
Fairness ==
  /\ WF_vars(Call)
  /\ WF_vars(\E sent \in BOOLEAN : FinishPut(sent))
  /\ SF_vars(\E saved \in BOOLEAN : HandleWake(saved))

Spec == Init /\ [][Next]_vars /\ Fairness

-----------------------------------------------------------------------------
(* Properties.                                                              *)

Requests == [id: 1..MaxRequests, kind: {"Config", "Action"}, change: Changes \cup {<<>>}]
Calls == {"Publish", "Disable", "Clear", "StopEndpoint", "StartProvisioning", "EndProvisioning",
          "Activate", "Gate", "Download", "Drain", "Restore"}
Accesses == {"Disabled", "ReadOnly", "ReadWrite"}

\* Type invariant: the fields of GoLocalApiService and of the orchestrator that drive the
\* API keep their ranges; neither the FIFO nor the event queue exceeds its depth.
LocalTypeOK ==
  /\ settings \in Settings /\ active \in Settings
  /\ mode \in {"Stationary", "Away"}
  /\ provisioning \in BOOLEAN /\ listening \in BOOLEAN
  /\ plan \in Seq(Calls)
  /\ access \in Accesses /\ beforeOta \in Accesses
  /\ fifo \in Seq(Requests) /\ Len(fifo) <= FifoDepth
  /\ epoch \in 0..MaxEpoch /\ taken \in 0..MaxRequests
  /\ wakes \in Seq([id: 1..MaxRequests, epoch: 0..MaxEpoch]) /\ Len(wakes) <= EventDepth
  /\ put \in Seq([change: Changes, epoch: 0..MaxEpoch]) /\ Len(put) <= 1

\* The wake events of the current epoch are those of the queued requests, one for each and
\* in their order, behind the ones of older epochs: pop_request() takes the request its
\* event was posted for, none twice, and no request waits without an event, across clears,
\* failed sends and OTA drains.
WakeMatchesQueue ==
  LET older == Len(wakes) - Len(fifo) IN
    /\ older >= 0
    /\ \A i \in DOMAIN wakes :
         /\ wakes[i].epoch = epoch <=> i > older
         /\ i > older => wakes[i].id = fifo[i - older].id

\* Cloud control with the cloud connection off never becomes active, although two requests
\* that are valid against the same snapshot may be queued behind each other.
SettingsStayValid == Valid(settings) /\ Valid(active)

\* When no handler runs, GET /api/v1/config and admission see the settings in force.
SnapshotCurrent == Idle => active = settings

\* Between two handlers a client may write exactly while the endpoint is up, which it is
\* only in Stationary mode outside provisioning, after a failed firmware update too.
AccessFollowsEndpoint ==
  Idle => /\ access = IF listening THEN "ReadWrite" ELSE "Disabled"
          /\ listening => mode = "Stationary" /\ ~provisioning

\* A committed firmware transfer runs with nothing queued and nothing admitted: what the
\* drain of the event queue throws away afterwards wakes no live request.
OtaFindsQueueEmpty ==
  plan # <<>> /\ Head(plan) \in {"Download", "Drain"} => fifo = <<>> /\ access # "ReadWrite"

\* Once Cloud control is committed, a request admitted under an earlier authority changes
\* nothing any more, except a recovery of the control alone.
CloudAuthorityKept ==
  [][fifo' # fifo /\ settings' # settings /\ settings.control = "Cloud" =>
       /\ settings'.control \in {"Local", "Both"}
       /\ settings' = [settings EXCEPT !.control = settings'.control]]_vars

Queued(id) == \E i \in DOMAIN fifo : fifo[i].id = id

\* No admitted request is stranded: each is taken off the FIFO or discarded in the end.
NoRequestStranded == \A id \in 1..MaxRequests : Queued(id) ~> ~Queued(id)

=============================================================================
