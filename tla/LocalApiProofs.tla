----------------------------- MODULE LocalApiProofs -----------------------------
(***************************************************************************)
(* Proofs about LocalApi: what is true at each point of each handler, for  *)
(* any changes, queue depths and number of requests, with the httpd task   *)
(* running between any two calls.                                          *)
(***************************************************************************)
EXTENDS LocalApi, TLAPS

\* What every handler starts from and returns to.
Rest ==
  /\ access = IF listening THEN "ReadWrite" ELSE "Disabled"
  /\ listening => ~provisioning
  /\ mode = "Away" => ~listening /\ ~provisioning /\ fifo = <<>>

Closed == access = "Disabled"
InStationary == mode = "Stationary"
Quiet == ~provisioning /\ ~listening

\* The call is still to be made.
Awaits(p, call) == \E i \in DOMAIN p : p[i] = call

\* The endpoint at each point of each handler.
PointInv ==
  \/ plan = <<>> /\ Rest
  \/ plan = <<"Publish">> /\ Rest
  \/ plan = <<"Disable", "Clear", "StopEndpoint", "Publish">> /\ mode = "Away"
  \/ plan = <<"Clear", "StopEndpoint", "Publish">> /\ mode = "Away" /\ Closed
  \/ plan = <<"StopEndpoint", "Publish">> /\ mode = "Away" /\ Closed /\ fifo = <<>>
  \/ plan = <<"Disable", "Publish">> /\ InStationary /\ Quiet
  \/ plan = <<"Disable", "Clear", "StartProvisioning", "Publish">> /\ InStationary
  \/ plan = <<"Clear", "StartProvisioning", "Publish">> /\ InStationary /\ Closed
  \/ plan = <<"StartProvisioning", "Publish">> /\ InStationary /\ Closed
  \/ plan = <<"Disable", "Clear", "StartProvisioning">> /\ InStationary
  \/ plan = <<"Clear", "StartProvisioning">> /\ InStationary /\ Closed
  \/ plan = <<"StartProvisioning">> /\ InStationary /\ Closed
  \/ plan = <<"Publish", "EndProvisioning", "Activate">> /\ InStationary /\ Rest
  \/ plan = <<"EndProvisioning", "Activate">> /\ InStationary /\ Rest
  \/ plan = <<"Activate">> /\ InStationary /\ Rest /\ ~provisioning
  \/ plan = <<"Gate", "Clear", "Download", "Drain", "Restore">>
       /\ InStationary /\ Rest /\ ~provisioning
  \/ /\ \/ plan = <<"Clear", "Download", "Drain", "Restore">>
        \/ fifo = <<>> /\ plan \in {<<"Download", "Drain", "Restore">>, <<"Drain", "Restore">>,
                                    <<"Restore">>}
     /\ InStationary /\ ~provisioning /\ access # "ReadWrite"
     /\ beforeOta = IF listening THEN "ReadWrite" ELSE "Disabled"
  \/ plan \in {<<"Download", "Drain">>, <<"Drain">>} /\ mode = "Away" /\ Rest

\* The FIFO, the event queue and the PUT between them; a handler that is still to clear
\* the queue was begun below the bound of the epochs.
QueueInv ==
  /\ fifo \in Seq(Requests) /\ Len(fifo) <= FifoDepth
  /\ epoch \in 0..MaxEpoch /\ taken \in 0..MaxRequests
  /\ wakes \in Seq([id: 1..MaxRequests, epoch: 0..MaxEpoch]) /\ Len(wakes) <= EventDepth
  /\ put \in Seq([change: Changes, epoch: 0..MaxEpoch]) /\ Len(put) <= 1
  /\ put # <<>> => taken < MaxRequests
  /\ Awaits(plan, "Clear") => epoch < MaxEpoch

SettingsInv ==
  /\ settings \in Settings /\ active \in Settings
  /\ SettingsStayValid
  /\ ~Awaits(plan, "Publish") => active = settings

EndpointTypes ==
  /\ mode \in {"Stationary", "Away"}
  /\ provisioning \in BOOLEAN /\ listening \in BOOLEAN
  /\ access \in Accesses /\ beforeOta \in Accesses

LocalInv == EndpointTypes /\ PointInv /\ QueueInv /\ SettingsInv

-----------------------------------------------------------------------------
(* Calls of a handler: where each one leads.                                *)

LEMMA Tails ==
  /\ Tail(<<"Publish">>) = <<>>
  /\ Tail(<<"Publish", "EndProvisioning", "Activate">>) = <<"EndProvisioning", "Activate">>
  /\ Tail(<<"Disable", "Clear", "StopEndpoint", "Publish">>) = <<"Clear", "StopEndpoint", "Publish">>
  /\ Tail(<<"Clear", "StopEndpoint", "Publish">>) = <<"StopEndpoint", "Publish">>
  /\ Tail(<<"StopEndpoint", "Publish">>) = <<"Publish">>
  /\ Tail(<<"Disable", "Publish">>) = <<"Publish">>
  /\ Tail(<<"Disable", "Clear", "StartProvisioning", "Publish">>) = <<"Clear", "StartProvisioning", "Publish">>
  /\ Tail(<<"Clear", "StartProvisioning", "Publish">>) = <<"StartProvisioning", "Publish">>
  /\ Tail(<<"StartProvisioning", "Publish">>) = <<"Publish">>
  /\ Tail(<<"Disable", "Clear", "StartProvisioning">>) = <<"Clear", "StartProvisioning">>
  /\ Tail(<<"Clear", "StartProvisioning">>) = <<"StartProvisioning">>
  /\ Tail(<<"StartProvisioning">>) = <<>>
  /\ Tail(<<"EndProvisioning", "Activate">>) = <<"Activate">>
  /\ Tail(<<"Activate">>) = <<>>
  /\ Tail(<<"Gate", "Clear", "Download", "Drain", "Restore">>) = <<"Clear", "Download", "Drain", "Restore">>
  /\ Tail(<<"Clear", "Download", "Drain", "Restore">>) = <<"Download", "Drain", "Restore">>
  /\ Tail(<<"Download", "Drain", "Restore">>) = <<"Drain", "Restore">>
  /\ Tail(<<"Drain", "Restore">>) = <<"Restore">>
  /\ Tail(<<"Restore">>) = <<>>
  /\ Tail(<<"Download", "Drain">>) = <<"Drain">>
  /\ Tail(<<"Drain">>) = <<>>
OBVIOUS

LEMMA PublishStep ==
  ASSUME PointInv, Publish
  PROVE  PointInv'
<1>1. \/ plan = <<"Publish">> /\ Rest
      \/ plan = <<"Publish", "EndProvisioning", "Activate">> /\ InStationary /\ Rest
  BY DEF PointInv, Make, Publish
<1>2. \/ plan' = <<>> /\ Rest
      \/ plan' = <<"EndProvisioning", "Activate">> /\ InStationary /\ Rest
  BY <1>1, Tails DEF Make, Publish
<1> QED
  BY <1>2 DEF PointInv, Publish, Rest, InStationary, Closed, Quiet, endpointVars, queueVars, apiVars

LEMMA DisableStep ==
  ASSUME PointInv, Disable
  PROVE  PointInv'
<1>1. \/ plan = <<"Disable", "Clear", "StopEndpoint", "Publish">> /\ mode = "Away"
      \/ plan = <<"Disable", "Publish">> /\ InStationary /\ Quiet
      \/ plan = <<"Disable", "Clear", "StartProvisioning", "Publish">> /\ InStationary
      \/ plan = <<"Disable", "Clear", "StartProvisioning">> /\ InStationary
  BY DEF PointInv, Make, Disable
<1>2. \/ plan' = <<"Clear", "StopEndpoint", "Publish">> /\ mode = "Away"
      \/ plan' = <<"Publish">> /\ InStationary /\ Quiet
      \/ plan' = <<"Clear", "StartProvisioning", "Publish">> /\ InStationary
      \/ plan' = <<"Clear", "StartProvisioning">> /\ InStationary
  BY <1>1, Tails DEF Make, Disable
<1> QED
  BY <1>2 DEF PointInv, Disable, Rest, InStationary, Closed, Quiet, endpointVars, queueVars, apiVars

LEMMA ClearStep ==
  ASSUME PointInv, Clear
  PROVE  PointInv'
<1>1. \/ plan = <<"Clear", "StopEndpoint", "Publish">> /\ mode = "Away" /\ Closed
      \/ plan = <<"Clear", "StartProvisioning", "Publish">> /\ InStationary /\ Closed
      \/ plan = <<"Clear", "StartProvisioning">> /\ InStationary /\ Closed
      \/ plan = <<"Clear", "Download", "Drain", "Restore">>
           /\ InStationary /\ ~provisioning /\ access # "ReadWrite"
           /\ beforeOta = IF listening THEN "ReadWrite" ELSE "Disabled"
  BY DEF PointInv, Make, Clear
<1>2. \/ plan' = <<"StopEndpoint", "Publish">> /\ mode = "Away" /\ Closed
      \/ plan' = <<"StartProvisioning", "Publish">> /\ InStationary /\ Closed
      \/ plan' = <<"StartProvisioning">> /\ InStationary /\ Closed
      \/ plan' = <<"Download", "Drain", "Restore">>
           /\ InStationary /\ ~provisioning /\ access # "ReadWrite"
           /\ beforeOta = IF listening THEN "ReadWrite" ELSE "Disabled"
  BY <1>1, Tails DEF Make, Clear
<1> QED
  BY <1>2 DEF PointInv, Clear, Rest, InStationary, Closed, Quiet, endpointVars, queueVars, apiVars

LEMMA StopEndpointStep ==
  ASSUME PointInv, StopEndpoint
  PROVE  PointInv'
<1>1. \/ plan = <<"StopEndpoint", "Publish">> /\ mode = "Away" /\ Closed /\ fifo = <<>>
  BY DEF PointInv, Make, StopEndpoint
<1>2. \/ plan' = <<"Publish">> /\ mode = "Away" /\ Closed /\ fifo = <<>>
  BY <1>1, Tails DEF Make, StopEndpoint
<1> QED
  BY <1>2 DEF PointInv, StopEndpoint, Rest, InStationary, Closed, Quiet, endpointVars, queueVars, apiVars

LEMMA StartProvisioningStep ==
  ASSUME PointInv, StartProvisioning
  PROVE  PointInv'
<1>1. \/ plan = <<"StartProvisioning", "Publish">> /\ InStationary /\ Closed
      \/ plan = <<"StartProvisioning">> /\ InStationary /\ Closed
  BY DEF PointInv, Make, StartProvisioning
<1>2. \/ plan' = <<"Publish">> /\ InStationary /\ Closed
      \/ plan' = <<>> /\ InStationary /\ Closed
  BY <1>1, Tails DEF Make, StartProvisioning
<1> QED
  BY <1>2 DEF PointInv, StartProvisioning, Rest, InStationary, Closed, Quiet, endpointVars, queueVars, apiVars

LEMMA EndProvisioningStep ==
  ASSUME PointInv, EndProvisioning
  PROVE  PointInv'
<1>1. \/ plan = <<"EndProvisioning", "Activate">> /\ InStationary /\ Rest
  BY DEF PointInv, Make, EndProvisioning
<1>2. \/ plan' = <<"Activate">> /\ InStationary /\ Rest
  BY <1>1, Tails DEF Make, EndProvisioning
<1> QED
  BY <1>2 DEF PointInv, EndProvisioning, Rest, InStationary, Closed, Quiet, endpointVars, queueVars, apiVars

LEMMA ActivateStep ==
  ASSUME PointInv, Activate
  PROVE  PointInv'
<1>1. \/ plan = <<"Activate">> /\ InStationary /\ Rest /\ ~provisioning
  BY DEF PointInv, Make, Activate
<1>2. \/ plan' = <<>> /\ InStationary /\ Rest /\ ~provisioning
  BY <1>1, Tails DEF Make, Activate
<1> QED
  BY <1>2 DEF PointInv, Activate, Rest, InStationary, Closed, Quiet, endpointVars, queueVars, apiVars

LEMMA GateStep ==
  ASSUME PointInv, Gate
  PROVE  PointInv'
<1>1. \/ plan = <<"Gate", "Clear", "Download", "Drain", "Restore">> /\ InStationary /\ Rest /\ ~provisioning
  BY DEF PointInv, Make, Gate
<1>2. \/ plan' = <<"Clear", "Download", "Drain", "Restore">> /\ InStationary /\ Rest /\ ~provisioning
  BY <1>1, Tails DEF Make, Gate
<1> QED
  BY <1>2 DEF PointInv, Gate, Rest, InStationary, Closed, Quiet, endpointVars, queueVars, apiVars

LEMMA DownloadStep ==
  ASSUME PointInv, Download
  PROVE  PointInv'
<1>1. \/ plan = <<"Download", "Drain", "Restore">> /\ fifo = <<>>
           /\ InStationary /\ ~provisioning /\ access # "ReadWrite"
           /\ beforeOta = IF listening THEN "ReadWrite" ELSE "Disabled"
      \/ plan = <<"Download", "Drain">> /\ mode = "Away" /\ Rest
  BY DEF PointInv, Make, Download
<1>2. \/ plan' = <<"Drain", "Restore">> /\ fifo = <<>>
           /\ InStationary /\ ~provisioning /\ access # "ReadWrite"
           /\ beforeOta = IF listening THEN "ReadWrite" ELSE "Disabled"
      \/ plan' = <<"Drain">> /\ mode = "Away" /\ Rest
  BY <1>1, Tails DEF Make, Download
<1> QED
  BY <1>2 DEF PointInv, Download, Rest, InStationary, Closed, Quiet, endpointVars, queueVars, apiVars

LEMMA DrainStep ==
  ASSUME PointInv, Drain
  PROVE  PointInv'
<1>1. \/ plan = <<"Drain", "Restore">> /\ fifo = <<>>
           /\ InStationary /\ ~provisioning /\ access # "ReadWrite"
           /\ beforeOta = IF listening THEN "ReadWrite" ELSE "Disabled"
      \/ plan = <<"Drain">> /\ mode = "Away" /\ Rest
  BY DEF PointInv, Make, Drain
<1>2. \/ plan' = <<"Restore">> /\ fifo = <<>>
           /\ InStationary /\ ~provisioning /\ access # "ReadWrite"
           /\ beforeOta = IF listening THEN "ReadWrite" ELSE "Disabled"
      \/ plan' = <<>> /\ mode = "Away" /\ Rest
  BY <1>1, Tails DEF Make, Drain
<1> QED
  BY <1>2 DEF PointInv, Drain, Rest, InStationary, Closed, Quiet, endpointVars, queueVars, apiVars

LEMMA RestoreStep ==
  ASSUME PointInv, Restore
  PROVE  PointInv'
<1>1. \/ plan = <<"Restore">> /\ fifo = <<>>
           /\ InStationary /\ ~provisioning /\ access # "ReadWrite"
           /\ beforeOta = IF listening THEN "ReadWrite" ELSE "Disabled"
  BY DEF PointInv, Make, Restore
<1>2. \/ plan' = <<>> /\ fifo = <<>>
           /\ InStationary /\ ~provisioning /\ access # "ReadWrite"
           /\ beforeOta = IF listening THEN "ReadWrite" ELSE "Disabled"
  BY <1>1, Tails DEF Make, Restore
<1> QED
  BY <1>2 DEF PointInv, Restore, Rest, InStationary, Closed, Quiet, endpointVars, queueVars, apiVars
-----------------------------------------------------------------------------
(* Requests and events: where a handler begins.                             *)

LEMMA RebootStep ==
  ASSUME PointInv, NEW networks \in BOOLEAN, Reboot(networks)
  PROVE  PointInv'
<1>1. \/ mode = "Away" /\ plan' = <<>>
      \/ /\ InStationary
         /\ \/ plan' = <<"Disable", "Publish">>
            \/ plan' = <<"Disable", "Clear", "StartProvisioning", "Publish">>
  BY DEF PointInv, Reboot, EnterStationary, InStationary
<1>2. /\ access' = "Disabled" /\ listening' = FALSE /\ provisioning' = FALSE
      /\ mode' = mode /\ fifo' = <<>>
  BY DEF Reboot
<1> QED
  BY <1>1, <1>2 DEF PointInv, Rest, InStationary, Quiet

\* The httpd task appends only while the access is open, which it is nowhere that the
\* queue has to be empty.
LEMMA HttpdStep ==
  ASSUME PointInv, Httpd
  PROVE  PointInv'
<1>1. /\ fifo' = fifo \/ access = "ReadWrite"
      /\ UNCHANGED <<mode, provisioning, listening, plan, beforeOta, access>>
  BY DEF Httpd, BeginPut, FinishPut, Trigger, Admissible, HttpdFree, AppendAndSignal, queueVars,
         orchestratorVars, endpointVars
<1> QED
  BY <1>1 DEF PointInv, Rest, InStationary, Closed, Quiet

\* A commit, whether the save succeeds or not, leaves the endpoint alone.
LEMMA CommitStep ==
  ASSUME PointInv, plan = <<>>, plan' = <<>> \/ plan' = <<"Publish">>,
         UNCHANGED <<mode, provisioning, listening, access>>,
         fifo = <<>> => fifo' = <<>>
  PROVE  PointInv'
BY DEF PointInv, Rest

LEMMA EventStep ==
  ASSUME PointInv, mode \in {"Stationary", "Away"}, Event
  PROVE  PointInv'
<1>1. plan = <<>> /\ Rest
  BY DEF PointInv, Event, HandleWake, CloudFetch, UiChange, ProvisioningConnected, ChangeMode,
         FactoryReset, EnterProvisioning, WifiUp, EnterOta, Idle
<1>2. ASSUME NEW saved \in BOOLEAN, HandleWake(saved)
      PROVE  PointInv'
  <2>1. plan' = <<>> \/ plan' = <<"Publish">>
    BY <1>1, <1>2 DEF HandleWake, ApplyConfigUpdate, Commit
  <2>2. UNCHANGED <<mode, provisioning, listening, access>> /\ (fifo = <<>> => fifo' = <<>>)
    BY <1>2 DEF HandleWake, Poppable, endpointVars
  <2> QED
    BY <1>1, <2>1, <2>2, CommitStep
<1>3. ASSUME NEW saved \in BOOLEAN, NEW change \in Changes, CloudFetch(change, saved)
      PROVE  PointInv'
  <2>1. plan' = <<>> \/ plan' = <<"Publish">>
    BY <1>1, <1>3 DEF CloudFetch, ApplyConfigUpdate, Commit
  <2>2. UNCHANGED <<mode, provisioning, listening, access>> /\ (fifo = <<>> => fifo' = <<>>)
    BY <1>3 DEF CloudFetch, endpointVars, apiVars, queueVars
  <2> QED
    BY <1>1, <2>1, <2>2, CommitStep
<1>4. ASSUME NEW saved \in BOOLEAN, NEW value \in {"a", "b"}, UiChange(value, saved)
      PROVE  PointInv'
  <2>1. plan' = <<>> \/ plan' = <<"Publish">>
    BY <1>1, <1>4 DEF UiChange, Commit
  <2>2. UNCHANGED <<mode, provisioning, listening, access>> /\ (fifo = <<>> => fifo' = <<>>)
    BY <1>4 DEF UiChange, endpointVars, apiVars, queueVars
  <2> QED
    BY <1>1, <2>1, <2>2, CommitStep
<1>5. ASSUME NEW saved \in BOOLEAN, NEW cloud \in {"on", "off"}, ProvisioningConnected(cloud, saved)
      PROVE  PointInv'
  <2>1. InStationary
    BY <1>1, <1>5 DEF ProvisioningConnected, Rest, InStationary
  <2>2. \/ plan' = <<"Publish", "EndProvisioning", "Activate">>
        \/ plan' = <<"EndProvisioning", "Activate">>
    BY <1>5 DEF ProvisioningConnected, Commit
  <2>3. Rest' /\ InStationary'
    BY <1>1, <1>5, <2>1 DEF ProvisioningConnected, Rest, InStationary, endpointVars, apiVars, queueVars
  <2> QED
    BY <2>2, <2>3 DEF PointInv
<1>6. ASSUME NEW saved \in BOOLEAN, ChangeMode(saved)
      PROVE  PointInv'
  <2>1. CASE mode = "Stationary"
    BY <1>6, <2>1 DEF ChangeMode, LeaveStationary, PointInv
  <2>2. CASE mode = "Away"
    BY <1>1, <1>6, <2>2 DEF ChangeMode, EnterStationary, PointInv, Rest, Quiet, InStationary,
                            endpointVars
  <2> QED
    BY <2>1, <2>2
<1>7. CASE FactoryReset
  <2>1. CASE mode = "Stationary"
    BY <1>7, <2>1 DEF FactoryReset, LeaveStationary, PointInv
  <2>2. CASE mode = "Away"
    BY <1>1, <1>7, <2>2 DEF FactoryReset, PointInv, Rest, endpointVars, apiVars, queueVars
  <2> QED
    BY <2>1, <2>2
<1>8. CASE EnterProvisioning
  BY <1>8 DEF EnterProvisioning, PointInv, InStationary
<1>9. CASE WifiUp
  BY <1>1, <1>9 DEF WifiUp, PointInv, Rest, InStationary, endpointVars, apiVars, queueVars
<1>10. CASE EnterOta
  BY <1>1, <1>10 DEF EnterOta, PointInv, Rest, InStationary, endpointVars, apiVars, queueVars
<1> QED
  BY <1>2, <1>3, <1>4, <1>5, <1>6, <1>7, <1>8, <1>9, <1>10 DEF Event

LEMMA CallStep ==
  ASSUME PointInv, Call
  PROVE  PointInv'
BY PublishStep, DisableStep, ClearStep, StopEndpointStep, StartProvisioningStep,
   EndProvisioningStep, ActivateStep, GateStep, DownloadStep, DrainStep, RestoreStep, RebootStep
   DEF Call
-----------------------------------------------------------------------------
(* The queue, and the types.                                                *)

LEMMA EndpointStep ==
  ASSUME EndpointTypes, [Next]_vars
  PROVE  EndpointTypes'
<1> USE DEF EndpointTypes, Accesses
<1>1. CASE UNCHANGED vars
  BY <1>1 DEF vars
<1>2. CASE Httpd
  BY <1>2 DEF Httpd, BeginPut, FinishPut, Trigger, orchestratorVars, endpointVars
<1>3. CASE Event
  BY <1>3 DEF Event, HandleWake, CloudFetch, UiChange, ProvisioningConnected, ChangeMode,
              FactoryReset, EnterProvisioning, WifiUp, EnterOta, apiVars, endpointVars
<1>4. CASE Call
  BY <1>4 DEF Call, Publish, Disable, Clear, StopEndpoint, StartProvisioning, EndProvisioning,
              Activate, Gate, Download, Drain, Restore, Reboot, apiVars, endpointVars
<1> QED
  BY <1>1, <1>2, <1>3, <1>4 DEF Next

LEMMA Nonempty ==
  ASSUME NEW S, NEW s \in Seq(S), s # <<>>
  PROVE  s[1] \in S /\ Tail(s) \in Seq(S)
OBVIOUS

LEMMA Element ==
  ASSUME NEW S, NEW s \in Seq(S), NEW i \in DOMAIN s
  PROVE  s[i] \in S /\ i <= Len(s)
OBVIOUS

LEMMA TailFits ==
  ASSUME NEW S, NEW s \in Seq(S), s # <<>>, NEW n \in Nat, Len(s) <= n
  PROVE  Tail(s) \in Seq(S) /\ Len(Tail(s)) <= n
OBVIOUS

\* A request and its wake event are appended together, below both depths.
LEMMA AppendStep ==
  ASSUME QueueInv, taken < MaxRequests, Len(fifo) < FifoDepth,
         NEW kind \in {"Config", "Action"}, NEW change \in Changes \cup {<<>>},
         NEW sent \in BOOLEAN, AppendAndSignal(kind, change, sent),
         UNCHANGED plan, put' = <<>>
  PROVE  QueueInv'
<1> USE LocalApiAssumption DEF QueueInv
<1>1. CASE UNCHANGED queueVars
  BY <1>1 DEF queueVars
<1>2. CASE /\ sent /\ Len(wakes) < EventDepth
           /\ fifo' = Append(fifo, [id |-> taken + 1, kind |-> kind, change |-> change])
           /\ wakes' = Append(wakes, [id |-> taken + 1, epoch |-> epoch])
           /\ taken' = taken + 1
           /\ UNCHANGED epoch
  <2>1. [id |-> taken + 1, kind |-> kind, change |-> change] \in Requests
    BY DEF Requests
  <2>2. fifo' \in Seq(Requests) /\ Len(fifo') <= FifoDepth
    BY <1>2, <2>1
  <2>3. [id |-> taken + 1, epoch |-> epoch] \in [id: 1..MaxRequests, epoch: 0..MaxEpoch]
    OBVIOUS
  <2>4. /\ wakes' \in Seq([id: 1..MaxRequests, epoch: 0..MaxEpoch])
        /\ Len(wakes') <= EventDepth
    BY <1>2, <2>3
  <2> QED
    BY <1>2, <2>2, <2>4
<1> QED
  BY <1>1, <1>2 DEF AppendAndSignal

LEMMA HttpdQueue ==
  ASSUME QueueInv, Httpd
  PROVE  QueueInv'
<1>1. ASSUME NEW change \in Changes, BeginPut(change)
      PROVE  QueueInv'
  <2>1. [change |-> change, epoch |-> epoch] \in [change: Changes, epoch: 0..MaxEpoch]
    BY DEF QueueInv
  <2>2. put' \in Seq([change: Changes, epoch: 0..MaxEpoch]) /\ Len(put') = 1
    BY <1>1, <2>1 DEF BeginPut
  <2> QED
    BY <1>1, <2>2 DEF BeginPut, HttpdFree, QueueInv, queueVars, orchestratorVars
<1>2. ASSUME NEW sent \in BOOLEAN, FinishPut(sent)
      PROVE  QueueInv'
  <2>1. CASE Admissible(put[1])
    <3>0. put # <<>> /\ put \in Seq([change: Changes, epoch: 0..MaxEpoch])
      BY <1>2 DEF FinishPut, QueueInv
    <3>1. put[1] \in [change: Changes, epoch: 0..MaxEpoch]
      BY ONLY <3>0, Nonempty
    <3>2. put[1].change \in Changes /\ taken < MaxRequests
      BY <3>0, <3>1 DEF QueueInv
    <3>3. AppendAndSignal("Config", put[1].change, sent) /\ put' = <<>> /\ UNCHANGED plan
      BY <1>2, <2>1 DEF FinishPut, orchestratorVars
    <3>4. Len(fifo) < FifoDepth
      BY <2>1 DEF Admissible
    <3> QED
      BY <3>2, <3>3, <3>4, AppendStep
  <2>2. CASE ~Admissible(put[1])
    BY <1>2, <2>2 DEF FinishPut, QueueInv, queueVars, orchestratorVars
  <2> QED
    BY <2>1, <2>2
<1>3. ASSUME NEW sent \in BOOLEAN, Trigger(sent)
      PROVE  QueueInv'
  BY <1>3, AppendStep DEF Trigger, HttpdFree, orchestratorVars
<1> QED
  BY <1>1, <1>2, <1>3 DEF Httpd

LEMMA EventQueue ==
  ASSUME QueueInv, Event
  PROVE  QueueInv'
<1>1. ASSUME NEW saved \in BOOLEAN, HandleWake(saved)
      PROVE  QueueInv'
  <2>1. plan' = <<>> \/ plan' = <<"Publish">>
    BY <1>1 DEF HandleWake, ApplyConfigUpdate, Commit, Idle
  <2>2. /\ wakes \in Seq([id: 1..MaxRequests, epoch: 0..MaxEpoch]) /\ wakes # <<>>
        /\ wakes' = Tail(wakes) /\ Len(wakes) <= EventDepth /\ EventDepth \in Nat
    BY <1>1, LocalApiAssumption DEF HandleWake, QueueInv
  <2> DEFINE T == Tail(wakes)
  <2>3. T \in Seq([id: 1..MaxRequests, epoch: 0..MaxEpoch]) /\ Len(T) <= EventDepth
    BY ONLY <2>2, TailFits
  <2>4. fifo \in Seq(Requests) /\ Len(fifo) <= FifoDepth
    BY DEF QueueInv
  <2>5. FifoDepth \in Nat
    BY LocalApiAssumption
  <2> DEFINE R == Tail(fifo)
  <2>6. fifo # <<>> => R \in Seq(Requests) /\ Len(R) <= FifoDepth
    BY ONLY <2>4, <2>5, TailFits
  <2>7. UNCHANGED fifo \/ (fifo # <<>> /\ fifo' = R)
    BY <1>1 DEF HandleWake, Poppable
  <2>8. fifo' \in Seq(Requests) /\ Len(fifo') <= FifoDepth
    BY <2>4, <2>6, <2>7
  <2>9. wakes' = T /\ UNCHANGED <<epoch, put, taken>> /\ ~Awaits(plan', "Clear")
    BY <1>1, <2>1 DEF HandleWake, Awaits
  <2> HIDE DEF T, R
  <2> QED
    BY <2>3, <2>8, <2>9 DEF QueueInv
<1>2. CASE /\ Awaits(plan', "Clear") => MayClear
           /\ UNCHANGED <<fifo, epoch, wakes, put, taken>>
  BY <1>2, LocalApiAssumption DEF QueueInv, MayClear
<1>3. ASSUME NEW saved \in BOOLEAN, NEW change \in Changes, CloudFetch(change, saved)
      PROVE  plan' = <<>> \/ plan' = <<"Publish">>
  BY <1>3 DEF CloudFetch, ApplyConfigUpdate, Commit, Idle
<1>4. ASSUME NEW saved \in BOOLEAN, NEW value \in {"a", "b"}, UiChange(value, saved)
      PROVE  plan' = <<>> \/ plan' = <<"Publish">>
  BY <1>4 DEF UiChange, Commit, Idle
<1>5. ASSUME NEW saved \in BOOLEAN, NEW cloud \in {"on", "off"}, ProvisioningConnected(cloud, saved)
      PROVE  \/ plan' = <<"Publish", "EndProvisioning", "Activate">>
             \/ plan' = <<"EndProvisioning", "Activate">>
  BY <1>5 DEF ProvisioningConnected, Commit
<1>6. /\ ~Awaits(<<>>, "Clear") /\ ~Awaits(<<"Publish">>, "Clear") /\ ~Awaits(<<"Activate">>, "Clear")
      /\ ~Awaits(<<"Publish", "EndProvisioning", "Activate">>, "Clear")
      /\ ~Awaits(<<"EndProvisioning", "Activate">>, "Clear")
  BY DEF Awaits
<1>7. ASSUME NEW saved \in BOOLEAN, ChangeMode(saved)
      PROVE  QueueInv'
  BY <1>2, <1>7 DEF ChangeMode, apiVars, queueVars
<1>8. CASE FactoryReset \/ EnterProvisioning \/ EnterOta
  BY <1>2, <1>8 DEF FactoryReset, EnterProvisioning, EnterOta, apiVars, queueVars
<1>9. CASE WifiUp
  BY <1>2, <1>6, <1>9 DEF WifiUp, apiVars, queueVars
<1>10. ASSUME NEW saved \in BOOLEAN, NEW change \in Changes, CloudFetch(change, saved)
       PROVE  QueueInv'
  BY <1>2, <1>3, <1>6, <1>10 DEF CloudFetch, apiVars, queueVars
<1>11. ASSUME NEW saved \in BOOLEAN, NEW value \in {"a", "b"}, UiChange(value, saved)
       PROVE  QueueInv'
  BY <1>2, <1>4, <1>6, <1>11 DEF UiChange, apiVars, queueVars
<1>12. ASSUME NEW saved \in BOOLEAN, NEW cloud \in {"on", "off"}, ProvisioningConnected(cloud, saved)
       PROVE  QueueInv'
  BY <1>2, <1>5, <1>6, <1>12 DEF ProvisioningConnected, apiVars, queueVars
<1> QED
  BY <1>1, <1>7, <1>8, <1>9, <1>10, <1>11, <1>12 DEF Event
-----------------------------------------------------------------------------
(* The settings and the snapshot.                                           *)

\* A change gives the fields it names values of their types.
LEMMA MergeTyped ==
  ASSUME NEW s \in Settings, NEW change \in Changes \cup {<<>>}, NEW from
  PROVE  Merge(change, from, s) \in Settings
<1>1. IsChange(change)
  BY LocalApiAssumption DEF IsChange
<1>2. /\ s.control \in Controls /\ s.cloud \in {"on", "off"} /\ s.other \in {"a", "b"}
  BY DEF Settings
<1> QED
  BY <1>1, <1>2 DEF Merge, Settings, IsChange

LEMMA CallsTyped ==
  /\ <<>> \in Seq(Calls)
  /\ <<"Publish">> \in Seq(Calls)
  /\ <<"Publish", "EndProvisioning", "Activate">> \in Seq(Calls)
  /\ <<"Disable", "Clear", "StopEndpoint", "Publish">> \in Seq(Calls)
  /\ <<"Clear", "StopEndpoint", "Publish">> \in Seq(Calls)
  /\ <<"StopEndpoint", "Publish">> \in Seq(Calls)
  /\ <<"Disable", "Publish">> \in Seq(Calls)
  /\ <<"Disable", "Clear", "StartProvisioning", "Publish">> \in Seq(Calls)
  /\ <<"Clear", "StartProvisioning", "Publish">> \in Seq(Calls)
  /\ <<"StartProvisioning", "Publish">> \in Seq(Calls)
  /\ <<"Disable", "Clear", "StartProvisioning">> \in Seq(Calls)
  /\ <<"Clear", "StartProvisioning">> \in Seq(Calls)
  /\ <<"StartProvisioning">> \in Seq(Calls)
  /\ <<"EndProvisioning", "Activate">> \in Seq(Calls)
  /\ <<"Activate">> \in Seq(Calls)
  /\ <<"Gate", "Clear", "Download", "Drain", "Restore">> \in Seq(Calls)
  /\ <<"Clear", "Download", "Drain", "Restore">> \in Seq(Calls)
  /\ <<"Download", "Drain", "Restore">> \in Seq(Calls)
  /\ <<"Drain", "Restore">> \in Seq(Calls)
  /\ <<"Restore">> \in Seq(Calls)
  /\ <<"Download", "Drain">> \in Seq(Calls)
  /\ <<"Drain">> \in Seq(Calls)
BY DEF Calls

LEMMA PointPlans == PointInv => plan \in Seq(Calls)
BY CallsTyped DEF PointInv

\* Only a publication leads to a point at which the snapshot has to be current.
LEMMA PublishedOnly ==
  ASSUME PointInv, plan # <<>>, Head(plan) # "Publish", plan' = Tail(plan), ~Awaits(plan', "Publish")
  PROVE  ~Awaits(plan, "Publish")
<1>1. \A i \in DOMAIN plan : i = 1 \/ (i - 1 \in DOMAIN plan' /\ plan'[i - 1] = plan[i])
  BY PointPlans
<1> QED
  BY <1>1, PointPlans DEF Awaits

LEMMA SettingsCall ==
  ASSUME PointInv, SettingsInv, Call
  PROVE  SettingsInv'
<1> USE DEF SettingsInv, SettingsStayValid
<1>1. CASE Publish
  BY <1>1 DEF Publish
<1>2. ASSUME NEW networks \in BOOLEAN, Reboot(networks)
      PROVE  SettingsInv'
  BY <1>2 DEF Reboot
<1>3. CASE /\ plan # <<>> /\ Head(plan) # "Publish" /\ plan' = Tail(plan)
           /\ UNCHANGED <<settings, active>>
  BY <1>3, PublishedOnly
<1> QED
  BY <1>1, <1>2, <1>3
     DEF Call, Make, Disable, Clear, StopEndpoint, StartProvisioning, EndProvisioning, Activate,
         Gate, Download, Drain, Restore, apiVars

\* A commit brings a valid candidate into force, to be published before anything else.
LEMMA CommitSettings ==
  ASSUME SettingsInv, plan = <<>>, NEW candidate \in Settings, Valid(candidate),
         NEW saved \in BOOLEAN, NEW rest \in {<<>>, <<"EndProvisioning", "Activate">>},
         Commit(candidate, saved, rest), UNCHANGED active
  PROVE  SettingsInv'
<1>1. ~Awaits(plan, "Publish")
  BY DEF Awaits
<1>2. saved => Awaits(plan', "Publish")
  BY DEF Commit, Awaits
<1> QED
  BY <1>1, <1>2 DEF Commit, SettingsInv, SettingsStayValid

LEMMA UpdateSettings ==
  ASSUME SettingsInv, plan = <<>>, NEW change \in Changes \cup {<<>>}, NEW from,
         NEW saved \in BOOLEAN, ApplyConfigUpdate(change, from, saved), UNCHANGED active
  PROVE  SettingsInv'
<1> DEFINE candidate == Merge(change, from, settings)
<1>1. CASE UNCHANGED <<settings, plan>>
  BY <1>1 DEF SettingsInv, SettingsStayValid
<1>2. CASE Valid(candidate) /\ Commit(candidate, saved, <<>>)
  BY <1>2, MergeTyped, CommitSettings DEF SettingsInv
<1> QED
  BY <1>1, <1>2 DEF ApplyConfigUpdate

LEMMA EventSettings ==
  ASSUME QueueInv, SettingsInv, Event
  PROVE  SettingsInv'
<1>1. plan = <<>> /\ ~Awaits(plan, "Publish")
  BY DEF Event, HandleWake, CloudFetch, UiChange, ProvisioningConnected, ChangeMode, Awaits,
         FactoryReset, EnterProvisioning, WifiUp, EnterOta, Idle
<1>2. ASSUME NEW saved \in BOOLEAN, HandleWake(saved)
      PROVE  SettingsInv'
  <2>1. CASE UNCHANGED <<settings, plan>>
    BY <1>2, <2>1 DEF HandleWake, SettingsInv, SettingsStayValid
  <2>2. CASE fifo # <<>> /\ ApplyConfigUpdate(Head(fifo).change, "LocalServer", saved)
    <3>1. fifo # <<>> /\ fifo \in Seq(Requests)
      BY <2>2 DEF QueueInv
    <3>2. fifo[1] \in Requests
      BY ONLY <3>1, Nonempty
    <3>3. Head(fifo) = fifo[1]
      BY <3>1
    <3>4. Head(fifo).change \in Changes \cup {<<>>}
      BY <3>2, <3>3 DEF Requests
    <3> QED
      BY <1>1, <1>2, <2>2, <3>4, UpdateSettings DEF HandleWake
  <2> QED
    BY <1>2, <2>1, <2>2 DEF HandleWake, Poppable
<1>3. ASSUME NEW saved \in BOOLEAN, NEW change \in Changes, CloudFetch(change, saved)
      PROVE  SettingsInv'
  BY <1>1, <1>3, UpdateSettings DEF CloudFetch, apiVars
<1>4. ASSUME NEW saved \in BOOLEAN, NEW value \in {"a", "b"}, UiChange(value, saved)
      PROVE  SettingsInv'
  <2>1. [settings EXCEPT !.other = value] \in Settings /\ Valid([settings EXCEPT !.other = value])
    BY DEF SettingsInv, SettingsStayValid, Settings, Valid
  <2> QED
    BY <1>1, <1>4, <2>1, CommitSettings DEF UiChange, apiVars
<1>5. ASSUME NEW saved \in BOOLEAN, NEW cloud \in {"on", "off"}, ProvisioningConnected(cloud, saved)
      PROVE  SettingsInv'
  <2> DEFINE candidate == [settings EXCEPT !.cloud = cloud,
                             !.control = IF cloud = "off" /\ @ = "Cloud" THEN "Local" ELSE @]
  <2>1. candidate \in Settings /\ Valid(candidate)
    BY DEF SettingsInv, Settings, Controls, Valid
  <2>2. Commit(candidate, saved, <<"EndProvisioning", "Activate">>) /\ UNCHANGED active
    BY <1>5 DEF ProvisioningConnected, apiVars
  <2> QED
    BY <1>1, <2>1, <2>2, CommitSettings
<1>6. CASE FactoryReset
  <2>1. settings' \in Settings /\ Valid(settings)'
    BY <1>6 DEF FactoryReset, Settings, Controls, Valid
  <2>2. Awaits(plan', "Publish")
    BY <1>6 DEF FactoryReset, LeaveStationary, Awaits
  <2> QED
    BY <1>6, <2>1, <2>2 DEF FactoryReset, SettingsInv, SettingsStayValid, Valid, apiVars
<1>7. ASSUME UNCHANGED <<settings, active>>
      PROVE  SettingsInv'
  BY <1>1, <1>7 DEF SettingsInv, SettingsStayValid
<1> QED
  BY <1>2, <1>3, <1>4, <1>5, <1>6, <1>7
     DEF Event, ChangeMode, EnterProvisioning, WifiUp, EnterOta, apiVars

-----------------------------------------------------------------------------
(* The wake events and the queue.                                           *)

\* No wake event is of a later epoch: the one that a discarded request left behind is of
\* none that the FIFO will have again before the event queue is emptied.
WakeInv ==
  /\ WakeMatchesQueue
  /\ \A i \in DOMAIN wakes : wakes[i].epoch <= epoch

\* An action that leaves the FIFO, its epoch and the events alone.
LEMMA WakesAlone ==
  ASSUME WakeInv, UNCHANGED <<fifo, epoch, wakes>>
  PROVE  WakeInv'
BY DEF WakeInv, WakeMatchesQueue

LEMMA WakesEmpty ==
  ASSUME fifo' = <<>>, wakes' = <<>>
  PROVE  WakeInv'
BY DEF WakeInv, WakeMatchesQueue

LEMMA AppendWakes ==
  ASSUME QueueInv, WakeInv, taken < MaxRequests,
         NEW kind, NEW change, NEW sent \in BOOLEAN, AppendAndSignal(kind, change, sent)
  PROVE  WakeInv'
<1>1. CASE UNCHANGED queueVars
  BY <1>1, WakesAlone DEF queueVars
<1>2. CASE /\ fifo' = Append(fifo, [id |-> taken + 1, kind |-> kind, change |-> change])
           /\ wakes' = Append(wakes, [id |-> taken + 1, epoch |-> epoch])
           /\ UNCHANGED epoch
  <2> DEFINE request == [id |-> taken + 1, kind |-> kind, change |-> change]
             wake == [id |-> taken + 1, epoch |-> epoch]
             older == Len(wakes) - Len(fifo)
  <2>1. request.id = taken + 1 /\ wake.id = taken + 1 /\ wake.epoch = epoch
    OBVIOUS
  <2>2. /\ fifo \in Seq(Requests) /\ wakes \in Seq([id: 1..MaxRequests, epoch: 0..MaxEpoch])
        /\ epoch \in Nat
    BY LocalApiAssumption DEF QueueInv
  <2>3. fifo' = Append(fifo, request) /\ wakes' = Append(wakes, wake)
    BY <1>2
  <2> HIDE DEF request, wake
  <2>4. /\ Len(fifo') = Len(fifo) + 1 /\ fifo'[Len(fifo) + 1] = request
        /\ \A i \in DOMAIN fifo : fifo'[i] = fifo[i]
    BY <2>2, <2>3
  <2>5. /\ Len(wakes') = Len(wakes) + 1 /\ wakes'[Len(wakes) + 1] = wake
        /\ \A i \in DOMAIN wakes : wakes'[i] = wakes[i]
        /\ DOMAIN wakes' = 1..(Len(wakes) + 1) /\ DOMAIN wakes = 1..Len(wakes)
    BY <2>2, <2>3
  <2>6. Len(wakes') - Len(fifo') = older /\ older \in Nat
    BY <2>2, <2>4, <2>5 DEF WakeInv, WakeMatchesQueue
  <2>7. ASSUME NEW i \in DOMAIN wakes'
        PROVE  /\ wakes'[i].epoch = epoch' <=> i > older
               /\ i > older => wakes'[i].id = fifo'[i - older].id
               /\ wakes'[i].epoch <= epoch'
    <3>1. CASE i \in DOMAIN wakes
      <4>1. /\ wakes[i].epoch = epoch <=> i > older
            /\ i > older => wakes[i].id = fifo[i - older].id
            /\ wakes[i].epoch <= epoch
        BY <3>1 DEF WakeInv, WakeMatchesQueue
      <4>2. i > older => i - older \in DOMAIN fifo
        BY <2>2, <2>5, <2>6, <3>1
      <4> QED
        BY <1>2, <2>4, <2>5, <3>1, <4>1, <4>2
    <3>2. CASE i = Len(wakes) + 1
      <4>1. i > older /\ i - older = Len(fifo) + 1
        BY <2>2, <2>6, <3>2
      <4> QED
        BY <1>2, <2>1, <2>2, <2>4, <2>5, <3>2, <4>1
    <3> QED
      BY <2>2, <2>5, <3>1, <3>2
  <2> QED
    BY <2>6, <2>7 DEF WakeInv, WakeMatchesQueue
<1> QED
  BY <1>1, <1>2 DEF AppendAndSignal

LEMMA HttpdWakes ==
  ASSUME QueueInv, WakeInv, Httpd
  PROVE  WakeInv'
<1>1. ASSUME NEW change \in Changes, BeginPut(change)
      PROVE  WakeInv'
  BY <1>1, WakesAlone DEF BeginPut, queueVars
<1>2. ASSUME NEW sent \in BOOLEAN, FinishPut(sent)
      PROVE  WakeInv'
  BY <1>2, WakesAlone, AppendWakes DEF FinishPut, QueueInv, queueVars
<1>3. ASSUME NEW sent \in BOOLEAN, Trigger(sent)
      PROVE  WakeInv'
  BY <1>3, AppendWakes DEF Trigger, HttpdFree
<1> QED
  BY <1>1, <1>2, <1>3 DEF Httpd

\* The event at the head is of the current epoch exactly when it is the one of the request
\* at the head; an older one is dropped without a request.
LEMMA HandleWakes ==
  ASSUME QueueInv, WakeInv, NEW saved \in BOOLEAN, HandleWake(saved)
  PROVE  WakeInv'
<1> DEFINE older == Len(wakes) - Len(fifo)
<1>1. /\ fifo \in Seq(Requests) /\ wakes \in Seq([id: 1..MaxRequests, epoch: 0..MaxEpoch])
      /\ wakes # <<>> /\ wakes' = Tail(wakes) /\ epoch' = epoch
  BY DEF QueueInv, HandleWake
<1>2. /\ Len(wakes') = Len(wakes) - 1 /\ Len(wakes) >= 1
      /\ DOMAIN wakes = 1..Len(wakes) /\ DOMAIN wakes' = 1..(Len(wakes) - 1)
      /\ \A i \in DOMAIN wakes' : wakes'[i] = wakes[i + 1]
      /\ Head(wakes) = wakes[1]
  BY <1>1
<1>3. older \in Nat /\ Len(fifo) \in Nat /\ Len(wakes) \in Nat
  BY <1>1 DEF WakeMatchesQueue, WakeInv
<1>4. wakes[1].epoch = epoch <=> older = 0
  BY <1>2, <1>3 DEF WakeMatchesQueue, WakeInv
<1>5. Poppable(Head(wakes)) <=> older = 0
  <2>1. older = 0 => fifo # <<>>
    BY <1>1, <1>2
  <2> QED
    BY <1>2, <1>4, <2>1 DEF Poppable
<1> DEFINE Placed(wake, j) == /\ wake.epoch = epoch <=> j > older
                              /\ j > older => wake.id = fifo[j - older].id
                              /\ wake.epoch <= epoch
<1>9. \A j \in DOMAIN wakes : Placed(wakes[j], j)
  BY DEF WakeMatchesQueue, WakeInv
<1>6. \A i \in DOMAIN wakes' : Placed(wakes'[i], i + 1)
  <2> TAKE i \in DOMAIN wakes'
  <2>1. i + 1 \in DOMAIN wakes /\ wakes'[i] = wakes[i + 1]
    BY <1>2, <1>3
  <2> HIDE DEF Placed
  <2>2. Placed(wakes[i + 1], i + 1)
    BY <1>9, <2>1, Zenon
  <2> QED
    BY <2>1, <2>2, Zenon
<1>10. epoch' = epoch
  BY <1>1
<1>7. CASE older = 0
  <2>1. fifo' = Tail(fifo) /\ fifo # <<>>
    BY <1>5, <1>7 DEF HandleWake, Poppable
  <2>2. Len(fifo') = Len(fifo) - 1 /\ \A i \in 1..(Len(fifo) - 1) : fifo'[i] = fifo[i + 1]
    BY <1>1, <2>1
  <2>3. Len(wakes') - Len(fifo') = 0
    BY <1>2, <1>3, <1>7, <2>2
  <2>4. \A i \in DOMAIN wakes' :
          /\ wakes'[i].epoch = epoch' <=> i > 0
          /\ i > 0 => wakes'[i].id = fifo'[i].id
          /\ wakes'[i].epoch <= epoch'
    <3> TAKE i \in DOMAIN wakes'
    <3>1. i \in 1..(Len(fifo) - 1)
      BY <1>2, <1>3, <1>7
    <3>2. Placed(wakes'[i], i + 1)
      <4> HIDE DEF Placed
      <4> QED
        BY <1>6, Zenon
    <3>3. i + 1 > older /\ i > 0 /\ (i + 1) - older = i + 1
      BY <1>3, <1>7, <3>1
    <3>4. fifo'[i] = fifo[i + 1]
      BY <2>2, <3>1, Zenon
    <3> HIDE DEF older
    <3>5. wakes'[i].epoch = epoch' <=> i > 0
      BY <1>10, <3>2, <3>3
    <3>6. i > 0 => wakes'[i].id = fifo'[i].id
      BY <3>2, <3>3, <3>4
    <3>7. wakes'[i].epoch <= epoch'
      BY <1>10, <3>2
    <3> QED
      BY <3>5, <3>6, <3>7
  <2>5. \A i \in DOMAIN wakes' : i - 0 = i
    BY <1>2, <1>3
  <2> QED
    BY <2>3, <2>4, <2>5 DEF WakeInv, WakeMatchesQueue
<1>8. CASE older # 0
  <2>1. fifo' = fifo
    BY <1>5, <1>8 DEF HandleWake
  <2>2. Len(wakes') - Len(fifo') = older - 1 /\ older - 1 >= 0
    BY <1>2, <1>3, <1>8, <2>1
  <2>3. \A i \in DOMAIN wakes' : (i + 1 > older <=> i > older - 1) /\ (i + 1) - older = i - (older - 1)
    BY <1>2, <1>3
  <2>4. ASSUME NEW i \in DOMAIN wakes'
        PROVE  /\ wakes'[i].epoch = epoch' <=> i > older - 1
               /\ i > older - 1 => wakes'[i].id = fifo'[i - (older - 1)].id
               /\ wakes'[i].epoch <= epoch'
    <3>1. Placed(wakes'[i], i + 1)
      <4> HIDE DEF Placed
      <4> QED
        BY <1>6, Zenon
    <3>2. (i + 1 > older <=> i > older - 1) /\ (i + 1) - older = i - (older - 1)
      BY <2>3
    <3> HIDE DEF older
    <3>3. wakes'[i].epoch = epoch' <=> i > older - 1
      BY <1>10, <3>1, <3>2
    <3>4. i > older - 1 => wakes'[i].id = fifo'[i - (older - 1)].id
      BY <2>1, <3>1, <3>2
    <3>5. wakes'[i].epoch <= epoch'
      BY <1>10, <3>1
    <3> QED
      BY <3>3, <3>4, <3>5
  <2> HIDE DEF older, Placed
  <2> QED
    BY <2>2, <2>4 DEF WakeInv, WakeMatchesQueue
<1> QED
  BY <1>7, <1>8

LEMMA EventWakes ==
  ASSUME QueueInv, WakeInv, Event
  PROVE  WakeInv'
<1>1. ASSUME NEW saved \in BOOLEAN, HandleWake(saved)
      PROVE  WakeInv'
  BY <1>1, HandleWakes
<1>2. CASE UNCHANGED <<fifo, epoch, wakes>>
  BY <1>2, WakesAlone
<1> QED
  BY <1>1, <1>2
     DEF Event, CloudFetch, UiChange, ProvisioningConnected, ChangeMode, FactoryReset,
         EnterProvisioning, WifiUp, EnterOta, apiVars, queueVars

LEMMA CallWakes ==
  ASSUME PointInv, QueueInv, WakeInv, Call
  PROVE  WakeInv'
\* The new epoch is later than that of every event that waits.
<1>1. CASE Clear
  <2>1. /\ fifo' = <<>> /\ epoch' = epoch + 1 /\ wakes' = wakes /\ epoch \in Nat
        /\ wakes \in Seq([id: 1..MaxRequests, epoch: 0..MaxEpoch])
    BY <1>1, LocalApiAssumption DEF Clear, QueueInv
  <2>2. \A i \in DOMAIN wakes : wakes[i].epoch \in Nat /\ wakes[i].epoch <= epoch /\ i <= Len(wakes)
    <3> TAKE i \in DOMAIN wakes
    <3>1. wakes[i] \in [id: 1..MaxRequests, epoch: 0..MaxEpoch] /\ i <= Len(wakes)
      BY <2>1, Element
    <3>2. wakes[i].epoch \in 0..MaxEpoch
      BY <3>1
    <3> QED
      BY <3>1, <3>2, LocalApiAssumption DEF WakeInv
  <2>3. Len(wakes') - Len(fifo') = Len(wakes) /\ Len(wakes) >= 0
    BY <2>1
  <2>4. \A i \in DOMAIN wakes : i \in Nat
    BY <2>1
  <2>5. ASSUME NEW i \in DOMAIN wakes
        PROVE  wakes[i].epoch # epoch + 1 /\ ~(i > Len(wakes)) /\ wakes[i].epoch <= epoch + 1
    <3>1. /\ wakes[i].epoch \in Nat /\ wakes[i].epoch <= epoch
          /\ i \in Nat /\ i <= Len(wakes) /\ epoch \in Nat /\ Len(wakes) \in Nat
      BY <2>1, <2>2, <2>4
    <3> QED
      BY ONLY <3>1
  <2> QED
    BY <2>1, <2>3, <2>5 DEF WakeInv, WakeMatchesQueue
<1>2. ASSUME NEW networks \in BOOLEAN, Reboot(networks)
      PROVE  WakeInv'
  BY <1>2, WakesEmpty DEF Reboot
\* The drain of the events comes after the FIFO has been cleared and kept closed.
<1>3. CASE Drain /\ Head(plan) = "Drain" /\ fifo = <<>>
  BY <1>3, WakesEmpty DEF Drain
<1>4. Drain => Head(plan) = "Drain" /\ fifo = <<>>
  BY DEF Drain, Make, PointInv, Rest
<1>5. CASE UNCHANGED <<fifo, epoch, wakes>>
  BY <1>5, WakesAlone
<1> QED
  BY <1>1, <1>2, <1>3, <1>4, <1>5
     DEF Call, Publish, Disable, StopEndpoint, StartProvisioning, EndProvisioning, Activate, Gate,
         Download, Restore, apiVars, queueVars

-----------------------------------------------------------------------------
(* Everything together.                                                     *)

LEMMA InitLocal == Init => LocalInv
<1> SUFFICES ASSUME Init PROVE LocalInv
  OBVIOUS
<1>1. EndpointTypes /\ PointInv
  BY DEF Init, EndpointTypes, Accesses, PointInv, Rest
<1>2. QueueInv
  BY LocalApiAssumption DEF Init, QueueInv, Awaits
<1>3. SettingsInv
  BY DEF Init, SettingsInv, SettingsStayValid
<1> QED
  BY <1>1, <1>2, <1>3 DEF LocalInv

LEMMA CallQueue ==
  ASSUME PointInv, QueueInv, Call
  PROVE  QueueInv'
<1>1. ASSUME plan # <<>>, plan' = Tail(plan), Awaits(plan', "Clear")
      PROVE  Awaits(plan, "Clear") /\ Head(plan) # "Clear"
  <2>1. PICK i \in DOMAIN plan' : plan'[i] = "Clear"
    BY <1>1 DEF Awaits
  <2>2. i + 1 \in DOMAIN plan /\ plan[i + 1] = "Clear"
    BY <1>1, <2>1, PointPlans
  <2>3. ASSUME Head(plan) = "Clear"
        PROVE  FALSE
    <3>1. \/ plan = <<"Clear", "StopEndpoint", "Publish">>
          \/ plan = <<"Clear", "StartProvisioning", "Publish">>
          \/ plan = <<"Clear", "StartProvisioning">>
          \/ plan = <<"Clear", "Download", "Drain", "Restore">>
      BY <1>1, <2>3 DEF PointInv
    <3>2. \/ plan' = <<"StopEndpoint", "Publish">> \/ plan' = <<"StartProvisioning", "Publish">>
          \/ plan' = <<"StartProvisioning">> \/ plan' = <<"Download", "Drain", "Restore">>
      BY <1>1, <3>1, Tails
    <3>3. /\ ~Awaits(<<"StopEndpoint", "Publish">>, "Clear")
          /\ ~Awaits(<<"StartProvisioning", "Publish">>, "Clear")
          /\ ~Awaits(<<"StartProvisioning">>, "Clear")
          /\ ~Awaits(<<"Download", "Drain", "Restore">>, "Clear")
      BY DEF Awaits
    <3> QED
      BY <1>1, <3>2, <3>3
  <2> QED
    BY <2>2, <2>3 DEF Awaits
<1>2. CASE Clear
  <2>1. Awaits(plan, "Clear")
    BY <1>2 DEF Clear, Make, PointInv, Awaits
  <2> QED
    BY <1>1, <1>2, <2>1, LocalApiAssumption DEF Clear, Make, QueueInv
<1>3. ASSUME NEW networks \in BOOLEAN, Reboot(networks)
      PROVE  QueueInv'
  BY <1>3, LocalApiAssumption DEF Reboot, QueueInv
<1>4. CASE Drain
  BY <1>1, <1>4, LocalApiAssumption DEF Drain, Make, QueueInv
<1>5. CASE plan # <<>> /\ plan' = Tail(plan) /\ UNCHANGED <<queueVars, put>>
  BY <1>1, <1>5 DEF QueueInv, queueVars
<1> QED
  BY <1>2, <1>3, <1>4, <1>5
     DEF Call, Make, Publish, Disable, StopEndpoint, StartProvisioning, EndProvisioning, Activate,
         Gate, Download, Restore, apiVars

LEMMA NextLocal ==
  ASSUME LocalInv, [Next]_vars
  PROVE  LocalInv'
<1> USE DEF LocalInv
<1>1. CASE UNCHANGED vars
  <2>1. PointInv'
    BY <1>1 DEF vars, PointInv, Rest, InStationary, Closed, Quiet
  <2>2. QueueInv' /\ SettingsInv'
    BY <1>1 DEF vars, QueueInv, SettingsInv, SettingsStayValid
  <2> QED
    BY <2>1, <2>2, EndpointStep
<1>2. CASE Httpd
  <2>1. UNCHANGED <<settings, active, plan>>
    BY <1>2 DEF Httpd, BeginPut, FinishPut, Trigger, orchestratorVars
  <2>2. SettingsInv'
    BY <2>1 DEF SettingsInv, SettingsStayValid
  <2> QED
    BY <1>2, <2>2, EndpointStep, HttpdStep, HttpdQueue
<1>3. CASE Event
  BY <1>3, EndpointStep, EventStep, EventQueue, EventSettings DEF EndpointTypes
<1>4. CASE Call
  BY <1>4, EndpointStep, CallStep, CallQueue, SettingsCall
<1> QED
  BY <1>1, <1>2, <1>3, <1>4 DEF Next

\* The invariant of the handlers: what holds at each point of each of them.
THEOREM HandlersSafe == Spec => []LocalInv
BY InitLocal, NextLocal, PTL DEF Spec

\* The fields that drive the API keep their ranges, and neither the FIFO nor the event queue
\* of go_local_api.cpp ever exceeds its depth, whatever the depths and the requests are.
THEOREM LocalTypes == Spec => []LocalTypeOK
<1>1. LocalInv => LocalTypeOK
  BY PointPlans DEF LocalInv, LocalTypeOK, EndpointTypes, QueueInv, SettingsInv
<1> QED
  BY <1>1, HandlersSafe, PTL

\* The wake events of the current epoch are those of the queued requests in their order, and
\* the ones of older epochs are before them: pop_request() always takes the request that the
\* event was posted for, and no queued request is without its event.
THEOREM WakesMatchRequests == Spec => []WakeMatchesQueue
<1>1. Init => WakeInv
  BY WakesEmpty DEF Init, WakeInv, WakeMatchesQueue
<1>2. ASSUME LocalInv, WakeInv, [Next]_vars
      PROVE  WakeInv'
  <2>1. CASE UNCHANGED vars
    BY <1>2, <2>1, WakesAlone DEF vars
  <2>2. PointInv /\ QueueInv
    BY <1>2 DEF LocalInv
  <2>3. CASE Httpd
    BY <1>2, <2>2, <2>3, HttpdWakes
  <2>4. CASE Event
    BY <1>2, <2>2, <2>4, EventWakes
  <2>5. CASE Call
    BY <1>2, <2>2, <2>5, CallWakes
  <2> QED
    BY <1>2, <2>1, <2>3, <2>4, <2>5 DEF Next
<1>3. WakeInv => WakeMatchesQueue
  BY DEF WakeInv
<1> QED
  BY <1>1, <1>2, <1>3, HandlersSafe, PTL DEF Spec

\* Cloud control with the connection off is never in force and never published, however the
\* local API, the cloud, the menu, provisioning and resets follow each other
\* (apply_config_update() validates the candidate, not the request).
THEOREM SettingsValid == Spec => []SettingsStayValid
<1>1. LocalInv => SettingsStayValid
  BY DEF LocalInv, SettingsInv
<1> QED
  BY <1>1, HandlersSafe, PTL

\* When no handler runs, the snapshot the httpd task validates against is the settings in
\* force: every handler that commits also publishes before it ends.
THEOREM SnapshotPublished == Spec => []SnapshotCurrent
<1>1. LocalInv => SnapshotCurrent
  BY DEF LocalInv, SettingsInv, SnapshotCurrent, Idle, Awaits
<1> QED
  BY <1>1, HandlersSafe, PTL

\* Between handlers a client may write exactly while the endpoint is up, and it is up only in
\* Stationary mode outside provisioning, after failed updates and starts too.
THEOREM AccessIsEndpoint == Spec => []AccessFollowsEndpoint
<1>1. LocalInv => AccessFollowsEndpoint
  BY DEF LocalInv, EndpointTypes, PointInv, Rest, AccessFollowsEndpoint, Idle
<1> QED
  BY <1>1, HandlersSafe, PTL

\* While the image is received and its events are drained nothing is queued and nothing can
\* be admitted: exit_ota() throws away no wake event of a live request.
THEOREM OtaDrainsNothing == Spec => []OtaFindsQueueEmpty
<1>1. LocalInv => OtaFindsQueueEmpty
  BY DEF LocalInv, EndpointTypes, PointInv, Rest, OtaFindsQueueEmpty
<1> QED
  BY <1>1, HandlersSafe, PTL

\* A request admitted before the cloud took control changes nothing once it has, but for a
\* recovery of the control alone (is_go_config_update_allowed() is asked again at the pop).
THEOREM CloudKeepsAuthority == Spec => CloudAuthorityKept
<1> DEFINE Kept == fifo' # fifo /\ settings' # settings /\ settings.control = "Cloud" =>
                     /\ settings'.control \in {"Local", "Both"}
                     /\ settings' = [settings EXCEPT !.control = settings'.control]
<1>1. ASSUME LocalInv, [Next]_vars
      PROVE  [Kept]_vars
  <2> SUFFICES ASSUME fifo' # fifo, settings' # settings, settings.control = "Cloud"
               PROVE  /\ settings'.control \in {"Local", "Both"}
                      /\ settings' = [settings EXCEPT !.control = settings'.control]
    OBVIOUS
  <2>1. PICK saved \in BOOLEAN : HandleWake(saved)
    BY <1>1 DEF Next, Httpd, BeginPut, FinishPut, Trigger, orchestratorVars, Event, Call,
         CloudFetch, UiChange, ProvisioningConnected, ChangeMode, FactoryReset, EnterProvisioning,
         WifiUp, EnterOta, Publish, Disable, Clear, StopEndpoint, StartProvisioning,
         EndProvisioning, Activate, Gate, Download, Drain, Restore, Reboot, queueVars, apiVars, vars
  <2> DEFINE change == Head(fifo).change
  <2>2. ApplyConfigUpdate(change, "LocalServer", saved)
    BY <2>1 DEF HandleWake
  <2>3. ControlRecovery(change) /\ settings' = Merge(change, "LocalServer", settings)
    BY <2>2 DEF ApplyConfigUpdate, Allowed, Commit
  <2>4. settings' = [control |-> change["control"], cloud |-> settings.cloud,
                     other |-> settings.other]
    BY <2>3 DEF Merge, ControlRecovery
  <2>5. settings \in Settings /\ change["control"] \in {"Local", "Both"}
    BY <1>1, <2>3 DEF LocalInv, SettingsInv, ControlRecovery
  <2> HIDE DEF change
  <2> QED
    BY <2>4, <2>5 DEF Settings
<1> QED
  BY <1>1, HandlersSafe, PTL DEF Spec, CloudAuthorityKept
=============================================================================
