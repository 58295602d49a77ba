----------------------------- MODULE Coordinator -----------------------------
(* Setup's probe and the coordinator's refreshes, read by read.             *)
(*                                                                          *)
(* A probe asks once, in order, which of the three endpoints the credential *)
(* may read.  A refresh reads the device and then, concurrently, those of   *)
(* the other two that the probe could read; a read that is denied or in     *)
(* error leaves its part of the snapshot out, any other failure fails the   *)
(* refresh.  gather raises the first failure, and the other read runs on    *)
(* with nobody waiting for it.  How one read comes about is                 *)
(* GatewayTransport's subject; here it has one of its outcomes.             *)

EXTENDS Models

CONSTANT Listings   \* what /stat/device may list

ASSUME ListingsAreLists == Listings \subseteq Seq(Devices)

VARIABLES
    console,    \* what state the console is in
    phase,      \* "probe", "device", "gather"; at rest "idle", "retry", "stopped", "crashed"
    probing,    \* the endpoint the probe reads
    ready,      \* the first refresh has succeeded: the platforms are up
    caps,       \* Capabilities of the supplementary reads; that of the device is not used
    answered,   \* answered[e]: how this refresh's read of e ended
    listing,    \* history: what /stat/device last listed
    part,       \* what this refresh has read so far
    raised,     \* the failure gather is going to raise
    outcome,    \* how the latest refresh ended; last_update_success is "ok"
    data,       \* coordinator.data
    issue,      \* the certificate repair is raised
    reauth      \* a reauth flow is open

vars == <<console, phase, probing, ready, caps, answered, listing, part, raised, outcome,
          data, issue, reauth>>
refreshVars == <<answered, listing, part, raised>>
resultVars == <<outcome, data>>

Optional == {"health", "sysinfo"}
Endpoints == {"device"} \cup Optional
Consoles == {"up", "booting", "gone", "foreign", "rejects"}

\* How a read can end: with GatewayTransport's outcomes.  A booting console may
\* answer a login by a page, which the library takes for a refusal; a foreign
\* certificate is a mismatch to an entry that has pinned one.
Failures == {"auth", "capability", "api", "connection", "mismatch", "untyped"}
Answers ==
    CASE console = "up"      -> {"ok", "capability", "api", "connection", "untyped"}
      [] console = "booting" -> {"auth", "api", "connection"}
      [] console = "gone"    -> {"connection"}
      [] console = "foreign" -> {"mismatch", "connection"}
      [] console = "rejects" -> {"auth"}

Nothing == [device |-> [wans |-> {}, active |-> 0], health |-> "none", sysinfo |-> "none"]
Unread == [e \in Endpoints |-> "none"]

\* _async_update_data has not read anything yet.
Begin ==
    /\ answered' = Unread
    /\ listing' = <<>>
    /\ part' = Nothing
    /\ raised' = "none"

Init ==
    /\ console \in Consoles
    /\ phase = "retry"
    /\ probing = "device"
    /\ ready = FALSE
    /\ caps = [e \in Optional |-> FALSE]
    /\ answered = Unread
    /\ listing = <<>>
    /\ part = Nothing
    /\ raised = "none"
    /\ outcome = "none"
    /\ data = Nothing
    /\ issue = FALSE
    /\ reauth = FALSE

-----------------------------------------------------------------------------
(* Setup.                                                                   *)

\* async_setup_entry: the client is new, and so will be the coordinator.
BeginProbe ==
    /\ phase' = "probe"
    /\ probing' = "device"
    /\ ready' = FALSE
    /\ caps' = [e \in Optional |-> FALSE]
    /\ outcome' = "none"
    /\ data' = Nothing
    /\ Begin
    /\ UNCHANGED <<console, issue>>

\* Home Assistant's retry timer.
Retry ==
    /\ phase = "retry"
    /\ BeginProbe
    /\ UNCHANGED reauth

\* The user reloads the entry, or has answered a reauth.  Home Assistant cancels
\* the poll that is under way.
Reload ==
    /\ ready \/ phase \in {"stopped", "crashed"}
    /\ BeginProbe
    /\ reauth' \in {reauth, FALSE}

NextProbe(e) == IF e = "device" THEN "health" ELSE "sysinfo"

\* _reachable: only a denial is a capability signal.
Conclusive(kind) == kind \in {"ok", "capability"}

\* One read of probe, and behind the last _async_review_tls withdraws the certificate
\* repair and the coordinator is constructed.
ProbeReads(kind) ==
    /\ phase = "probe"
    /\ kind \in Answers
    /\ Conclusive(kind)
    /\ caps' = [e \in Optional |-> IF e = probing THEN kind = "ok" ELSE caps[e]]
    /\ IF probing = "sysinfo"
       THEN phase' = "device" /\ issue' = FALSE /\ UNCHANGED probing
       ELSE probing' = NextProbe(probing) /\ UNCHANGED <<phase, issue>>
    /\ UNCHANGED <<console, ready, refreshVars, resultVars, reauth>>

\* async_setup_entry gives up: what a failure of the probe becomes.
ProbeFails(kind) ==
    /\ phase = "probe"
    /\ kind \in Answers
    /\ ~Conclusive(kind)
    /\ phase' = CASE kind = "auth"    -> "stopped"
                  [] kind = "untyped" -> "crashed"
                  [] OTHER            -> "retry"
    /\ reauth' = (reauth \/ kind = "auth")
    /\ issue' = (issue \/ kind = "mismatch")
    /\ UNCHANGED <<console, probing, ready, caps, refreshVars, resultVars>>

-----------------------------------------------------------------------------
(* A refresh.                                                               *)

\* The poll timer.
Poll ==
    /\ phase = "idle"
    /\ phase' = "device"
    /\ Begin
    /\ UNCHANGED <<console, probing, ready, caps, resultVars, issue, reauth>>

\* raise_cert_mismatch and clear_cert_mismatch, in _async_update_data.
IssueAfter(end) == IF end = "mismatch" THEN TRUE ELSE issue /\ end # "ok"

\* Mutants: a rejected credential is polled on with; an entry whose first refresh failed polls on.
PollsOnRejected(end) == IF ready \/ end = "ok" THEN "idle" ELSE "retry"
PollsWithoutSetup(end) == IF end = "auth" THEN "stopped" ELSE "idle"

\* What Home Assistant does once a refresh has ended: it asks for a credential,
\* polls on, or retries the setup if this was its first refresh.  What no branch
\* of _async_update_data catches, it logs and treats alike.
PhaseAfter(end) ==
    IF end = "auth" THEN "stopped"
    ELSE IF ready \/ end = "ok" THEN "idle" ELSE "retry"

\* Mutant: the snapshot is filled in place, read by read.
FinishInPlace(end) ==
    /\ outcome' = end
    /\ data' = part
    /\ issue' = IssueAfter(end)
    /\ phase' = PhaseAfter(end)
    /\ reauth' = (reauth \/ phase' = "stopped")
    /\ ready' = (ready \/ end = "ok")

\* The end of _async_update_data, by return or exception.
Finish(end) ==
    /\ outcome' = end
    /\ data' = IF end = "ok" THEN part ELSE data
    /\ issue' = IssueAfter(end)
    /\ phase' = PhaseAfter(end)
    /\ reauth' = (reauth \/ phase' = "stopped")
    /\ ready' = (ready \/ end = "ok")

\* get_device, which fails as well when the list has no gateway.
DeviceRead ==
    /\ phase = "device"
    /\ "ok" \in Answers
    /\ \E devices \in Listings :
          /\ listing' = devices
          /\ IF HasGateway(devices)
             THEN /\ part' = [part EXCEPT !.device = DeviceOf(FindGateway(devices))]
                  /\ answered' = [answered EXCEPT !["device"] = "ok"]
                  /\ phase' = "gather"
                  /\ UNCHANGED <<ready, resultVars, issue, reauth>>
             ELSE /\ answered' = [answered EXCEPT !["device"] = "api"]
                  /\ Finish("api")
                  /\ UNCHANGED part
    /\ UNCHANGED <<console, probing, caps, raised>>

DeviceFails(kind) ==
    /\ phase = "device"
    /\ kind \in Answers \ {"ok"}
    /\ answered' = [answered EXCEPT !["device"] = kind]
    /\ Finish(kind)
    /\ UNCHANGED <<console, probing, caps, listing, part, raised>>

Wanted == {e \in Optional : caps[e]}

\* Mutants: every failure of the library degrades; a part left out keeps its last
\* value.
DegradesAlways(kind) == kind # "untyped"
LeftOutKeepsLast(e) == data[e]

\* _optional: the failures that leave a part out of the snapshot.
Degrades(kind) == kind \in {"capability", "api"}
LeftOut(e) == "none"

\* One of the gathered reads ends, before gather returns.
OptionalReads(e) ==
    /\ phase = "gather"
    /\ e \in Wanted
    /\ answered[e] = "none"
    /\ \E kind \in Answers :
          /\ answered' = [answered EXCEPT ![e] = kind]
          /\ part' = [part EXCEPT ![e] = IF kind = "ok" THEN "read" ELSE LeftOut(e)]
          /\ raised' = IF raised = "none" /\ kind # "ok" /\ ~Degrades(kind)
                       THEN kind ELSE raised
    /\ UNCHANGED <<console, phase, probing, ready, caps, listing, resultVars, issue, reauth>>

\* gather returns: with the first failure, or when every read has ended.
GatherEnds ==
    /\ phase = "gather"
    /\ raised # "none" \/ \A e \in Wanted : answered[e] # "none"
    /\ Finish(IF raised = "none" THEN "ok" ELSE raised)
    /\ UNCHANGED <<console, probing, caps, refreshVars>>

\* The console boots, vanishes, changes its accounts, or something else answers.
World ==
    /\ console' \in Consoles
    /\ UNCHANGED <<phase, probing, ready, caps, refreshVars, resultVars, issue, reauth>>

-----------------------------------------------------------------------------
ProbeEnds == \E kind \in {"ok"} \cup Failures : ProbeReads(kind) \/ ProbeFails(kind)
DeviceEnds == DeviceRead \/ \E kind \in Failures : DeviceFails(kind)

Next ==
    \/ Retry \/ Reload \/ ProbeEnds
    \/ Poll \/ DeviceEnds \/ GatherEnds
    \/ \E e \in Optional : OptionalReads(e)
    \/ World

Spec == Init /\ [][Next]_vars

\* Retries and polls are timers, and every read ends (EveryCallReturns of
\* GatewayTransport).  Nothing is assumed of users or of the console.
Fairness ==
    /\ WF_vars(Retry)
    /\ WF_vars(ProbeEnds)
    /\ WF_vars(Poll)
    /\ WF_vars(DeviceEnds)
    /\ \A e \in Optional : WF_vars(OptionalReads(e))
    /\ WF_vars(GatherEnds)

FairSpec == Spec /\ Fairness

-----------------------------------------------------------------------------
(* What is promised.                                                        *)

\* Types; and only an entry whose platforms are up waits for its next poll.
TypeOK ==
    /\ phase = "idle" => ready
    /\ console \in Consoles
    /\ phase \in {"probe", "device", "gather", "idle", "retry", "stopped", "crashed"}
    /\ probing \in Endpoints
    /\ ready \in BOOLEAN
    /\ caps \in [Optional -> BOOLEAN]
    /\ answered \in [Endpoints -> {"none", "ok"} \cup Failures]
    /\ listing \in Seq(Devices)
    /\ part \in [device : Snapshots, health : {"none", "read"}, sysinfo : {"none", "read"}]
    /\ raised \in {"none"} \cup Failures
    /\ outcome \in {"none", "ok"} \cup Failures
    /\ data \in [device : Snapshots, health : {"none", "read"}, sysinfo : {"none", "read"}]
    /\ issue \in BOOLEAN
    /\ reauth \in BOOLEAN

\* The entry is up and a refresh has just succeeded.
Fresh == phase = "idle" /\ outcome = "ok"

\* d is the gateway among the listed devices: it is of a known type if any is.
Gateway(d) ==
    /\ d.object
    /\ d.known \/ \A i \in DOMAIN listing : ~(listing[i].object /\ listing[i].known)

\* The snapshot shows d's WANs; failover is "active uplink is not WAN1".
Shows(device, d) ==
    /\ device.wans = {s \in Slots : d.wan[s] \in {"standby", "uplink"}}
    /\ FailoverActive(device) <=>
          d.wan[1] # "uplink" /\ \E s \in Slots : d.wan[s] = "uplink"

\* Whatever else the site has and in whatever order it is listed, what is shown
\* are the gateway's WANs, and whether the gateway has failed over.
GatewayIsShown ==
    Fresh => \E i \in DOMAIN listing :
                Gateway(listing[i]) /\ Shows(data.device, listing[i])

\* The failures of a supplementary read that may fail a refresh.
Fatal == Failures \ {"capability", "api"}

\* "Supplementary reads degrade to unknown on a transient permission/API error
\* without taking the core WAN/console sensors unavailable": a refresh succeeds
\* exactly if the device was read and no other read was refused, cut off or
\* garbled - whichever of the concurrent reads ended first.
OutcomeFollowsReads ==
    phase = "idle" =>
        (outcome = "ok" <=> /\ answered["device"] = "ok"
                            /\ \A e \in Optional : answered[e] \notin Fatal)

\* A supplementary value is unknown exactly when this refresh could not read it:
\* a value of an earlier refresh never stands in for one that was denied.
UnknownWhenDenied ==
    Fresh => \A e \in Optional :
        data[e] = "none" <=> ~caps[e] \/ answered[e] \in {"capability", "api"}

\* A credential that the console goes on to refuse is asked about, whatever was
\* under way when it was first refused; only a setup that has crashed is no
\* longer there to notice.
RejectionIsNoticed ==
    <>[](console = "rejects" /\ phase # "crashed") => []<>reauth

Parts == [device : Snapshots, health : {"none", "read"}, sysinfo : {"none", "read"}]

\* What the entities and the user can tell of the phases
Stage ==
    CASE phase = "stopped"              -> "asking"
      [] phase \in {"retry", "crashed"} -> phase
      [] OTHER                          -> IF ready THEN "up" ELSE "setup"

View == INSTANCE RefreshContract WITH
    Views <- Parts, Blank <- Nothing, stage <- Stage, shown <- data, latest <- outcome,
    asked <- reauth

\* Though its reads are made one after the other and two at a time, whoever looks at
\* the entry sees each refresh happen at once: never half of it, nothing of one that
\* failed, and never an entry that was up put back into its setup by a failure.
RefreshIsAtomic == View!ContractSpec

=============================================================================
