-------------------------- MODULE Coordinator_proofs --------------------------
(* Proofs about Coordinator, for any set of WANs and any lists of devices.  *)

EXTENDS Coordinator, WellFoundedInduction, TLAPS

-----------------------------------------------------------------------------
(* The operators of Models.                                                 *)

\* A set of numbers that is not empty has a first element.
LEMMA FirstIsLeast ==
    ASSUME NEW S \in SUBSET Nat, S # {}
    PROVE  First(S) \in S /\ \A j \in S : First(S) <= j
<1>1. \E i \in S : \A j \in S : i <= j
  <2>1. PICK i \in S : \A j \in S : <<j, i>> \notin OpToRel(<, Nat)
    BY NatLessThanWellFounded, WFMin
  <2>2. \A j \in S : ~(j < i)
    BY <2>1 DEF OpToRel
  <2> QED BY <2>2
<1> QED BY <1>1 DEF First

\* If the list has a gateway, one is found, of a known type if there is such a one.
LEMMA GatewayIsFound ==
    ASSUME NEW devices \in Seq(Devices), HasGateway(devices)
    PROVE  \E i \in DOMAIN devices :
              /\ FindGateway(devices) = devices[i]
              /\ devices[i].object
              /\ devices[i].known \/ KnownAt(devices) = {}
<1>1. KnownAt(devices) \in SUBSET Nat /\ HoldersAt(devices) \in SUBSET Nat
  BY DEF KnownAt, HoldersAt
<1>2. CASE KnownAt(devices) # {}
  <2>1. First(KnownAt(devices)) \in KnownAt(devices)
    BY <1>1, <1>2, FirstIsLeast
  <2> QED BY <1>2, <2>1 DEF FindGateway, KnownAt
<1>3. CASE KnownAt(devices) = {}
  <2>1. First(HoldersAt(devices)) \in HoldersAt(devices)
    BY <1>1, <1>3, FirstIsLeast DEF HasGateway
  <2> QED BY <1>3, <2>1 DEF FindGateway, HoldersAt
<1> QED BY <1>2, <1>3

\* Device.from_api keeps the WANs, and tells a failover by the first one in use.
LEMMA DeviceIsShown ==
    ASSUME NEW d \in Devices
    PROVE  DeviceOf(d) \in Snapshots /\ Shows(DeviceOf(d), d)
<1>1. Uplinks(d) \in SUBSET Nat /\ Uplinks(d) \subseteq Slots
  BY SlotsAreWans DEF Uplinks
<1>2. CASE Uplinks(d) = {}
  <2>1. DeviceOf(d).active = 0
    BY <1>2 DEF DeviceOf
  <2>2. DeviceOf(d).wans = {s \in Slots : d.wan[s] \in {"standby", "uplink"}}
    BY DEF DeviceOf
  <2>3. DeviceOf(d) \in Snapshots
    <3>1. {s \in Slots : d.wan[s] \in {"standby", "uplink"}} \in SUBSET Slots
      OBVIOUS
    <3>2. DeviceOf(d) = [wans |-> {s \in Slots : d.wan[s] \in {"standby", "uplink"}},
                         active |-> 0]
      BY <1>2 DEF DeviceOf
    <3> QED BY <3>1, <3>2 DEF Snapshots
  <2>4. ~ \E s \in Slots : d.wan[s] = "uplink"
    BY <1>2 DEF Uplinks
  <2> QED BY <2>1, <2>2, <2>3, <2>4 DEF Shows, FailoverActive
<1>3. CASE Uplinks(d) # {}
  <2>1. /\ First(Uplinks(d)) \in Uplinks(d)
        /\ \A j \in Uplinks(d) : First(Uplinks(d)) <= j
    BY <1>1, <1>3, FirstIsLeast
  <2>2. First(Uplinks(d)) = 1 <=> d.wan[1] = "uplink"
    <3>1. 1 \in Uplinks(d) <=> d.wan[1] = "uplink"
      BY SlotsAreWans DEF Uplinks
    <3>2. First(Uplinks(d)) \in 1 .. 6
      BY <1>1, <2>1, SlotsAreWans
    <3>3. 1 \in Uplinks(d) => First(Uplinks(d)) <= 1
      BY <2>1
    <3> QED BY <2>1, <3>1, <3>2, <3>3
  <2>3. First(Uplinks(d)) # 0
    BY <1>1, <2>1, SlotsAreWans
  <2>4. DeviceOf(d).active = First(Uplinks(d))
    BY <1>3 DEF DeviceOf
  <2>5. DeviceOf(d).wans = {s \in Slots : d.wan[s] \in {"standby", "uplink"}}
    BY DEF DeviceOf
  <2>6. DeviceOf(d) \in Snapshots
    BY <1>1, <1>3, <2>1 DEF DeviceOf, Snapshots
  <2>7. \E s \in Slots : d.wan[s] = "uplink"
    BY <1>3 DEF Uplinks
  <2> QED BY <2>2, <2>3, <2>4, <2>5, <2>6, <2>7 DEF Shows, FailoverActive
<1> QED BY <1>2, <1>3

-----------------------------------------------------------------------------
(* The inductive invariant: what a refresh has read so far is of the list   *)
(* it was given, and of the reads that have ended.                          *)

IsShown(device) ==
    \E i \in DOMAIN listing : Gateway(listing[i]) /\ Shows(device, listing[i])

\* Until the device is read, this refresh knows nothing.
BeginInv ==
    phase \in {"probe", "device"} =>
        /\ answered = Unread
        /\ part = Nothing
        /\ raised = "none"

\* One supplementary read while gather waits.
ReadInv(e) ==
    /\ answered[e] # "none" => caps[e]
    /\ part[e] = "read" <=> answered[e] = "ok"
    /\ answered[e] \in Fatal => raised # "none"

GatherInv ==
    phase = "gather" =>
        /\ answered["device"] = "ok"
        /\ IsShown(part.device)
        /\ ReadInv("health") /\ ReadInv("sysinfo")
        /\ raised # "none" =>
              /\ raised \in Fatal
              /\ \E e \in Optional : answered[e] \in Fatal

Results == GatewayIsShown /\ OutcomeFollowsReads /\ UnknownWhenDenied

Inv == TypeOK /\ BeginInv /\ GatherInv /\ Results

\* Nothing has been read or shown yet.
LEMMA InitInv == Init => Inv
<1> SUFFICES ASSUME Init PROVE Inv
  OBVIOUS
<1>1. TypeOK
  <2>1. Nothing \in [device : Snapshots, health : {"none", "read"}, sysinfo : {"none", "read"}]
    BY DEF Nothing, Snapshots
  <2>2. Unread \in [Endpoints -> {"none", "ok"} \cup Failures]
    BY DEF Unread
  <2>3. <<>> \in Seq(Devices)
    OBVIOUS
  <2> QED BY <2>1, <2>2, <2>3 DEF Init, TypeOK, Endpoints
<1> QED BY <1>1 DEF Init, Inv, BeginInv, GatherInv, Results, GatewayIsShown, Fresh,
                    OutcomeFollowsReads, UnknownWhenDenied

\* A step that leaves the refresh and its result alone.
LEMMA RestInv ==
    ASSUME Inv, TypeOK', UNCHANGED <<refreshVars, resultVars, caps>>,
           phase' = phase
    PROVE  Inv'
BY DEF Inv, BeginInv, GatherInv, ReadInv, IsShown, Gateway, Shows, Results, GatewayIsShown,
       Fresh, OutcomeFollowsReads, UnknownWhenDenied, refreshVars, resultVars

\* Before the refresh, nothing is promised yet.
LEMMA BeginsInv ==
    ASSUME TypeOK', phase' \notin {"gather", "idle"},
           BeginInv'
    PROVE  Inv'
BY DEF Inv, GatherInv, Results, GatewayIsShown, Fresh, OutcomeFollowsReads,
       UnknownWhenDenied

\* A refresh that has succeeded shows what it has read.
LEMMA SucceedsInv ==
    ASSUME Inv, TypeOK', phase = "gather", raised = "none",
           \A e \in Wanted : answered[e] # "none",
           Finish("ok"), UNCHANGED <<caps, refreshVars>>
    PROVE  Inv'
<1>1. phase' = "idle" /\ outcome' = "ok" /\ data' = part
  BY DEF Finish, PhaseAfter, IssueAfter, Inv, TypeOK
<1>2. UNCHANGED <<answered, listing, part, caps>>
  BY DEF refreshVars
<1>3. BeginInv' /\ GatherInv'
  BY <1>1 DEF BeginInv, GatherInv
<1>4. IsShown(part.device) /\ ReadInv("health") /\ ReadInv("sysinfo") /\ answered["device"] = "ok"
  BY DEF Inv, GatherInv
<1>5. GatewayIsShown'
  BY <1>1, <1>2, <1>4 DEF GatewayIsShown, IsShown, Gateway, Shows
<1>6. \A e \in Optional : answered[e] \notin Fatal
  BY <1>4 DEF ReadInv, Optional
<1>7. OutcomeFollowsReads'
  BY <1>1, <1>2, <1>4, <1>6 DEF OutcomeFollowsReads
<1>8. UnknownWhenDenied'
  <2>1. ASSUME NEW e \in Optional
        PROVE  part[e] = "none" <=> ~caps[e] \/ answered[e] \in {"capability", "api"}
    <3>1. /\ caps[e] => answered[e] # "none"
          /\ answered[e] # "none" => caps[e]
          /\ part[e] = "read" <=> answered[e] = "ok"
      BY <1>4 DEF Wanted, ReadInv, Optional
    <3>2. part[e] \in {"none", "read"} /\ answered[e] \in {"none", "ok"} \cup Failures
      BY DEF Inv, TypeOK, Optional, Endpoints
    <3> QED BY <1>6, <3>1, <3>2 DEF Fatal
  <2> QED BY <1>1, <1>2, <2>1 DEF UnknownWhenDenied
<1> QED BY <1>3, <1>5, <1>7, <1>8 DEF Inv, Results

\* A refresh that has failed shows no new snapshot.
LEMMA FailsInv ==
    ASSUME Inv, TypeOK', phase \in {"device", "gather"},
           NEW end \in Failures, Finish(end),
           \/ answered'["device"] # "ok"
           \/ \E e \in Optional : answered'[e] \in Fatal
    PROVE  Inv'
<1>1. phase' \notin {"probe", "device", "gather"} /\ outcome' = end /\ end # "ok"
  BY DEF Finish, PhaseAfter, Failures
<1>2. BeginInv' /\ GatherInv'
  BY <1>1 DEF BeginInv, GatherInv
<1>3. GatewayIsShown' /\ UnknownWhenDenied'
  BY <1>1 DEF GatewayIsShown, UnknownWhenDenied, Fresh
<1>4. OutcomeFollowsReads'
  BY <1>1 DEF OutcomeFollowsReads
<1> QED BY <1>2, <1>3, <1>4 DEF Inv, Results

-----------------------------------------------------------------------------
(* Each action keeps the invariant.                                         *)

LEMMA BlankTypes ==
    Nothing \in Parts /\ Unread \in [Endpoints -> {"none", "ok"} \cup Failures]
<1>1. Nothing \in Parts
  BY DEF Nothing, Snapshots, Parts
<1> QED BY <1>1 DEF Unread

LEMMA FinishTypes ==
    ASSUME TypeOK, NEW end \in {"ok"} \cup Failures, Finish(end)
    PROVE  /\ phase' \in {"idle", "retry", "stopped"}
           /\ phase' = "idle" => ready'
           /\ ready' \in BOOLEAN
           /\ outcome' \in {"none", "ok"} \cup Failures
           /\ data' \in Parts
           /\ issue' \in BOOLEAN
           /\ reauth' \in BOOLEAN
<1>1. end = "auth" => phase' = "stopped"
  BY DEF Finish, PhaseAfter
<1>2. CASE ready \/ end = "ok"
  <2>1. ready' = TRUE
    BY <1>2 DEF Finish, TypeOK
  <2> QED BY <2>1 DEF Finish, PhaseAfter, IssueAfter, TypeOK, Parts
<1>3. CASE ~(ready \/ end = "ok")
  <2>1. ready' = FALSE /\ phase' # "idle"
    BY <1>3 DEF Finish, TypeOK, PhaseAfter
  <2> QED BY <1>3, <2>1 DEF Finish, PhaseAfter, IssueAfter, TypeOK, Parts
<1> QED BY <1>2, <1>3

LEMMA AnswersAreTyped ==
    ASSUME TypeOK
    PROVE  Answers \subseteq {"ok"} \cup Failures
BY DEF TypeOK, Consoles, Answers, Failures

LEMMA ProbeBegins ==
    ASSUME Inv, BeginProbe, reauth' \in BOOLEAN
    PROVE  Inv'
<1>1. TypeOK'
  <2>1. caps' \in [Optional -> BOOLEAN]
    BY DEF BeginProbe
  <2>2. phase' = "probe" /\ probing' \in Endpoints
    BY DEF BeginProbe, Endpoints
  <2>3. data' \in Parts /\ part' \in Parts
    BY BlankTypes DEF BeginProbe, Begin
  <2>4. /\ answered' \in [Endpoints -> {"none", "ok"} \cup Failures]
        /\ listing' \in Seq(Devices)
        /\ raised' = "none"
    BY BlankTypes DEF BeginProbe, Begin
  <2> QED BY <2>1, <2>2, <2>3, <2>4 DEF Inv, TypeOK, BeginProbe, Parts
<1>2. BeginInv'
  BY DEF BeginProbe, Begin, BeginInv
<1>3. phase' = "probe"
  BY DEF BeginProbe
<1> QED BY <1>1, <1>2, <1>3, BeginsInv

LEMMA ProbeReadsInv ==
    ASSUME Inv, NEW kind, ProbeReads(kind)
    PROVE  Inv'
<1>1. TypeOK'
  BY DEF Inv, TypeOK, ProbeReads, NextProbe, Endpoints, Optional, refreshVars, resultVars
<1>2. phase' \in {"probe", "device"}
  BY DEF ProbeReads
<1>3. BeginInv'
  BY DEF ProbeReads, Inv, BeginInv, refreshVars
<1> QED BY <1>1, <1>2, <1>3, BeginsInv

LEMMA ProbeFailsInv ==
    ASSUME Inv, NEW kind, ProbeFails(kind)
    PROVE  Inv'
<1>1. phase' \in {"stopped", "crashed", "retry"}
  BY DEF ProbeFails
<1>2. TypeOK'
  BY <1>1 DEF Inv, TypeOK, ProbeFails, refreshVars, resultVars
<1>3. BeginInv'
  BY <1>1 DEF BeginInv
<1> QED BY <1>1, <1>2, <1>3, BeginsInv

LEMMA PollInv ==
    ASSUME Inv, Poll
    PROVE  Inv'
<1>1. TypeOK'
  BY BlankTypes DEF Inv, TypeOK, Poll, Begin, resultVars, Parts
<1>2. BeginInv' /\ phase' = "device"
  BY DEF Poll, Begin, BeginInv
<1> QED BY <1>1, <1>2, BeginsInv

LEMMA DeviceReadInv ==
    ASSUME Inv, DeviceRead
    PROVE  Inv'
<1>1. PICK devices \in Listings :
        /\ listing' = devices
        /\ IF HasGateway(devices)
           THEN /\ part' = [part EXCEPT !.device = DeviceOf(FindGateway(devices))]
                /\ answered' = [answered EXCEPT !["device"] = "ok"]
                /\ phase' = "gather"
                /\ UNCHANGED <<ready, resultVars, issue, reauth>>
           ELSE /\ answered' = [answered EXCEPT !["device"] = "api"]
                /\ Finish("api")
                /\ UNCHANGED part
  BY DEF DeviceRead
<1>2. devices \in Seq(Devices)
  BY ListingsAreLists
<1>3. phase = "device" /\ UNCHANGED <<console, probing, caps, raised>>
  BY DEF DeviceRead
<1>4. answered = Unread /\ part = Nothing /\ raised = "none"
  BY <1>3 DEF Inv, BeginInv
<1>5. CASE HasGateway(devices)
  <2>1. PICK i \in DOMAIN devices :
          /\ FindGateway(devices) = devices[i]
          /\ devices[i].object
          /\ devices[i].known \/ KnownAt(devices) = {}
    BY <1>2, <1>5, GatewayIsFound
  <2>2. devices[i] \in Devices
    BY <1>2
  <2>3. DeviceOf(devices[i]) \in Snapshots /\ Shows(DeviceOf(devices[i]), devices[i])
    BY <2>2, DeviceIsShown
  <2>4. /\ part'.device = DeviceOf(devices[i])
        /\ part'.health = "none" /\ part'.sysinfo = "none"
        /\ part' \in Parts
    BY <1>1, <1>4, <1>5, <2>1, <2>3 DEF Nothing, Parts
  <2>5. /\ answered'["device"] = "ok"
        /\ answered'["health"] = "none" /\ answered'["sysinfo"] = "none"
        /\ answered' \in [Endpoints -> {"none", "ok"} \cup Failures]
    BY <1>1, <1>4, <1>5, BlankTypes DEF Unread, Endpoints, Optional
  <2>6. TypeOK'
    BY <1>1, <1>2, <1>3, <1>5, <2>4, <2>5 DEF Inv, TypeOK, Parts, resultVars
  <2>7. Gateway(devices[i])'
    BY <1>1, <2>1 DEF Gateway, KnownAt
  <2>8. IsShown(part.device)'
    BY <1>1, <2>3, <2>4, <2>7 DEF IsShown, Shows
  <2>9. phase' = "gather" /\ raised' = "none"
    BY <1>1, <1>3, <1>4, <1>5
  <2>10. (ReadInv("health") /\ ReadInv("sysinfo"))'
    BY <2>4, <2>5 DEF ReadInv, Fatal, Failures
  <2>11. BeginInv' /\ GatherInv'
    BY <2>5, <2>8, <2>9, <2>10 DEF BeginInv, GatherInv
  <2>12. Results'
    BY <2>9 DEF Results, GatewayIsShown, Fresh, OutcomeFollowsReads, UnknownWhenDenied
  <2> QED BY <2>6, <2>11, <2>12 DEF Inv
<1>6. CASE ~HasGateway(devices)
  <2>1. Finish("api") /\ part' = part /\ answered' = [answered EXCEPT !["device"] = "api"]
    BY <1>1, <1>6
  <2>2. answered'["device"] = "api" /\ answered' \in [Endpoints -> {"none", "ok"} \cup Failures]
    BY <1>4, <2>1, BlankTypes DEF Endpoints, Failures
  <2>3. TypeOK'
    BY <1>1, <1>2, <1>3, <2>1, <2>2, FinishTypes DEF Inv, TypeOK, Parts, Failures
  <2> QED BY <1>3, <2>1, <2>2, <2>3, FailsInv DEF Failures
<1> QED BY <1>5, <1>6

LEMMA DeviceFailsInv ==
    ASSUME Inv, NEW kind, DeviceFails(kind)
    PROVE  Inv'
<1>1. kind \in Failures
  BY AnswersAreTyped DEF DeviceFails, Inv
<1>2. answered' = [answered EXCEPT !["device"] = kind] /\ Finish(kind) /\ phase = "device"
  BY DEF DeviceFails
<1>3. /\ answered'["device"] = kind
      /\ answered' \in [Endpoints -> {"none", "ok"} \cup Failures]
  BY <1>1, <1>2 DEF Inv, TypeOK, Endpoints
<1>4. TypeOK'
  BY <1>1, <1>2, <1>3, FinishTypes DEF DeviceFails, Inv, TypeOK, Parts
<1>5. kind # "ok"
  BY <1>1 DEF Failures
<1> QED BY <1>1, <1>2, <1>3, <1>4, <1>5, FailsInv

LEMMA OptionalReadsInv ==
    ASSUME Inv, NEW e \in Optional, OptionalReads(e)
    PROVE  Inv'
<1>1. PICK kind \in Answers :
        /\ answered' = [answered EXCEPT ![e] = kind]
        /\ part' = [part EXCEPT ![e] = IF kind = "ok" THEN "read" ELSE LeftOut(e)]
        /\ raised' = IF raised = "none" /\ kind # "ok" /\ ~Degrades(kind)
                     THEN kind ELSE raised
  BY DEF OptionalReads
<1>2. kind \in {"ok"} \cup Failures
  BY AnswersAreTyped DEF Inv
<1>3. /\ phase = "gather" /\ caps[e]
      /\ UNCHANGED <<console, phase, probing, ready, caps, listing, resultVars, issue, reauth>>
  BY DEF OptionalReads, Wanted
<1>4. /\ answered \in [Endpoints -> {"none", "ok"} \cup Failures]
      /\ part \in Parts
      /\ raised \in {"none"} \cup Failures
  BY DEF Inv, TypeOK, Parts
<1>5. /\ answered' \in [Endpoints -> {"none", "ok"} \cup Failures]
      /\ answered'[e] = kind
      /\ \A f \in Endpoints \ {e} : answered'[f] = answered[f]
  BY <1>1, <1>2, <1>4 DEF Endpoints
<1>6. /\ part' \in Parts
      /\ part'[e] = "read" <=> kind = "ok"
      /\ \A f \in Optional \ {e} : part'[f] = part[f]
      /\ part'.device = part.device
  BY <1>1, <1>4 DEF Parts, Optional, LeftOut
<1>7. TypeOK'
  BY <1>1, <1>2, <1>3, <1>4, <1>5, <1>6 DEF Inv, TypeOK, Parts, resultVars
<1>8. BeginInv' /\ Results'
  BY <1>3 DEF BeginInv, Results, GatewayIsShown, Fresh, OutcomeFollowsReads,
              UnknownWhenDenied
<1>9. GatherInv'
  <2>1. /\ answered["device"] = "ok"
        /\ IsShown(part.device)
        /\ ReadInv("health") /\ ReadInv("sysinfo")
        /\ raised # "none" => raised \in Fatal /\ \E f \in Optional : answered[f] \in Fatal
    BY <1>3 DEF Inv, GatherInv
  <2>2. answered'["device"] = "ok"
    BY <1>5, <2>1 DEF Endpoints, Optional
  <2>3. IsShown(part.device)'
    BY <1>3, <1>6, <2>1 DEF IsShown, Gateway, Shows
  <2>4. kind \in Fatal <=> kind # "ok" /\ ~Degrades(kind)
    BY <1>2 DEF Fatal, Degrades, Failures
  <2>5. raised # "none" => raised' = raised
    BY <1>1
  <2>6. kind \in Fatal => raised' # "none"
    BY <1>1, <2>4 DEF Fatal, Failures
  <2>7. ReadInv(e)'
    BY <1>3, <1>5, <1>6, <2>6 DEF ReadInv
  <2>8. ASSUME NEW f \in Optional \ {e} PROVE ReadInv(f)'
    BY <1>3, <1>5, <1>6, <2>1, <2>5 DEF ReadInv, Optional, Endpoints
  <2>9. ASSUME raised' # "none"
        PROVE  raised' \in Fatal /\ \E f \in Optional : answered'[f] \in Fatal
    <3>1. CASE raised = "none"
      <4>1. kind \in Fatal /\ raised' = kind
        BY <1>1, <2>4, <2>9, <3>1
      <4> QED BY <1>5, <4>1
    <3>2. CASE raised # "none"
      <4>1. PICK f \in Optional : answered[f] \in Fatal
        BY <2>1, <3>2
      <4>2. answered[e] = "none"
        BY DEF OptionalReads
      <4>3. f # e
        BY <4>1, <4>2 DEF Fatal, Failures
      <4>4. answered'[f] \in Fatal
        BY <1>5, <4>1, <4>3 DEF Endpoints
      <4> QED BY <2>1, <2>5, <3>2, <4>4
    <3> QED BY <3>1, <3>2
  <2> QED BY <2>2, <2>3, <2>7, <2>8, <2>9 DEF GatherInv, Optional
<1> QED BY <1>7, <1>8, <1>9 DEF Inv

LEMMA GatherEndsInv ==
    ASSUME Inv, GatherEnds
    PROVE  Inv'
<1>1. /\ phase = "gather"
      /\ UNCHANGED <<console, probing, caps, refreshVars>>
  BY DEF GatherEnds
<1>2. CASE raised = "none"
  <2>1. Finish("ok") /\ \A e \in Wanted : answered[e] # "none"
    BY <1>2 DEF GatherEnds
  <2>2. TypeOK'
    BY <1>1, <2>1, FinishTypes DEF Inv, TypeOK, Parts, refreshVars
  <2> QED BY <1>1, <1>2, <2>1, <2>2, SucceedsInv
<1>3. CASE raised # "none"
  <2>1. Finish(raised)
    BY <1>3 DEF GatherEnds
  <2>2. raised \in Failures
    BY <1>3 DEF Inv, TypeOK
  <2>3. TypeOK'
    BY <1>1, <2>1, <2>2, FinishTypes DEF Inv, TypeOK, Parts, refreshVars
  <2>4. \E e \in Optional : answered'[e] \in Fatal
    BY <1>1, <1>3 DEF Inv, GatherInv, refreshVars
  <2> QED BY <1>1, <2>1, <2>2, <2>3, <2>4, FailsInv
<1> QED BY <1>2, <1>3

\* The invariant is inductive.
LEMMA StepInv == Inv /\ [Next]_vars => Inv'
<1> SUFFICES ASSUME Inv, [Next]_vars PROVE Inv'
  OBVIOUS
<1>1. CASE Retry
  BY <1>1, ProbeBegins DEF Retry, Inv, TypeOK
<1>2. CASE Reload
  BY <1>2, ProbeBegins DEF Reload, Inv, TypeOK
<1>3. CASE ProbeEnds
  BY <1>3, ProbeReadsInv, ProbeFailsInv DEF ProbeEnds
<1>4. CASE Poll
  BY <1>4, PollInv
<1>5. CASE DeviceEnds
  BY <1>5, DeviceReadInv, DeviceFailsInv DEF DeviceEnds
<1>6. CASE GatherEnds
  BY <1>6, GatherEndsInv
<1>7. CASE \E e \in Optional : OptionalReads(e)
  BY <1>7, OptionalReadsInv
<1>8. CASE World
  <2>1. TypeOK'
    BY <1>8 DEF World, Inv, TypeOK, refreshVars, resultVars
  <2> QED BY <1>8, <2>1, RestInv DEF World
<1>9. CASE UNCHANGED vars
  <2>1. TypeOK'
    BY <1>9 DEF vars, Inv, TypeOK
  <2> QED BY <1>9, <2>1, RestInv DEF vars, refreshVars, resultVars
<1> QED BY <1>1, <1>2, <1>3, <1>4, <1>5, <1>6, <1>7, <1>8, <1>9 DEF Next

LEMMA Invariance == Spec => []Inv
<1> QED BY InitInv, StepInv, PTL DEF Spec

-----------------------------------------------------------------------------
(* The theorems.                                                            *)

\* Every variable of a setup and its refreshes keeps its type, and an entry only
\* waits for its next poll once a refresh has succeeded.
THEOREM TypeCorrect == Spec => []TypeOK
<1>1. Inv => TypeOK
  BY DEF Inv
<1> QED BY <1>1, Invariance, PTL

\* Of any list of devices, a refresh that succeeds shows the WANs of the gateway and
\* whether it has failed over: _find_gateway and Device.from_api.
THEOREM GatewayAlwaysShown == Spec => []GatewayIsShown
<1>1. Inv => GatewayIsShown
  BY DEF Inv, Results
<1> QED BY <1>1, Invariance, PTL

\* In whichever order the gathered reads end, a refresh succeeds exactly if the
\* device was read and no other read failed for more than a denial or an API error.
THEOREM OutcomeAlwaysFollows == Spec => []OutcomeFollowsReads
<1>1. Inv => OutcomeFollowsReads
  BY DEF Inv, Results
<1> QED BY <1>1, Invariance, PTL

\* A supplementary value that this refresh could not read is shown as unknown, never
\* as it was before: _optional, and GwData built anew by each refresh.
THEOREM DeniedIsUnknown == Spec => []UnknownWhenDenied
<1>1. Inv => UnknownWhenDenied
  BY DEF Inv, Results
<1> QED BY <1>1, Invariance, PTL

-----------------------------------------------------------------------------
(* Refinement: whatever a setup or a refresh is doing is one step of        *)
(* RefreshContract, when it ends, and invisible until then.                 *)

seen == <<Stage, data, outcome, issue, reauth>>

\* Before its first setup an entry has nothing to show.
LEMMA InitView == Init => View!ContractInit
BY DEF Init, View!ContractInit, Stage

\* A setup begins, whatever the entry was at.
LEMMA BeginStep ==
    ASSUME Inv, BeginProbe, reauth' \in {reauth, FALSE}, Stage # "setup"
    PROVE  View!TrySetup
<1>1. Stage' = "setup"
  BY DEF BeginProbe, Stage
<1> QED
  BY <1>1 DEF BeginProbe, View!TrySetup

\* The end of a refresh, of an entry that is up or of its setup.
LEMMA FinishStep ==
    ASSUME Inv, NEW end \in {"ok"} \cup Failures, Finish(end), phase \in {"device", "gather"}
    PROVE  View!ContractNext
<1>1. ready \in BOOLEAN /\ part \in Parts
  BY DEF Inv, TypeOK, Parts
<1>2. Stage = IF ready THEN "up" ELSE "setup"
  BY DEF Stage
<1>3. CASE end = "ok"
  <2>1. Stage' = "up"
    BY <1>1, <1>3 DEF Finish, PhaseAfter, Stage
  <2>2. /\ data' \in Parts /\ outcome' = "ok"
        /\ issue' = FALSE
        /\ reauth' = reauth
    BY <1>1, <1>3 DEF Finish, IssueAfter, PhaseAfter, Inv, TypeOK
  <2> QED
    BY <1>1, <1>2, <2>1, <2>2 DEF View!ContractNext, View!Succeed
<1>4. CASE end # "ok"
  <2>1. Stage' = IF end = "auth" THEN "asking" ELSE IF ready THEN "up" ELSE "retry"
    BY <1>1, <1>4 DEF Finish, PhaseAfter, Stage
  <2>2. /\ data' = data /\ outcome' = end
        /\ issue' = (issue \/ end = "mismatch")
        /\ reauth' = (reauth \/ end = "auth")
    BY <1>1, <1>4 DEF Finish, IssueAfter, PhaseAfter, Inv, TypeOK
  <2>3. View!Fail(end)
    BY <1>1, <1>2, <2>1, <2>2 DEF View!Fail
  <2>4. end \in View!Failures
    BY <1>4 DEF Failures, View!Failures
  <2> QED
    BY <2>3, <2>4 DEF View!ContractNext
<1> QED
  BY <1>3, <1>4

\* An entry that is probed is not up, and has had no refresh.
ProbeInv == phase = "probe" => ready = FALSE /\ outcome = "none"

LEMMA InitProbe == Init => ProbeInv
BY DEF Init, ProbeInv

LEMMA NextProbeInv == Inv /\ ProbeInv /\ [Next]_vars => ProbeInv'
<1> SUFFICES ASSUME Inv, ProbeInv, [Next]_vars PROVE ProbeInv'
  OBVIOUS
<1> USE DEF ProbeInv
<1>1. CASE Retry \/ Reload
  BY <1>1 DEF Retry, Reload, BeginProbe
<1>2. CASE ProbeEnds
  BY <1>2 DEF ProbeEnds, ProbeReads, ProbeFails, resultVars
<1>3. CASE Poll \/ World \/ UNCHANGED vars
  BY <1>3 DEF Poll, World, vars, resultVars
<1>4. CASE DeviceEnds
  BY <1>4 DEF DeviceEnds, DeviceRead, DeviceFails, Finish, PhaseAfter
<1>5. CASE GatherEnds
  BY <1>5 DEF GatherEnds, Finish, PhaseAfter
<1>6. CASE \E e \in Optional : OptionalReads(e)
  BY <1>6 DEF OptionalReads
<1> QED
  BY <1>1, <1>2, <1>3, <1>4, <1>5, <1>6 DEF Next

\* A setup is given up at its probe, which has refreshed nothing.
LEMMA ProbeFailsStep ==
    ASSUME Inv, ProbeInv, NEW kind \in {"ok"} \cup Failures, ProbeFails(kind)
    PROVE  View!ContractNext
<1>1. kind \in View!Failures
  BY DEF ProbeFails, Conclusive, Failures, View!Failures
<1>2. Stage = "setup"
  BY DEF ProbeFails, ProbeInv, Stage
<1>3. /\ phase' = CASE kind = "auth"    -> "stopped"
                    [] kind = "untyped" -> "crashed"
                    [] OTHER            -> "retry"
      /\ reauth' = (reauth \/ kind = "auth")
      /\ issue' = (issue \/ kind = "mismatch")
      /\ UNCHANGED <<data, outcome>>
  BY DEF ProbeFails, resultVars
<1>4. Stage' = CASE kind = "auth"    -> "asking"
                 [] kind = "untyped" -> "crashed"
                 [] OTHER            -> "retry"
  <2>1. CASE kind = "auth"
    BY <1>3, <2>1 DEF Stage
  <2>2. CASE kind = "untyped"
    BY <1>3, <2>2 DEF Stage
  <2>3. CASE kind \notin {"auth", "untyped"}
    BY <1>3, <2>3 DEF Stage
  <2> QED
    BY <2>1, <2>2, <2>3
<1>5. outcome = "none"
  BY DEF ProbeFails, ProbeInv
<1>6. View!Fail(kind)
  BY <1>2, <1>3, <1>4, <1>5 DEF View!Fail
<1> QED
  BY <1>1, <1>6 DEF View!ContractNext

\* Every step is one of the contract, or nobody sees it.
LEMMA NextView ==
    Inv /\ ProbeInv /\ [Next]_vars => [View!ContractNext]_(View!contractVars)
<1> SUFFICES ASSUME Inv, ProbeInv, [Next]_vars
             PROVE  View!ContractNext \/ UNCHANGED seen
  BY DEF View!contractVars, seen
<1>1. CASE Retry
  <2>1. Stage # "setup"
    BY <1>1 DEF Retry, Stage
  <2> QED
    BY <1>1, <2>1, BeginStep DEF Retry, View!ContractNext
<1>2. CASE Reload
  <2>1. Stage # "setup"
    BY <1>2 DEF Reload, Stage
  <2> QED
    BY <1>2, <2>1, BeginStep DEF Reload, View!ContractNext
<1>3. CASE ProbeEnds
  <2>1. ASSUME NEW kind \in {"ok"} \cup Failures, ProbeReads(kind)
        PROVE  View!ContractNext \/ UNCHANGED seen
    <3>1. Stage = "setup" /\ Stage' = "setup"
      BY <2>1 DEF ProbeReads, ProbeInv, Stage
    <3>2. UNCHANGED <<data, outcome, reauth>> /\ issue' \in {issue, FALSE}
      BY <2>1 DEF ProbeReads, resultVars
    <3>3. CASE issue' = FALSE
      BY <3>1, <3>2, <3>3 DEF View!ContractNext, View!Hear
    <3>4. CASE issue' = issue
      BY <3>1, <3>2, <3>4 DEF seen
    <3> QED
      BY <3>2, <3>3, <3>4
  <2> QED
    BY <1>3, <2>1, ProbeFailsStep DEF ProbeEnds
<1>4. CASE Poll
  <2>1. ready = TRUE
    BY <1>4 DEF Poll, Inv, TypeOK
  <2> QED
    BY <1>4, <2>1 DEF Poll, resultVars, seen, Stage
<1>5. CASE DeviceEnds
  <2>1. CASE DeviceRead
    <3>1. CASE Finish("api")
      BY <2>1, <3>1, FinishStep DEF DeviceRead, Failures
    <3>2. CASE ~Finish("api")
      BY <2>1, <3>2 DEF DeviceRead, resultVars, seen, Stage
    <3> QED
      BY <3>1, <3>2
  <2>2. ASSUME NEW kind \in Failures, DeviceFails(kind)
        PROVE  View!ContractNext
    BY <2>2, FinishStep DEF DeviceFails
  <2> QED
    BY <1>5, <2>1, <2>2 DEF DeviceEnds
<1>6. CASE GatherEnds
  <2>1. raised \in {"none"} \cup Failures
    BY DEF Inv, TypeOK
  <2> QED
    BY <1>6, <2>1, FinishStep DEF GatherEnds
<1>7. CASE \E e \in Optional : OptionalReads(e)
  BY <1>7 DEF OptionalReads, resultVars, seen, Stage
<1>8. CASE World \/ UNCHANGED vars
  BY <1>8 DEF World, vars, resultVars, seen, Stage
<1> QED
  BY <1>1, <1>2, <1>3, <1>4, <1>5, <1>6, <1>7, <1>8 DEF Next

\* Whoever looks at an entry sees each refresh happen at once, for any set of WANs,
\* any lists of devices, and any order of the concurrent reads.
THEOREM RefreshesAreAtomic == Spec => RefreshIsAtomic
<1>1. Spec => View!ContractSpec
  BY InitView, InitProbe, NextProbeInv, NextView, Invariance, PTL
     DEF Spec, View!ContractSpec
<1> QED
  BY <1>1 DEF RefreshIsAtomic

\* An entry that has stopped polling has asked its user for a credential, and its
\* question is not withdrawn but by the setup that follows.
THEOREM StoppedEntriesAsk == Spec => [](phase = "stopped" => reauth)
<1> DEFINE Asked == Stage = "asking" => reauth
<1>1. View!ContractInit => Asked
  BY DEF View!ContractInit
<1>2. Asked /\ [View!ContractNext]_(View!contractVars) => Asked'
  <2> USE DEF View!ContractNext, View!contractVars, View!TrySetup, View!Hear, View!Succeed, View!Fail
  <2> HIDE DEF Stage
  <2> QED OBVIOUS
<1>3. View!ContractSpec => []Asked
  BY <1>1, <1>2, PTL DEF View!ContractSpec
<1>4. Asked => (phase = "stopped" => reauth)
  BY DEF Stage
<1> HIDE DEF Asked
<1> QED
  BY <1>3, <1>4, RefreshesAreAtomic, PTL DEF RefreshIsAtomic

\* While nothing has been refreshed since a setup began, nothing is shown: what is
\* shown of an entry is never what an earlier setup of it has read.
THEOREM SetupsShowNothing ==
    Spec => [](Stage \in {"setup", "retry", "crashed"} => data = Nothing)
<1> DEFINE Blank == Stage \in {"setup", "retry", "crashed"} => data = Nothing
<1>1. View!ContractInit => Blank
  BY DEF View!ContractInit
<1>2. Blank /\ [View!ContractNext]_(View!contractVars) => Blank'
  <2> USE DEF View!ContractNext, View!contractVars, View!TrySetup, View!Hear, View!Succeed, View!Fail
  <2> HIDE DEF Stage
  <2> QED OBVIOUS
<1> HIDE DEF Blank
<1>3. View!ContractSpec => []Blank
  BY <1>1, <1>2, PTL DEF View!ContractSpec
<1>4. Spec => []Blank
  BY <1>3, RefreshesAreAtomic DEF RefreshIsAtomic
<1> QED
  BY <1>4 DEF Blank

=============================================================================
