------------------------------ MODULE Readings ------------------------------
(* What the entities of a running entry show, and what the status command   *)
(* and the MCP tool would print, of reports that are odd somewhere.         *)
(*                                                                          *)
(* A refresh asks for the device first and for health and system            *)
(* information after that.  An uptime is sampled by the console in whole    *)
(* seconds; it becomes the time of the boot only when an entity writes its  *)
(* state, by the clock of that moment.  The gateway reboots and its WANs    *)
(* reconnect at any time.  Which entities there are is the business of      *)
(* Entities; what a refresh makes of a failed read, that of Coordinator.    *)

EXTENDS Payloads, Naturals, FiniteSets

CONSTANTS
    Number,   \* the N of each wanN block
    Second,   \* the steps of the clock in a second
    MaxTime,  \* bound on the clock
    Lasting   \* bound: what may be odd in the reports while the clock runs on

\* Device.from_api looks for wan1 to wan6.
ASSUME NumbersAreDistinct ==
    /\ Number \in [Wans -> 1 .. 6]
    /\ \A v, w \in Wans : Number[v] = Number[w] => v = w
\* No WAN is called as this module calls what is not known.
ASSUME WansAreKnown == "unknown" \notin Wans
ASSUME SecondIsPositive == Second \in Nat \ {0}
ASSUME MaxTimeIsNat == MaxTime \in Nat

VARIABLES
    now,      \* the clock of Home Assistant
    started,  \* when the gateway booted and when each WAN connected
    odd,      \* what is odd in the reports of the console
    asked,    \* what the device reported to the refresh in progress, if any
    data,     \* coordinator.data
    success,  \* coordinator.last_update_success
    boot      \* the boot and connection times the entities last wrote, if any

vars == <<now, started, odd, asked, data, success, boot>>

Clocks == {"gateway"} \cup Listed
Times == 0 .. MaxTime
Parts == {"health", "sysinfo"}

\* A whole number of seconds, in steps of the clock.
WholeSeconds(t) == Second * (t \div Second)

\* What the device says of its clocks; when it said so and when they started is
\* history.
Sample == [at |-> now, started |-> started,
           uptime |-> [c \in Clocks |-> WholeSeconds(now - started[c])]]
Samples == [at : Times, started : [Clocks -> Times], uptime : [Clocks -> Times]]

-----------------------------------------------------------------------------
(* What an entity shows.                                                    *)

\* value_fn of the sensors on the device, then of those on health and sysinfo
DeviceSensors ==
    [cpu |-> <<"system_stats", "cpu">>, memory |-> <<"system_stats", "mem">>,
     load_1 |-> <<"sys_stats", "loadavg_1">>, load_5 |-> <<"sys_stats", "loadavg_5">>,
     load_15 |-> <<"sys_stats", "loadavg_15">>, clients |-> <<"device", "num_sta">>]
HealthSensors ==
    [clients_wired |-> <<"lan", "num_user">>, clients_wireless |-> <<"wlan", "num_user">>,
     clients_guest |-> <<"wlan", "num_guest">>, clients_iot |-> <<"wlan", "num_iot">>,
     isp |-> <<"wan", "isp_name">>, isp_asn |-> <<"wan", "asn">>,
     internet_latency |-> <<"www", "latency">>, speedtest_download |-> <<"www", "xput_down">>,
     speedtest_upload |-> <<"www", "xput_up">>, speedtest_ping |-> <<"www", "speedtest_ping">>,
     speedtest_last_run |-> <<"www", "speedtest_lastrun">>,
     vpn_remote_active |-> <<"vpn", "remote_user_num_active">>]
SysInfoSensors == [network_version |-> <<"sysinfo", "version">>]

\* The binary sensors
DeviceBinary == [overheating |-> <<"device", "overheating">>]
HealthBinary ==
    [internet |-> <<"www", "status">>, vpn_site_to_site |-> <<"vpn", "site_to_site_enabled">>]
SysInfoBinary == [update_available |-> <<"sysinfo", "update_available">>]

\* The sensors of a WAN, but for the latency, availability and uptime.
WanSensors ==
    [ip |-> "ip", media |-> "media", link_speed |-> "speed", throughput_rx |-> "rx_rate",
     throughput_tx |-> "tx_rate", total_rx |-> "rx_bytes", total_tx |-> "tx_bytes",
     up |-> "up", active |-> "is_uplink"]

\* Entities, by their owner and key: those that show a field, or two, and the two of
\* the console that show which of all its WANs is in use
HubKeys ==
    DOMAIN DeviceSensors \cup DOMAIN DeviceBinary \cup {"storage_usage", "temperature"}
    \cup DOMAIN HealthSensors \cup DOMAIN HealthBinary
    \cup DOMAIN SysInfoSensors \cup DOMAIN SysInfoBinary
RouteKeys == {"active_wan", "failover"}

FieldEntities ==
    ({"hub"} \X HubKeys)
    \cup (Wans \X (DOMAIN WanSensors \cup {"latency", "availability"}))
    \cup (Sfps \X {"present", "problem"})
Entities == FieldEntities \cup ({"hub"} \X RouteKeys)

\* The `or None` of some sensors
OrUnknown(value) == IF value \in {"zero", "empty"} THEN "unknown" ELSE value

\* Mutant: a volume is divided by its size whatever that is.
UsageUnguarded(size, used) ==
    IF size = "zero" THEN "raises" ELSE IF used = "zero" THEN "zero" ELSE "reported"

\* StorageVolume.usage_percent
Usage(size, used) == IF "zero" \in {size, used} THEN "zero" ELSE "reported"

\* SfpPort.has_problem; one of the two faults may be reported without the other.
HasProblem(o, sfp) ==
    LET found == ReadingOf(o, sfp, "sfp_found")
        los   == ReadingOf(o, sfp, "sfp_rx_los")
        fault == ReadingOf(o, sfp, "sfp_tx_fault")
    IN  IF found = "off" THEN "off" ELSE IF los = fault THEN los ELSE "partly"

\* Health.internet_up: no status but "ok" is up
InternetUp(o) ==
    IF ReadingOf(o, "www", "status") = "reported" THEN "reported" ELSE "off"

Field(keys, key, o) == ReadingOf(o, keys[key][1], keys[key][2])

\* A sensor of a part that was not read has no value.
PartOf(key) ==
    IF key \in DOMAIN HealthSensors \cup DOMAIN HealthBinary THEN {"health"}
    ELSE IF key \in DOMAIN SysInfoSensors \cup DOMAIN SysInfoBinary THEN {"sysinfo"}
    ELSE {}

HubReads(o, key) ==
    CASE key = "storage_usage" ->
             IF Has(o, "storage")
             THEN Usage(ReadingOf(o, "storage", "size"), ReadingOf(o, "storage", "used"))
             ELSE "unknown"
      [] key = "temperature" ->
             IF Has(o, "temperatures") THEN ReadingOf(o, "temperatures", "value") ELSE "unknown"
      [] key = "isp" -> OrUnknown(Field(HealthSensors, key, o))
      [] key = "internet" -> InternetUp(o)
      [] key \in DOMAIN DeviceSensors -> Field(DeviceSensors, key, o)
      [] key \in DOMAIN DeviceBinary  -> Field(DeviceBinary, key, o)
      [] key \in DOMAIN HealthSensors \ {"isp"} -> Field(HealthSensors, key, o)
      [] key \in DOMAIN HealthBinary \ {"internet"} -> Field(HealthBinary, key, o)
      [] key \in DOMAIN SysInfoSensors -> Field(SysInfoSensors, key, o)
      [] key \in DOMAIN SysInfoBinary  -> Field(SysInfoBinary, key, o)

HubShows(o, parts, key) ==
    IF PartOf(key) \subseteq parts THEN HubReads(o, key) ELSE "unknown"

\* Wan.from_api: from the uptime_stats entry, if there is one
StatsOrBlock(o, wan, stats, block) ==
    ReadingOf(o, wan, IF stats \in Unread(o, wan) THEN block ELSE stats)

Latency(o, wan) == StatsOrBlock(o, wan, "latency_average", "wan_latency")
Availability(o, wan) == StatsOrBlock(o, wan, "availability", "wan_availability")

WanShows(o, wan, key) ==
    CASE key = "latency"      -> Latency(o, wan)
      [] key = "availability" -> Availability(o, wan)
      [] key \in {"ip", "media", "link_speed"} ->
             OrUnknown(ReadingOf(o, wan, WanSensors[key]))
      [] OTHER -> ReadingOf(o, wan, WanSensors[key])

SfpShows(o, sfp, key) ==
    IF key = "present" THEN ReadingOf(o, sfp, "sfp_found")
    ELSE HasProblem(o, sfp)

\* native_value and is_on of an entity that shows a field, and `available` of one of a
\* WAN or a port
FieldShows(o, parts, e) ==
    IF e[1] = "hub" THEN HubShows(o, parts, e[2])
    ELSE IF ~Has(o, e[1]) THEN "unavailable"
    ELSE IF e[1] \in Wans THEN WanShows(o, e[1], e[2])
    ELSE SfpShows(o, e[1], e[2])

\* The WANs whose is_active is true, of those that are the uplink
InUse(o, uplinks) ==
    {w \in uplinks : Has(o, w) /\ ReadingOf(o, w, "is_uplink") = "reported"}

\* Device.active_wan, the first that is in use, and failover_active
Foremost(wans) == CHOOSE w \in wans : \A v \in wans : Number[w] \leq Number[v]
ActiveWan(o, uplinks) ==
    IF InUse(o, uplinks) = {} THEN "unknown" ELSE Foremost(InUse(o, uplinks))
FailoverActive(o, uplinks) ==
    LET active == ActiveWan(o, uplinks)
    IN  IF active # "unknown" /\ Number[active] # 1 THEN "on" ELSE "off"

RouteShows(o, uplinks, key) ==
    IF key = "active_wan" THEN ActiveWan(o, uplinks) ELSE FailoverActive(o, uplinks)

\* native_value and is_on of an entity
Shows(o, parts, uplinks, e) ==
    IF e \in FieldEntities THEN FieldShows(o, parts, e) ELSE RouteShows(o, uplinks, e[2])

-----------------------------------------------------------------------------
(* What status_payload says: of the console and the internet by what it     *)
(* takes from which model, of the route, a WAN or a port by its attributes. *)

StatusDevice ==
    [cpu_percent |-> <<"system_stats", "cpu">>, memory_percent |-> <<"system_stats", "mem">>,
     loadavg_1 |-> <<"sys_stats", "loadavg_1">>, loadavg_5 |-> <<"sys_stats", "loadavg_5">>,
     loadavg_15 |-> <<"sys_stats", "loadavg_15">>, clients |-> <<"device", "num_sta">>,
     overheating |-> <<"device", "overheating">>]
StatusHealth ==
    [isp |-> <<"wan", "isp_name">>, asn |-> <<"wan", "asn">>, latency_ms |-> <<"www", "latency">>,
     download_mbps |-> <<"www", "xput_down">>, upload_mbps |-> <<"www", "xput_up">>,
     ping_ms |-> <<"www", "speedtest_ping">>]
StatusSysInfo ==
    [network_version |-> <<"sysinfo", "version">>,
     update_available |-> <<"sysinfo", "update_available">>]

\* Mutant: an internet nobody was told of is down.
StatusInternetKnown(o, parts) == InternetUp(o)

StatusInternet(o, parts) == IF "health" \in parts THEN InternetUp(o) ELSE "unknown"

StatusShows(o, parts, key) ==
    CASE key = "up" -> StatusInternet(o, parts)
      [] key = "temperatures" ->
             IF Has(o, "temperatures") THEN ReadingOf(o, "temperatures", "value") ELSE "unknown"
      [] key \in DOMAIN StatusDevice -> Field(StatusDevice, key, o)
      [] key \in DOMAIN StatusHealth ->
             IF "health" \in parts THEN Field(StatusHealth, key, o) ELSE "unknown"
      [] key \in DOMAIN StatusSysInfo ->
             IF "sysinfo" \in parts THEN Field(StatusSysInfo, key, o) ELSE "unknown"

StatusWan(o, wan, key) ==
    CASE key = "latency_ms"   -> Latency(o, wan)
      [] key = "availability" -> Availability(o, wan)
      [] key = "up"           -> ReadingOf(o, wan, "up")
      [] key = "active"       -> ReadingOf(o, wan, "is_uplink")
      [] key = "media"        -> ReadingOf(o, wan, "media")
      [] key = "speed_mbps"   -> ReadingOf(o, wan, "speed")

\* A port is listed with its fault, not with whether there is a module in it.
StatusSfp(o, sfp) == HasProblem(o, sfp)

StatusRoute(o, uplinks) ==
    [active_wan |-> ActiveWan(o, uplinks), failover_active |-> FailoverActive(o, uplinks)]

\* read_all: a supplementary read that fails in whatever way is one not made.
StatusParts(o, answered) ==
    {p \in answered : ~Raises(o, IF p = "health" THEN HealthRows ELSE {"sysinfo"})}

-----------------------------------------------------------------------------
(* The refresh, and the clocks.                                             *)

\* How the uptime of a clock was read: that of a WAN may be no number, that of the
\* gateway is zero then.
UptimeRead(o, c) ==
    IF c = "gateway" THEN ReadingOf(o, "device", "uptime")
    ELSE IF Has(o, c) /\ HasStats(o, c) THEN ReadingOf(o, c, "uptime")
    ELSE "unknown"

\* Mutant: the uptime of a WAN that reports none is read by _i0, too.
BootShownCounts(snapshot, c) ==
    IF UptimeRead(snapshot.odd, c) = "reported" THEN {now - snapshot.sample.uptime[c]} ELSE {now}

\* Mutant: the uptime is taken for milliseconds.
BootShownScaled(snapshot, c) ==
    IF UptimeRead(snapshot.odd, c) = "reported"
    THEN {now - Second * snapshot.sample.uptime[c]} ELSE {}

\* uptime_since, by _uptime
BootShown(snapshot, c) ==
    CASE UptimeRead(snapshot.odd, c) = "reported" -> {now - snapshot.sample.uptime[c]}
      [] UptimeRead(snapshot.odd, c) = "zero"     -> {now}
      [] OTHER                                    -> {}

Written(snapshot) == [c \in Clocks |-> BootShown(snapshot, c)]
NothingWritten == [c \in Clocks |-> {}]

Init ==
    /\ now = 0
    /\ started = [c \in Clocks |-> 0]
    /\ odd \in Oddities
    /\ asked = {}
    /\ data = [odd |-> NoOddity, parts |-> Parts, sample |-> Sample]
    /\ success = TRUE
    /\ boot = Written(data)

Tick ==
    /\ now < MaxTime
    /\ odd \in Lasting /\ data.odd \in Lasting
    /\ now' = now + 1
    /\ UNCHANGED <<started, odd, asked, data, success, boot>>

\* The gateway reboots, or one WAN reconnects.
Restart(c) ==
    /\ started' = IF c = "gateway" THEN [d \in Clocks |-> now] ELSE [started EXCEPT ![c] = now]
    /\ UNCHANGED <<now, odd, asked, data, success, boot>>

\* The console reports as usual again.
Straighten ==
    /\ odd' = NoOddity
    /\ UNCHANGED <<now, started, asked, data, success, boot>>

\* _async_update_data, the read of the device
AskDevice ==
    /\ asked = {}
    /\ asked' = {Sample}
    /\ UNCHANGED <<now, started, odd, data, success, boot>>

\* The first failure tells the listeners, and the entities become unavailable.
Fails ==
    /\ asked' = {}
    /\ success' = FALSE
    /\ boot' = NothingWritten
    /\ UNCHANGED data

ReadGroups(parts) ==
    (Groups \ (HealthRows \cup {"sysinfo"})) \cup Unchecked
    \cup (IF "health" \in parts THEN HealthRows ELSE {})
    \cup (IF "sysinfo" \in parts THEN {"sysinfo"} ELSE {})

\* The answers are in, the supplementary ones that were asked for and not denied;
\* a model that cannot be built of one of them fails the refresh.
Finish(parts) ==
    /\ asked # {}
    /\ IF Raises(odd, ReadGroups(parts))
       THEN Fails
       ELSE /\ asked' = {}
            /\ success' = TRUE
            /\ data' = [odd |-> odd, parts |-> parts, sample |-> CHOOSE a \in asked : TRUE]
            /\ boot' = Written(data')
    /\ UNCHANGED <<now, started, odd>>

\* The console does not answer, or the credential or certificate is refused.
ReadFails ==
    /\ asked # {}
    /\ Fails
    /\ UNCHANGED <<now, started, odd>>

\* An entity writes its state for a reason of Home Assistant's own: it was renamed.
Redraw(c) ==
    /\ success
    /\ boot' = [boot EXCEPT ![c] = BootShown(data, c)]
    /\ UNCHANGED <<now, started, odd, asked, data, success>>

Next ==
    \/ Tick
    \/ \E c \in Clocks : Restart(c) \/ Redraw(c)
    \/ Straighten
    \/ AskDevice
    \/ \E parts \in SUBSET Parts : Finish(parts)
    \/ ReadFails

Spec == Init /\ [][Next]_vars

-----------------------------------------------------------------------------

\* The times the entities show are times, and what they show them of is a report.
TypeOK ==
    /\ now \in Times
    /\ started \in [Clocks -> Times]
    /\ odd \in Oddities \cup {NoOddity}
    /\ asked \subseteq Samples /\ Cardinality(asked) \leq 1
    /\ data \in [odd : Oddities \cup {NoOddity}, parts : SUBSET Parts, sample : Samples]
    /\ success \in BOOLEAN
    /\ boot \in [Clocks -> SUBSET Times]

\* The boot and connection times are those of the report they were computed from,
\* late by no more than the age of that report and the second it was rounded to, and
\* never early; a WAN that reports no uptime shows none.  The models subtract an
\* uptime sampled before two more reads from the clock of whenever the state is
\* written.
BootTimeTracks ==
    \A c \in Clocks : \A b \in boot[c] :
        \/ UptimeRead(data.odd, c) = "zero"
        \/ /\ data.sample.started[c] \leq b
           /\ b < data.sample.started[c] + (now - data.sample.at) + Second

\* The entities of a set that show something else than they would had nothing been odd
Disturbed(entities, uplinks) ==
    {e \in entities :
        Shows(data.odd, data.parts, uplinks, e) # Shows(NoOddity, data.parts, uplinks, e)}

\* An odd field changes what one entity shows at most, or the two of one port; a block
\* that is missing, those of its owner; and no value_fn raises.  Only the route of the
\* console hangs on more: whichever WANs are in use, the active WAN and failover change
\* with an odd is_uplink, or no block at all, of the WAN the console takes.
OddFieldDisturbsOne ==
    LET owner == IF data.odd.group \in Wans \cup Sfps THEN data.odd.group ELSE "hub"
        disturbed == Disturbed(FieldEntities, {})
    IN  /\ \A e \in disturbed : e[1] = owner /\ Shows(data.odd, data.parts, {}, e) # "raises"
        /\ \/ data.odd.field \in {"all", "stats"}
           \/ data.odd.group \in Sfps
           \/ Cardinality(disturbed) \leq 1
        /\ \A uplinks \in SUBSET Wans :
              \/ Disturbed(Entities \ FieldEntities, uplinks) = {}
              \/ /\ data.odd.field \in {"is_uplink", "all"}
                 /\ data.odd.group = ActiveWan(NoOddity, uplinks)

\* Where an integer belongs there is a number that is none, or where a block
\* belongs that nobody checks, a scalar.
Unreadable(o) ==
    \/ o.kind = "scalar"
    \/ /\ o.kind \in {"dashes", "infinite"}
       /\ ReadersOf(o.group)[o.field] \in {"int", "count", "instant"}
       /\ ~(o.group \in Listed /\ o.field = "wan_latency")
       /\ ~(o.group \in Wans \ Listed /\ o.field \in {"latency_average", "uptime"})

\* A refresh that was answered fails over such a value only, and one in what it asked
\* for: not over anything else that is odd, nor over the block of a WAN that is passed
\* over for its uptime_stats entry or a supplementary answer that it did without.
OnlyUnreadableFails ==
    [][\A parts \in SUBSET Parts :
         Finish(parts) /\ ~success' =>
           /\ Unreadable(odd)
           /\ odd.group \in HealthRows => "health" \in parts
           /\ odd.group = "sysinfo" => "sysinfo" \in parts]_vars

\* No field fails a refresh, whatever it holds: models.py has _i "Coerce to int or
\* None", and its other readers default, too.
OddFieldNeverFails ==
    [][\A parts \in SUBSET Parts :
         Finish(parts) /\ odd.kind # "scalar" => success']_vars

\* The entity that shows what an item of the status does
Counterpart ==
    [cpu_percent |-> "cpu", memory_percent |-> "memory", loadavg_1 |-> "load_1",
     loadavg_5 |-> "load_5", loadavg_15 |-> "load_15", clients |-> "clients",
     overheating |-> "overheating", temperatures |-> "temperature", up |-> "internet",
     isp |-> "isp", asn |-> "isp_asn", latency_ms |-> "internet_latency",
     download_mbps |-> "speedtest_download", upload_mbps |-> "speedtest_upload",
     ping_ms |-> "speedtest_ping", network_version |-> "network_version",
     update_available |-> "update_available"]
WanCounterpart ==
    [latency_ms |-> "latency", availability |-> "availability", up |-> "up",
     active |-> "active", media |-> "media", speed_mbps |-> "link_speed"]

\* Of the same answers the status command and the MCP tool say what the entities
\* show, of the console, the internet, the route, each WAN and the fault of each port,
\* and of as many parts; they differ only in that a zero or an empty text may be shown
\* as unknown.
StatusAgrees ==
    LET o == data.odd
        Same(said, shown) == said = shown \/ OrUnknown(said) = shown
    IN  /\ StatusParts(o, data.parts) = data.parts
        /\ \A key \in DOMAIN Counterpart :
              Same(StatusShows(o, data.parts, key),
                   FieldShows(o, data.parts, <<"hub", Counterpart[key]>>))
        /\ \A w \in Wans : Has(o, w) =>
              \A key \in DOMAIN WanCounterpart :
                 Same(StatusWan(o, w, key), FieldShows(o, data.parts, <<w, WanCounterpart[key]>>))
        /\ \A sfp \in Sfps : Has(o, sfp) =>
              StatusSfp(o, sfp) = FieldShows(o, data.parts, <<sfp, "problem">>)
        /\ \A uplinks \in SUBSET Wans :
              LET route == StatusRoute(o, uplinks)
              IN  /\ route.active_wan = Shows(o, data.parts, uplinks, <<"hub", "active_wan">>)
                  /\ route.failover_active = Shows(o, data.parts, uplinks, <<"hub", "failover">>)

=============================================================================
