------------------------------ MODULE Payloads ------------------------------
(* How the models read a report of the console, field by field.  A report   *)
(* is as the gateway usually sends it but for one oddity: a field that      *)
(* holds something else, a block that is missing, or a scalar where an      *)
(* object or a list belongs.  What a field is read as is abstracted to what *)
(* the readers tell apart; "reported" is whatever the console sent.         *)

CONSTANTS
    Wans,    \* the wanN blocks of the gateway, which are groups of fields
    Listed,  \* those with an entry in uptime_stats, as a rule
    Sfps     \* its SFP ports, groups of fields too

ASSUME ListedAreWans == Listed \subseteq Wans

\* What a field may hold: a whole number, also as a text, a fraction, a fraction
\* as a text, zero, a text such as "--5" that looks like digits and is no number, a
\* number without a finite value, or anything else: null, another type, nothing.
Kinds == {"usual", "fraction", "fraction_text", "nought", "dashes", "infinite", "junk"}

-----------------------------------------------------------------------------
(* The readers of one value.                                                *)

\* _i; int() raises on what is no whole number after all.
AsInt(kind) ==
    CASE kind \in {"usual", "fraction"}  -> "reported"
      [] kind = "nought"                 -> "zero"
      [] kind \in {"dashes", "infinite"} -> "raises"
      [] OTHER                           -> "unknown"

\* _i0
AsCount(kind) == IF AsInt(kind) = "unknown" THEN "zero" ELSE AsInt(kind)

\* Mutant: a text that is no number is not caught.
AsFloatUncaught(kind) ==
    CASE kind \in {"usual", "fraction", "fraction_text"} -> "reported"
      [] kind = "nought"   -> "zero"
      [] kind = "infinite" -> "infinite"
      [] kind = "dashes"   -> "raises"
      [] OTHER             -> "unknown"

\* _fo
AsFloat(kind) ==
    CASE kind \in {"usual", "fraction", "fraction_text"} -> "reported"
      [] kind = "nought"   -> "zero"
      [] kind = "infinite" -> "infinite"
      [] OTHER             -> "unknown"

\* _f
AsAmount(kind) == IF AsFloat(kind) = "unknown" THEN "zero" ELSE AsFloat(kind)

\* _b and _s
AsFlag(kind) == IF kind = "usual" THEN "reported" ELSE "off"
AsText(kind) == IF kind = "usual" THEN "reported" ELSE "empty"

\* _epoch
AsInstant(kind) == IF AsInt(kind) = "zero" THEN "unknown" ELSE AsInt(kind)

ReadAs(reader, kind) ==
    CASE reader = "int"     -> AsInt(kind)
      [] reader = "count"   -> AsCount(kind)
      [] reader = "float"   -> AsFloat(kind)
      [] reader = "amount"  -> AsAmount(kind)
      [] reader = "flag"    -> AsFlag(kind)
      [] reader = "text"    -> AsText(kind)
      [] reader = "instant" -> AsInstant(kind)

-----------------------------------------------------------------------------
(* Which reader each field of a block gets.                                 *)

\* Device.from_api, its own fields and those of two blocks it holds
DeviceReaders == [num_sta |-> "count", overheating |-> "flag", uptime |-> "count"]
SystemStatsReaders == [cpu |-> "amount", mem |-> "amount"]
SysStatsReaders == [loadavg_1 |-> "amount", loadavg_5 |-> "amount", loadavg_15 |-> "amount"]

\* StorageVolume, Temperature and SfpPort.from_api
StorageReaders == [size |-> "count", used |-> "count"]
TemperatureReaders == [value |-> "amount"]
SfpReaders == [sfp_found |-> "flag", sfp_rx_los |-> "flag", sfp_tx_fault |-> "flag"]

\* Wan.from_api; the three fields without a wan_ come from uptime_stats.
WanReaders ==
    [up |-> "flag", is_uplink |-> "flag", ip |-> "text", media |-> "text", speed |-> "count",
     rx_rate |-> "count", tx_rate |-> "count", rx_bytes |-> "count", tx_bytes |-> "count",
     wan_latency |-> "int", wan_availability |-> "float",
     latency_average |-> "int", availability |-> "float", uptime |-> "int"]

\* Health.from_api with Speedtest, Isp and Vpn, by subsystem
WwwReaders ==
    [status |-> "text", latency |-> "int", xput_down |-> "float", xput_up |-> "float",
     speedtest_ping |-> "int", speedtest_lastrun |-> "instant"]
IspReaders == [isp_name |-> "text", asn |-> "int"]
LanReaders == [num_user |-> "count"]
WlanReaders == [num_user |-> "count", num_guest |-> "count", num_iot |-> "count"]
VpnReaders == [remote_user_num_active |-> "count", site_to_site_enabled |-> "flag"]

\* SysInfo.from_api
SysInfoReaders == [version |-> "text", update_available |-> "flag"]

ConsoleReaders ==
    [device |-> DeviceReaders, system_stats |-> SystemStatsReaders,
     sys_stats |-> SysStatsReaders, storage |-> StorageReaders,
     temperatures |-> TemperatureReaders, www |-> WwwReaders, wan |-> IspReaders,
     lan |-> LanReaders, wlan |-> WlanReaders, vpn |-> VpnReaders,
     sysinfo |-> SysInfoReaders]

HealthRows == {"www", "wan", "lan", "wlan", "vpn"}
Groups == DOMAIN ConsoleReaders \cup Wans \cup Sfps

\* A WAN or a port is none of the other blocks, nor is called "hub" or "none".
ASSUME GroupsAreDistinct ==
    /\ Wans \cap Sfps = {}
    /\ (Wans \cup Sfps) \cap (DOMAIN ConsoleReaders \cup {"hub", "none"}) = {}

ReadersOf(group) ==
    IF group \in Wans THEN WanReaders
    ELSE IF group \in Sfps THEN SfpReaders
    ELSE ConsoleReaders[group]

\* The kinds in which a field of each reader can be odd.
OddKinds(reader) ==
    IF reader \in {"flag", "text"} THEN {"junk"} ELSE Kinds \ {"usual"}

\* The blocks Device.from_api takes for objects and lists without a look.
Unchecked == {"system_stats", "sys_stats", "uptime_stats", "storage", "temperatures",
              "port_table"}

\* One field is odd; a block is missing, or no object where that is looked at;
\* the uptime_stats entry of a WAN is missing; an unchecked block is a scalar.
OddFieldsOf(g) ==
    UNION {[group : {g}, field : {f}, kind : OddKinds(ReadersOf(g)[f])] :
              f \in DOMAIN ReadersOf(g)}
OddFields == UNION {OddFieldsOf(g) : g \in Groups}
NoBlock == {[group |-> g, field |-> "all", kind |-> "junk"] : g \in Groups \ {"device"}}
NoStats == {[group |-> w, field |-> "stats", kind |-> "junk"] : w \in Listed}
OddBlocks == {[group |-> u, field |-> "all", kind |-> "scalar"] : u \in Unchecked}

Oddities == OddFields \cup NoBlock \cup NoStats \cup OddBlocks
NoOddity == [group |-> "none", field |-> "none", kind |-> "usual"]

KindOf(odd, group, field) ==
    IF odd.group = group /\ odd.field \in {field, "all"} THEN odd.kind ELSE "usual"

ReadingOf(odd, group, field) ==
    ReadAs(ReadersOf(group)[field], KindOf(odd, group, field))

\* Is the block there?  A WAN or port that is not, or is no object, is passed over.
Has(odd, group) == ~(odd.group = group /\ odd.field = "all")
HasStats(odd, wan) == wan \in Listed /\ ~(odd.group = wan /\ odd.field = "stats")

\* What Wan.from_api does not read: the block's own figures if there is an
\* uptime_stats entry, and those of that entry if there is none.
Unread(odd, wan) ==
    IF HasStats(odd, wan) THEN {"wan_latency", "wan_availability"}
    ELSE {"latency_average", "availability", "uptime"}

Reads(odd, group) ==
    DOMAIN ReadersOf(group) \ (IF group \in Wans THEN Unread(odd, group) ELSE {})

\* from_api of one of these blocks raises, and not one of the library's errors; a
\* usual field never does.
Raises(odd, groups) ==
    \/ odd.kind = "scalar" /\ odd.group \in groups
    \/ \E g \in groups \cap Groups \cap {odd.group} :
          \E f \in Reads(odd, g) : ReadingOf(odd, g, f) = "raises"

=============================================================================
