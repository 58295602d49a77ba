------------------------------- MODULE Models -------------------------------
(* What the library reads out of the device list: which of the listed       *)
(* devices is the gateway, its WANs, and whether it has failed over.  The   *)
(* site's switches and access points are listed too, in any order, and an   *)
(* entry of the list need not be an object at all.                          *)

EXTENDS Integers, Sequences

CONSTANT Slots   \* the N of the wanN keys a device may have

ASSUME SlotsAreWans == Slots \subseteq 1 .. 6 /\ 1 \in Slots

\* wanN is missing, is no object, or describes a WAN, in use or not.
WanValues == {"absent", "junk", "standby", "uplink"}

\* A listed device; known: its type is one of GATEWAY_TYPES.
Devices == [object : BOOLEAN, known : BOOLEAN, wan : [Slots -> WanValues]]

First(S) == CHOOSE i \in S : \A j \in S : i <= j

KnownAt(devices) == {i \in DOMAIN devices : devices[i].object /\ devices[i].known}
HoldersAt(devices) ==
    {i \in DOMAIN devices : /\ devices[i].object
                            /\ \E s \in Slots \cap {1, 2} : devices[i].wan[s] # "absent"}

HasGateway(devices) == KnownAt(devices) \cup HoldersAt(devices) # {}

\* Mutant: a device with a WAN is taken though one of a known type follows.
FindFirstCandidate(devices) == devices[First(KnownAt(devices) \cup HoldersAt(devices))]

\* _find_gateway, of a list that has one.
FindGateway(devices) ==
    devices[First(IF KnownAt(devices) # {} THEN KnownAt(devices) ELSE HoldersAt(devices))]

\* Device.from_api: the WANs, and with active_wan the first that is in use.
Uplinks(d) == {s \in Slots : d.wan[s] = "uplink"}
DeviceOf(d) ==
    [wans   |-> {s \in Slots : d.wan[s] \in {"standby", "uplink"}},
     active |-> IF Uplinks(d) = {} THEN 0 ELSE First(Uplinks(d))]
Snapshots == [wans : SUBSET Slots, active : Slots \cup {0}]

\* Device.failover_active
FailoverActive(device) == device.active \notin {0, 1}

=============================================================================
