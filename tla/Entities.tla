------------------------------ MODULE Entities ------------------------------
(* The sub-devices of an entry and their entities.                          *)
(*                                                                          *)
(* Each poll lists the WANs and SFP ports the gateway has at that moment.   *)
(* Every platform keeps the keys it has made entities for, and a listener   *)
(* of the coordinator adds entities for those it has not seen; Home         *)
(* Assistant adds them in a task of its own.  A user may delete the device  *)
(* of a sub-device that is gone, and its entities with it.  The hub device  *)
(* and the entities on it are there as long as the entry is loaded and are  *)
(* left out.                                                                *)

EXTENDS Naturals

CONSTANTS
    Wans,   \* uplinks the gateway may have; both platforms have entities for them
    Sfps    \* SFP ports it may have; only binary_sensor has entities for them

ASSUME WansAreNoSfps == Wans \cap Sfps = {}

VARIABLES
    attached,  \* what the gateway has
    data,      \* what coordinator.data lists: the latest successful poll
    success,   \* coordinator.last_update_success
    loaded,    \* the entry is loaded
    seen,      \* seen[p]: the keys add_new_entities has made entities for
    adding,    \* adding[p][k]: the hand-overs of k Home Assistant has yet to carry out
    entities,  \* entities[p]: the keys that have live entities on platform p
    devices,   \* the sub-devices in the device registry
    removed    \* history: devices the user has deleted since the entry was set up

vars == <<attached, data, success, loaded, seen, adding, entities, devices, removed>>

Platforms == {"sensor", "binary_sensor"}
Keys == Wans \cup Sfps

\* Mutant: sensors are made for every sub-device.
ListedForAll(p, keys) == keys

\* The keys functions of the two platforms.
Listed(p, keys) == IF p = "sensor" THEN keys \cap Wans ELSE keys

None == [p \in Platforms |-> {}]
NothingToAdd == [p \in Platforms |-> [k \in Keys |-> 0]]
AllListed(keys) == [p \in Platforms |-> Listed(p, keys)]

Init ==
    /\ attached \in SUBSET Keys
    /\ data = {}
    /\ success = FALSE
    /\ loaded = FALSE
    /\ seen = None
    /\ adding = NothingToAdd
    /\ entities = None
    /\ devices \in SUBSET Keys
    /\ removed = {}

-----------------------------------------------------------------------------
\* A setup that gets through: the first refresh, then both platforms, which
\* start with nothing seen and whose first entities are added before it ends.
Setup ==
    /\ ~loaded
    /\ loaded' = TRUE
    /\ success' = TRUE
    /\ data' = attached
    /\ seen' = AllListed(attached)
    /\ entities' = AllListed(attached)
    /\ devices' = devices \cup attached
    /\ UNCHANGED <<attached, adding, removed>>

\* async_add_entities of the fresh keys, each platform's own; it only schedules.
HandOver(fresh) ==
    adding' = [p \in Platforms |->
                 [k \in Keys |-> adding[p][k] + (IF k \in fresh[p] THEN 1 ELSE 0)]]

\* Mutants: what a poll does not list is forgotten; only a setup adds entities; the
\* binary sensors are not told of the polls.
SyncForgets ==
    /\ seen' = AllListed(data')
    /\ HandOver([p \in Platforms |-> Listed(p, data') \ seen[p]])
SyncOnlyAtSetup ==
    /\ seen' = [p \in Platforms |-> seen[p] \cup Listed(p, data')]
    /\ UNCHANGED adding
SyncSensorsOnly ==
    /\ seen' = [seen EXCEPT !["sensor"] = @ \cup Listed("sensor", data')]
    /\ HandOver([None EXCEPT !["sensor"] = Listed("sensor", data') \ seen["sensor"]])

\* add_new_entities: the listener's _sync, on each platform.
Sync ==
    /\ seen' = [p \in Platforms |-> seen[p] \cup Listed(p, data')]
    /\ HandOver([p \in Platforms |-> Listed(p, data') \ seen[p]])

\* A refresh succeeds or fails; the listeners run either way, and after a
\* failure the data is still that of the last success.
Refresh ==
    /\ loaded
    /\ \/ data' = attached /\ success' = TRUE
       \/ data' = data /\ success' = FALSE
    /\ Sync
    /\ UNCHANGED <<attached, loaded, entities, devices, removed>>

\* Home Assistant carries a hand-over out, and with the first entity its device.
AddEntities(p, k) ==
    /\ adding[p][k] > 0
    /\ adding' = [adding EXCEPT ![p][k] = @ - 1]
    /\ entities' = [entities EXCEPT ![p] = @ \cup {k}]
    /\ devices' = devices \cup {k}
    /\ UNCHANGED <<attached, data, success, loaded, seen, removed>>

\* What async_remove_config_entry_device refuses to delete.
Known == data

\* The user deletes a device, and Home Assistant its entities.
DeleteDevice(k) ==
    /\ loaded
    /\ k \in devices \ Known
    /\ devices' = devices \ {k}
    /\ entities' = [p \in Platforms |-> entities[p] \ {k}]
    /\ removed' = removed \cup {k}
    /\ UNCHANGED <<attached, data, success, loaded, seen, adding>>

\* An unload, a reload's first half, or a restart: the registry stays.
Unload ==
    /\ loaded
    /\ loaded' = FALSE
    /\ seen' = None
    /\ adding' = NothingToAdd
    /\ entities' = None
    /\ removed' = {}
    /\ UNCHANGED <<attached, data, success, devices>>

\* A WAN is configured or removed, an SFP port comes or goes.
Attach(k) ==
    /\ attached' = IF k \in attached THEN attached \ {k} ELSE attached \cup {k}
    /\ UNCHANGED <<data, success, loaded, seen, adding, entities, devices, removed>>

Next ==
    \/ Setup
    \/ Refresh
    \/ \E p \in Platforms, k \in Keys : AddEntities(p, k)
    \/ Unload
    \/ \E k \in Keys : DeleteDevice(k) \/ Attach(k)

Spec == Init /\ [][Next]_vars

\* Home Assistant carries its tasks out.
FairSpec == Spec /\ \A p \in Platforms, k \in Keys : WF_vars(AddEntities(p, k))

-----------------------------------------------------------------------------
(* What is promised.                                                        *)

\* Types; and no sensor belongs to an SFP port.
TypeOK ==
    /\ attached \in SUBSET Keys /\ data \in SUBSET Keys
    /\ devices \in SUBSET Keys /\ removed \in SUBSET Keys
    /\ success \in BOOLEAN /\ loaded \in BOOLEAN
    /\ seen \in [Platforms -> SUBSET Keys]
    /\ adding \in [Platforms -> [Keys -> Nat]]
    /\ entities \in [Platforms -> SUBSET Keys]
    /\ seen["sensor"] \cup entities["sensor"] \subseteq Wans
    /\ \A k \in Sfps : adding["sensor"][k] = 0

\* No sub-device gets its entities twice: they are there, or handed over once, or
\* neither, however often a WAN goes and comes back, polls follow each other before
\* the hand-over is carried out, and whatever is deleted meanwhile.  Home Assistant
\* would refuse the second entity of a unique id.
NoEntityTwice ==
    \A p \in Platforms, k \in Keys :
        adding[p][k] + (IF k \in entities[p] THEN 1 ELSE 0) \leq 1

Pending(p) == {k \in Keys : adding[p][k] > 0}
Missing(p) == Listed(p, data) \ (entities[p] \cup Pending(p))

\* "appear at runtime get their entities without a reload": everything the
\* latest poll lists has its entities on each platform, or is about to.
EntitiesFollowGateway ==
    loaded => \A p \in Platforms : Missing(p) = {}

\* The same, except for what the user has deleted since the entry was set up.
OnlyDeletedAreMissing ==
    loaded => \A p \in Platforms : Missing(p) \subseteq removed

\* And they do appear: what the polls of a loaded entry go on listing gets, and keeps,
\* its entities on every platform, though other sub-devices come and go and polls
\* fail, unless its device has been deleted.
EntitiesArrive ==
    \A p \in Platforms : \A k \in Keys :
        <>[](loaded /\ k \in Listed(p, data) /\ k \notin removed) => <>[](k \in entities[p])

=============================================================================
