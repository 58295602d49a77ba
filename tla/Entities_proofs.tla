-------------------------- MODULE Entities_proofs ---------------------------
(* Proofs about Entities, for any sub-devices.                              *)

EXTENDS Entities, TLAPS

-----------------------------------------------------------------------------
(* The inductive invariant.  That nothing is added twice takes knowing that *)
(* whatever has an entity, or is about to get one, has been seen; and what  *)
(* has been seen keeps its entities until the user deletes its device.      *)

SeenInv(p) ==
    /\ Pending(p) \cup entities[p] \subseteq seen[p]
    /\ \A k \in Keys : adding[p][k] + (IF k \in entities[p] THEN 1 ELSE 0) \leq 1
    /\ loaded => Listed(p, data) \subseteq seen[p]
    /\ seen[p] \ (entities[p] \cup Pending(p)) \subseteq removed
    /\ ~loaded => Pending(p) = {} /\ entities[p] = {}

Inv == TypeOK /\ \A p \in Platforms : SeenInv(p)

\* What a platform is given to list is among the keys, and for the sensors
\* among the WANs.
LEMMA ListedType ==
    ASSUME NEW keys \in SUBSET Keys
    PROVE  /\ AllListed(keys) \in [Platforms -> SUBSET Keys]
           /\ AllListed(keys)["sensor"] \subseteq Wans
           /\ \A p \in Platforms : AllListed(keys)[p] = Listed(p, keys)
           /\ \A p \in Platforms : Listed(p, keys) \subseteq keys
BY DEF AllListed, Listed, Platforms, Keys

\* With nothing to add and nothing there, nothing is pending.
LEMMA NothingPending ==
    ASSUME NEW p \in Platforms
    PROVE  /\ NothingToAdd \in [Platforms -> [Keys -> Nat]]
           /\ \A k \in Keys : NothingToAdd[p][k] = 0
           /\ adding = NothingToAdd => Pending(p) = {}
BY DEF NothingToAdd, Pending

\* Nothing has been seen before the first setup.
LEMMA InitInv == Init => Inv
<1> SUFFICES ASSUME Init PROVE Inv
    OBVIOUS
<1> USE NothingPending
<1>1. TypeOK
    BY DEF Init, TypeOK, None, Platforms, Keys
<1>2. ASSUME NEW p \in Platforms PROVE SeenInv(p)
    BY DEF Init, SeenInv, None
<1> QED BY <1>1, <1>2 DEF Inv

\* Setup lists, adds and has seen the same keys, on each platform.
LEMMA SetupInv == Inv /\ Setup => Inv'
<1> SUFFICES ASSUME Inv, Setup PROVE Inv'
    OBVIOUS
<1> USE DEF Inv, TypeOK
<1>1. TypeOK'
    BY ListedType DEF Setup, Platforms
<1>2. ASSUME NEW p \in Platforms PROVE SeenInv(p)'
  <2>1. \A k \in Keys : adding'[p][k] = 0
      BY DEF Setup, SeenInv, Pending
  <2> QED BY <2>1, ListedType DEF Setup, SeenInv, Pending
<1> QED BY <1>1, <1>2

\* A refresh hands over for adding what it lists and has not been seen.
LEMMA RefreshInv == Inv /\ Refresh => Inv'
<1> SUFFICES ASSUME Inv, Refresh PROVE Inv'
    OBVIOUS
<1> USE DEF Inv, TypeOK
<1>1. data' \in SUBSET Keys
    BY DEF Refresh
<1>2. TypeOK'
  <2>1. adding' \in [Platforms -> [Keys -> Nat]]
      BY DEF Refresh, Sync, HandOver
  <2>2. \A k \in Sfps : adding'["sensor"][k] = 0
    <3>1. \A k \in Sfps : k \notin Listed("sensor", data')
        BY WansAreNoSfps DEF Listed
    <3> QED BY <3>1 DEF Refresh, Sync, HandOver, Platforms, Keys
  <2>3. seen' \in [Platforms -> SUBSET Keys] /\ seen'["sensor"] \subseteq Wans
      BY <1>1 DEF Refresh, Sync, Listed, Platforms
  <2> QED BY <1>1, <2>1, <2>2, <2>3 DEF Refresh
<1>3. ASSUME NEW p \in Platforms PROVE SeenInv(p)'
  <2>1. \A k \in Keys : adding'[p][k] = IF k \in Listed(p, data') \ seen[p]
                                        THEN adding[p][k] + 1 ELSE adding[p][k]
      BY DEF Refresh, Sync, HandOver
  <2>2. seen'[p] = seen[p] \cup Listed(p, data') /\ entities' = entities
      BY DEF Refresh, Sync
  <2>3. \A k \in Keys : k \notin seen[p] => adding[p][k] = 0 /\ k \notin entities[p]
      BY DEF SeenInv, Pending
  <2> QED BY <1>1, <2>1, <2>2, <2>3 DEF Refresh, SeenInv, Listed, Pending
<1> QED BY <1>2, <1>3

\* Adding an entity moves its key from those to be added to those that are.
LEMMA AddInv ==
    ASSUME Inv, NEW q \in Platforms, NEW k \in Keys, AddEntities(q, k)
    PROVE  Inv'
<1> USE DEF Inv, TypeOK
<1>1. /\ adding' \in [Platforms -> [Keys -> Nat]]
      /\ \A p \in Platforms, j \in Keys :
            adding'[p][j] = IF p = q /\ j = k THEN adding[p][j] - 1 ELSE adding[p][j]
    BY DEF AddEntities
<1>2. /\ entities' \in [Platforms -> SUBSET Keys]
      /\ \A p \in Platforms :
            entities'[p] = IF p = q THEN entities[p] \cup {k} ELSE entities[p]
    BY DEF AddEntities
<1>3. k \in seen[q] /\ (q = "sensor" => k \notin Sfps)
    BY DEF AddEntities, SeenInv, Pending
<1>4. TypeOK'
  <2>1. \A j \in Sfps : adding'["sensor"][j] = 0
      BY <1>1, <1>3 DEF Platforms, Keys
  <2>2. seen'["sensor"] \cup entities'["sensor"] \subseteq Wans
      BY <1>2, <1>3 DEF AddEntities, Platforms
  <2> QED BY <1>1, <1>2, <2>1, <2>2 DEF AddEntities
<1>5. ASSUME NEW p \in Platforms PROVE SeenInv(p)'
  <2>1. \A j \in Keys : adding'[p][j] + (IF j \in entities'[p] THEN 1 ELSE 0) \leq 1
    <3> SUFFICES ASSUME NEW j \in Keys
                 PROVE  adding'[p][j] + (IF j \in entities'[p] THEN 1 ELSE 0) \leq 1
        OBVIOUS
    <3>1. adding[p][j] \in Nat /\ adding[p][j] + (IF j \in entities[p] THEN 1 ELSE 0) \leq 1
        BY DEF SeenInv
    <3>2. CASE p = q /\ j = k
        BY <1>1, <1>2, <3>1, <3>2 DEF AddEntities
    <3>3. CASE ~(p = q /\ j = k)
        BY <1>1, <1>2, <3>1, <3>3
    <3> QED BY <3>2, <3>3
  <2>2. Pending(p)' \cup entities'[p] = Pending(p) \cup entities[p]
      BY <1>1, <1>2 DEF AddEntities, Pending
  <2>3. loaded
      BY DEF AddEntities, SeenInv, Pending
  <2> QED BY <2>1, <2>2, <2>3 DEF AddEntities, SeenInv, Listed
<1> QED BY <1>4, <1>5

\* Deleting a device takes its entities and remembers that.
LEMMA DeleteInv ==
    ASSUME Inv, NEW k \in Keys, DeleteDevice(k)
    PROVE  Inv'
<1> USE DEF Inv, TypeOK
<1>1. TypeOK'
    BY DEF DeleteDevice, Platforms
<1>2. ASSUME NEW p \in Platforms PROVE SeenInv(p)'
    BY DEF DeleteDevice, SeenInv, Listed, Pending
<1> QED BY <1>1, <1>2

\* An unload takes all of it away.
LEMMA UnloadInv == Inv /\ Unload => Inv'
<1> SUFFICES ASSUME Inv, Unload PROVE Inv'
    OBVIOUS
<1> USE DEF Inv, TypeOK
<1>1. TypeOK'
    BY NothingPending DEF Unload, None, Platforms, Keys
<1>2. ASSUME NEW p \in Platforms PROVE SeenInv(p)'
    BY NothingPending DEF Unload, SeenInv, None, Pending
<1> QED BY <1>1, <1>2

\* Every step keeps the invariant.
LEMMA StepInv == Inv /\ [Next]_vars => Inv'
<1> SUFFICES ASSUME Inv, [Next]_vars PROVE Inv'
    OBVIOUS
<1>1. CASE Setup BY <1>1, SetupInv
<1>2. CASE Refresh BY <1>2, RefreshInv
<1>3. ASSUME NEW p \in Platforms, NEW k \in Keys, AddEntities(p, k) PROVE Inv'
    BY <1>3, AddInv
<1>4. CASE Unload
    BY <1>4, UnloadInv
<1>5. ASSUME NEW k \in Keys, DeleteDevice(k) PROVE Inv'
    BY <1>5, DeleteInv
<1>6. ASSUME NEW k \in Keys, Attach(k) PROVE Inv'
    BY <1>6 DEF Attach, Inv, TypeOK, SeenInv, Listed, Pending
<1>7. CASE UNCHANGED vars
    BY <1>7 DEF vars, Inv, TypeOK, SeenInv, Listed, Pending
<1> QED BY <1>1, <1>2, <1>3, <1>4, <1>5, <1>6, <1>7 DEF Next

\* The inductive invariant behind the theorems about the entities.
THEOREM Invariance == Spec => []Inv
BY InitInv, StepInv, PTL DEF Spec

\* The types hold, and no sensor is made for an SFP port.
THEOREM TypeCorrect == Spec => []TypeOK
BY Invariance, PTL DEF Inv

\* No sub-device gets its entities twice, whatever goes, returns and is deleted.
THEOREM EntitiesAreAddedOnce == Spec => []NoEntityTwice
<1>1. Inv => NoEntityTwice
    BY DEF Inv, SeenInv, NoEntityTwice
<1> QED BY <1>1, Invariance, PTL

\* Only a sub-device whose device the user has deleted can be listed and have no
\* entities.
THEOREM OnlyTheDeletedAreMissing == Spec => []OnlyDeletedAreMissing
<1>1. Inv => OnlyDeletedAreMissing
    BY DEF Inv, SeenInv, OnlyDeletedAreMissing, Missing
<1> QED BY <1>1, Invariance, PTL

=============================================================================
