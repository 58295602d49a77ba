--------------------------- MODULE Readings_proofs ---------------------------
(* Proofs about Readings, for any sets of WANs and ports and any clock: the *)
(* times the entities write, what the status command says beside them, what *)
(* fails a refresh, and how many entities an odd field disturbs.            *)

EXTENDS Readings, FiniteSetTheorems, TLAPS

USE SecondIsPositive, MaxTimeIsNat

\* Rounding down to whole seconds takes less than a second away.
LEMMA RoundsDown ==
    ASSUME NEW t \in Nat
    PROVE  /\ WholeSeconds(t) \in Nat
           /\ WholeSeconds(t) \leq t
           /\ t < WholeSeconds(t) + Second
<1>1. t \div Second \in Nat
  BY SMT
<1>2. /\ Second * (t \div Second) \leq t
      /\ t < Second * (t \div Second) + Second
  BY SMT
<1>3. Second * (t \div Second) \in Nat
  BY <1>1, SMT
<1> QED
  BY <1>2, <1>3 DEF WholeSeconds

-----------------------------------------------------------------------------
(* The inductive invariant.  Neither TypeOK nor BootTimeTracks is inductive: *)
(* that a time computed from an old report is a time at all takes knowing   *)
(* that no clock started after the report was made, and that the uptime in  *)
(* it is less than a second short.                                          *)

\* A report made in the past, of clocks that had started by then.
Past(a) ==
    /\ a.at \leq now
    /\ \A c \in Clocks : /\ a.started[c] + a.uptime[c] \leq a.at
                         /\ a.at < a.started[c] + a.uptime[c] + Second

Inv ==
    /\ TypeOK
    /\ \A c \in Clocks : started[c] \leq now
    /\ \A a \in asked : Past(a)
    /\ Past(data.sample)
    /\ BootTimeTracks

\* What the device reports now is such a report.
LEMMA SampleIsPast ==
    ASSUME now \in Times, started \in [Clocks -> Times], \A c \in Clocks : started[c] \leq now
    PROVE  Sample \in Samples /\ Past(Sample)
<1> DEFINE uptime == [c \in Clocks |-> WholeSeconds(now - started[c])]
<1>1. ASSUME NEW c \in Clocks
      PROVE  /\ uptime[c] \in Times
             /\ started[c] + uptime[c] \leq now
             /\ now < started[c] + uptime[c] + Second
  <2>1. now - started[c] \in Nat /\ started[c] \in Nat /\ now \in 0 .. MaxTime
    BY DEF Times
  <2>2. /\ uptime[c] \in Nat
        /\ uptime[c] \leq now - started[c]
        /\ now - started[c] < uptime[c] + Second
    BY <2>1, RoundsDown
  <2> QED
    BY <2>1, <2>2 DEF Times
<1>2. uptime \in [Clocks -> Times]
  BY <1>1
<1>3. Sample = [at |-> now, started |-> started, uptime |-> uptime]
  BY DEF Sample
<1> HIDE DEF uptime
<1>4. Sample \in Samples
  BY <1>2, <1>3 DEF Samples
<1>5. Sample.at = now /\ Sample.started = started /\ Sample.uptime = uptime
  BY <1>3
<1>6. Past(Sample)
  BY <1>1, <1>5 DEF Past, Times
<1> QED
  BY <1>4, <1>6

\* A boot time computed from such a report is a time, late by its age at most.
LEMMA ShownTracks ==
    ASSUME now \in Times, NEW snapshot, snapshot.sample \in Samples, Past(snapshot.sample),
           NEW c \in Clocks
    PROVE  /\ BootShown(snapshot, c) \in SUBSET Times
           /\ \A b \in BootShown(snapshot, c) :
                 \/ UptimeRead(snapshot.odd, c) = "zero"
                 \/ /\ snapshot.sample.started[c] \leq b
                    /\ b < snapshot.sample.started[c] + (now - snapshot.sample.at) + Second
<1> DEFINE a == snapshot.sample
           read == UptimeRead(snapshot.odd, c)
<1>1. /\ a.at \in 0 .. MaxTime /\ now \in 0 .. MaxTime
      /\ a.started[c] \in 0 .. MaxTime /\ a.uptime[c] \in 0 .. MaxTime
  BY DEF Samples, Times
<1>2. /\ a.at \leq now
      /\ a.started[c] + a.uptime[c] \leq a.at
      /\ a.at < a.started[c] + a.uptime[c] + Second
  BY DEF Past
<1>3. CASE read = "reported"
  <2>1. BootShown(snapshot, c) = {now - a.uptime[c]}
    BY <1>3 DEF BootShown
  <2> QED
    BY <1>1, <1>2, <2>1 DEF Times
<1>4. CASE read = "zero"
  BY <1>4 DEF BootShown
<1>5. CASE read \notin {"reported", "zero"}
  BY <1>5 DEF BootShown
<1> QED
  BY <1>3, <1>4, <1>5

\* All the entities write their state, of such a report.
LEMMA WrittenTracks ==
    ASSUME now \in Times, NEW snapshot, snapshot.sample \in Samples, Past(snapshot.sample)
    PROVE  /\ Written(snapshot) \in [Clocks -> SUBSET Times]
           /\ \A c \in Clocks : \A b \in Written(snapshot)[c] :
                 \/ UptimeRead(snapshot.odd, c) = "zero"
                 \/ /\ snapshot.sample.started[c] \leq b
                    /\ b < snapshot.sample.started[c] + (now - snapshot.sample.at) + Second
BY ShownTracks DEF Written

-----------------------------------------------------------------------------

LEMMA InitInv == Init => Inv
<1> SUFFICES ASSUME Init PROVE Inv
  OBVIOUS
<1>1. now \in Times /\ started \in [Clocks -> Times] /\ \A c \in Clocks : started[c] \leq now
  BY DEF Init, Times
<1>2. Sample \in Samples /\ Past(Sample)
  BY <1>1, SampleIsPast
<1>3. data.sample = Sample /\ data.odd = NoOddity /\ data.parts = Parts
  BY DEF Init
<1>4. data \in [odd : Oddities \cup {NoOddity}, parts : SUBSET Parts, sample : Samples]
  BY <1>2 DEF Init
<1>5. /\ boot \in [Clocks -> SUBSET Times]
      /\ BootTimeTracks
  BY <1>1, <1>2, <1>3, WrittenTracks DEF Init, BootTimeTracks
<1>6. asked \subseteq Samples /\ Cardinality(asked) \leq 1
  BY FS_EmptySet DEF Init
<1>7. TypeOK
  BY <1>1, <1>4, <1>5, <1>6 DEF Init, TypeOK
<1> QED
  BY <1>1, <1>2, <1>3, <1>5, <1>7 DEF Init, Inv

\* A failure leaves the last report and has nothing written.
LEMMA FailsInv ==
    ASSUME Inv, Fails, UNCHANGED <<now, started, odd>>
    PROVE  Inv'
<1>1. Cardinality({}) = 0
  BY FS_EmptySet
<1>2. NothingWritten \in [Clocks -> SUBSET Times]
  BY DEF NothingWritten
<1>3. /\ asked' = {} /\ success' \in BOOLEAN /\ boot' = NothingWritten
      /\ data' = data /\ now' = now /\ started' = started /\ odd' = odd
  BY DEF Fails
<1>4. asked' \subseteq Samples /\ Cardinality(asked') \leq 1
  BY <1>1, <1>3
<1>5. TypeOK'
  BY <1>2, <1>3, <1>4 DEF Inv, TypeOK
<1>6. BootTimeTracks'
  BY <1>3 DEF NothingWritten, BootTimeTracks
<1>7. Past(data.sample)' /\ \A c \in Clocks : started'[c] \leq now'
  BY <1>3 DEF Inv, Past
<1> QED
  BY <1>3, <1>5, <1>6, <1>7 DEF Inv

\* The answers are in, or a model could not be built of one.
LEMMA FinishInv ==
    ASSUME Inv, NEW parts \in SUBSET Parts, Finish(parts)
    PROVE  Inv'
<1>1. CASE Raises(odd, ReadGroups(parts))
  BY <1>1, FailsInv DEF Finish
<1>2. CASE ~Raises(odd, ReadGroups(parts))
  <2> DEFINE a == CHOOSE x \in asked : TRUE
  <2>1. a \in asked
    BY DEF Finish
  <2>2. a \in Samples /\ Past(a)
    BY <2>1 DEF Inv, TypeOK
  <2>3. /\ data' = [odd |-> odd, parts |-> parts, sample |-> a]
        /\ boot' = Written(data')
        /\ asked' = {} /\ success' = TRUE
        /\ UNCHANGED <<now, started, odd>>
    BY <1>2 DEF Finish
  <2> HIDE DEF a
  <2>4. data' \in [odd : Oddities \cup {NoOddity}, parts : SUBSET Parts, sample : Samples]
    BY <2>2, <2>3 DEF Inv, TypeOK
  <2>5. data'.sample = a /\ now \in Times
    BY <2>3 DEF Inv, TypeOK
  <2>6. boot' \in [Clocks -> SUBSET Times] /\ BootTimeTracks'
    BY <2>2, <2>3, <2>5, WrittenTracks DEF BootTimeTracks
  <2>7. Past(data.sample)' /\ \A c \in Clocks : started'[c] \leq now'
    BY <2>2, <2>3, <2>5 DEF Inv, Past
  <2>8. Cardinality({}) = 0
    BY FS_EmptySet
  <2>9. TypeOK'
    BY <2>3, <2>4, <2>6, <2>8 DEF Inv, TypeOK
  <2> QED
    BY <2>3, <2>6, <2>7, <2>9 DEF Inv
<1> QED
  BY <1>1, <1>2

\* The clock runs on, and everything there is becomes older.
LEMMA TickInv ==
    ASSUME Inv, Tick
    PROVE  Inv'
<1>1. /\ now \in Nat /\ now' = now + 1 /\ now' \in Times
      /\ UNCHANGED <<started, odd, asked, data, success, boot>>
  BY DEF Inv, TypeOK, Tick, Times
<1>2. ASSUME NEW a \in Samples, Past(a)
      PROVE  Past(a)'
  BY <1>1, <1>2 DEF Past, Samples, Times
<1>3. TypeOK'
  BY <1>1 DEF Inv, TypeOK
<1>4. data.sample \in Samples /\ asked \subseteq Samples
  BY DEF Inv, TypeOK
<1>5. Past(data.sample)' /\ \A a \in asked' : Past(a)'
  BY <1>1, <1>2, <1>4 DEF Inv
<1>6. \A c \in Clocks : started'[c] \leq now'
  BY <1>1 DEF Inv, TypeOK, Times
<1>7. BootTimeTracks'
  <2> SUFFICES ASSUME NEW c \in Clocks, NEW b \in boot[c],
                      UptimeRead(data.odd, c) # "zero"
               PROVE  /\ data.sample.started[c] \leq b
                      /\ b < data.sample.started[c] + (now' - data.sample.at) + Second
    BY <1>1 DEF BootTimeTracks
  <2>1. /\ data.sample.started[c] \leq b
        /\ b < data.sample.started[c] + (now - data.sample.at) + Second
    BY DEF Inv, BootTimeTracks
  <2>2. b \in Nat /\ data.sample.started[c] \in Nat /\ data.sample.at \in Nat
    BY <1>4 DEF Inv, TypeOK, Samples, Times
  <2> QED
    BY <1>1, <2>1, <2>2
<1> QED
  BY <1>3, <1>5, <1>6, <1>7, <1>1 DEF Inv

\* An entity writes its state once more, of the report there is.
LEMMA RedrawInv ==
    ASSUME Inv, NEW c \in Clocks, Redraw(c)
    PROVE  Inv'
<1>1. /\ boot' = [boot EXCEPT ![c] = BootShown(data, c)]
      /\ UNCHANGED <<now, started, odd, asked, data, success>>
  BY DEF Redraw
<1>2. /\ now \in Times /\ data.sample \in Samples /\ Past(data.sample)
      /\ boot \in [Clocks -> SUBSET Times]
  BY DEF Inv, TypeOK
<1>3. /\ BootShown(data, c) \in SUBSET Times
      /\ \A b \in BootShown(data, c) :
            \/ UptimeRead(data.odd, c) = "zero"
            \/ /\ data.sample.started[c] \leq b
               /\ b < data.sample.started[c] + (now - data.sample.at) + Second
  BY <1>2, ShownTracks
<1>4. TypeOK'
  BY <1>1, <1>2, <1>3 DEF Inv, TypeOK
<1>5. BootTimeTracks'
  BY <1>1, <1>2, <1>3 DEF Inv, BootTimeTracks
<1> QED
  BY <1>1, <1>4, <1>5 DEF Inv, Past

LEMMA NextInv == Inv /\ [Next]_vars => Inv'
<1> SUFFICES ASSUME Inv, [Next]_vars PROVE Inv'
  OBVIOUS
<1>1. CASE Tick
  BY <1>1, TickInv
<1>2. ASSUME NEW c \in Clocks, Restart(c)
      PROVE  Inv'
  <2>1. now \in Times /\ now \leq now
    BY DEF Inv, TypeOK, Times
  <2>2. /\ started' \in [Clocks -> Times]
        /\ \A d \in Clocks : started'[d] \leq now
    BY <1>2, <2>1 DEF Restart, Inv, TypeOK
  <2> QED
    BY <1>2, <2>2 DEF Restart, Inv, TypeOK, BootTimeTracks, Past
<1>3. ASSUME NEW c \in Clocks, Redraw(c)
      PROVE  Inv'
  BY <1>3, RedrawInv
<1>4. CASE Straighten
  BY <1>4 DEF Straighten, Inv, TypeOK, BootTimeTracks, Past
<1>5. CASE AskDevice
  <2>1. Sample \in Samples /\ Past(Sample)
    BY SampleIsPast DEF Inv, TypeOK
  <2>2. asked' = {Sample} /\ Cardinality({Sample}) = 1
    BY <1>5, FS_Singleton DEF AskDevice
  <2>3. UNCHANGED <<now, started, odd, data, success, boot>>
    BY <1>5 DEF AskDevice
  <2>4. TypeOK'
    BY <2>1, <2>2, <2>3 DEF Inv, TypeOK
  <2>5. \A a \in asked' : Past(a)'
    BY <2>1, <2>2, <2>3 DEF Past
  <2> QED
    BY <2>3, <2>4, <2>5 DEF Inv, BootTimeTracks, Past
<1>6. ASSUME NEW parts \in SUBSET Parts, Finish(parts)
      PROVE  Inv'
  BY <1>6, FinishInv
<1>7. CASE ReadFails
  BY <1>7, FailsInv DEF ReadFails
<1>8. CASE UNCHANGED vars
  BY <1>8 DEF vars, Inv, TypeOK, BootTimeTracks, Past
<1> QED
  BY <1>1, <1>2, <1>3, <1>4, <1>5, <1>6, <1>7, <1>8 DEF Next

-----------------------------------------------------------------------------

\* Every time an entity ever shows is one, whatever the reports and the clocks do.
THEOREM ReadingsTypeOK == Spec => []TypeOK
<1>1. Inv => TypeOK
  BY DEF Inv
<1> QED
  BY InitInv, NextInv, <1>1, PTL DEF Spec

\* The boot and connection times follow the reports they were computed from, for any
\* set of WANs, any resolution of the clock and any time a refresh may take: never
\* early, and late by the age of the report and a second at most.
THEOREM ReadingsBootTimeTracks == Spec => []BootTimeTracks
<1>1. Inv => BootTimeTracks
  BY DEF Inv
<1> QED
  BY InitInv, NextInv, <1>1, PTL DEF Spec

-----------------------------------------------------------------------------
(* The status command and the entities.                                     *)

\* Where nothing is odd every model can be built, whatever the blocks.
LEMMA UsualIsReadable ==
    ASSUME NEW groups
    PROVE  ~Raises(NoOddity, groups)
<1>1. "none" \notin Groups
  BY GroupsAreDistinct DEF Groups, ConsoleReaders
<1>2. NoOddity.kind # "scalar" /\ NoOddity.group = "none"
  BY DEF NoOddity
<1> QED
  BY <1>1, <1>2 DEF Raises

\* A supplementary answer that did not fail the refresh does not fail read_all.
LEMMA ReadablePartsAreKept ==
    ASSUME NEW o, NEW parts \in SUBSET Parts, ~Raises(o, ReadGroups(parts))
    PROVE  StatusParts(o, parts) = parts
<1>1. ASSUME NEW groups, groups \subseteq ReadGroups(parts)
      PROVE  ~Raises(o, groups)
  BY <1>1 DEF Raises
<1>2. "health" \in parts => HealthRows \subseteq ReadGroups(parts)
  BY DEF ReadGroups
<1>3. "sysinfo" \in parts => {"sysinfo"} \subseteq ReadGroups(parts)
  BY DEF ReadGroups
<1> QED
  BY <1>1, <1>2, <1>3 DEF StatusParts, Parts

\* What is said is what is shown, or is shown as unknown.
SaidAsShown(said, shown) == said = shown \/ OrUnknown(said) = shown

\* Of the console and the internet, each item of the status is taken from the field
\* its entity shows, and from none where the part was not read.
LEMMA HubAgrees ==
    ASSUME NEW o, NEW parts, NEW key \in DOMAIN Counterpart
    PROVE  SaidAsShown(StatusShows(o, parts, key), HubShows(o, parts, Counterpart[key]))
<1> USE DEF SaidAsShown, StatusShows, StatusInternet, HubShows, HubReads, PartOf, Counterpart,
        Field, StatusDevice, StatusHealth, StatusSysInfo, DeviceSensors, DeviceBinary,
        HealthSensors, HealthBinary, SysInfoSensors, SysInfoBinary
<1>1. CASE key = "cpu_percent"
  BY <1>1
<1>2. CASE key = "memory_percent"
  BY <1>2
<1>3. CASE key = "loadavg_1"
  BY <1>3
<1>4. CASE key = "loadavg_5"
  BY <1>4
<1>5. CASE key = "loadavg_15"
  BY <1>5
<1>6. CASE key = "clients"
  BY <1>6
<1>7. CASE key = "overheating"
  BY <1>7
<1>8. CASE key = "temperatures"
  BY <1>8
<1>9. CASE key = "up"
  <2>1. CASE "health" \in parts
    BY <1>9, <2>1
  <2>2. CASE "health" \notin parts
    BY <1>9, <2>2
  <2> QED
    BY <2>1, <2>2
<1>10. CASE key = "isp"
  <2>1. CASE "health" \in parts
    BY <1>10, <2>1
  <2>2. CASE "health" \notin parts
    BY <1>10, <2>2
  <2> QED
    BY <2>1, <2>2
<1>11. CASE key = "asn"
  <2>1. CASE "health" \in parts
    BY <1>11, <2>1
  <2>2. CASE "health" \notin parts
    BY <1>11, <2>2
  <2> QED
    BY <2>1, <2>2
<1>12. CASE key = "latency_ms"
  <2>1. CASE "health" \in parts
    BY <1>12, <2>1
  <2>2. CASE "health" \notin parts
    BY <1>12, <2>2
  <2> QED
    BY <2>1, <2>2
<1>13. CASE key = "download_mbps"
  <2>1. CASE "health" \in parts
    BY <1>13, <2>1
  <2>2. CASE "health" \notin parts
    BY <1>13, <2>2
  <2> QED
    BY <2>1, <2>2
<1>14. CASE key = "upload_mbps"
  <2>1. CASE "health" \in parts
    BY <1>14, <2>1
  <2>2. CASE "health" \notin parts
    BY <1>14, <2>2
  <2> QED
    BY <2>1, <2>2
<1>15. CASE key = "ping_ms"
  <2>1. CASE "health" \in parts
    BY <1>15, <2>1
  <2>2. CASE "health" \notin parts
    BY <1>15, <2>2
  <2> QED
    BY <2>1, <2>2
<1>16. CASE key = "network_version"
  <2>1. CASE "sysinfo" \in parts
    BY <1>16, <2>1
  <2>2. CASE "sysinfo" \notin parts
    BY <1>16, <2>2
  <2> QED
    BY <2>1, <2>2
<1>17. CASE key = "update_available"
  <2>1. CASE "sysinfo" \in parts
    BY <1>17, <2>1
  <2>2. CASE "sysinfo" \notin parts
    BY <1>17, <2>2
  <2> QED
    BY <2>1, <2>2
<1> QED
  BY <1>1, <1>2, <1>3, <1>4, <1>5, <1>6, <1>7, <1>8, <1>9, <1>10, <1>11, <1>12, <1>13,
     <1>14, <1>15, <1>16, <1>17

\* So is each item about a WAN that was read.
LEMMA WanAgrees ==
    ASSUME NEW o, NEW wan, NEW key \in DOMAIN WanCounterpart
    PROVE  SaidAsShown(StatusWan(o, wan, key), WanShows(o, wan, WanCounterpart[key]))
<1> USE DEF SaidAsShown, StatusWan, WanShows, WanCounterpart, WanSensors
<1>1. CASE key = "latency_ms"
  BY <1>1
<1>2. CASE key = "availability"
  BY <1>2
<1>3. CASE key = "up"
  BY <1>3
<1>4. CASE key = "active"
  BY <1>4
<1>5. CASE key = "media"
  BY <1>5
<1>6. CASE key = "speed_mbps"
  BY <1>6
<1> QED
  BY <1>1, <1>2, <1>3, <1>4, <1>5, <1>6

\* The two entities of the route show no field of their own.
LEMMA RouteIsNoField ==
    ASSUME NEW key \in RouteKeys
    PROVE  <<"hub", key>> \notin FieldEntities
<1>1. "hub" \notin Wans \cup Sfps
  BY GroupsAreDistinct
<1>2. key \notin HubKeys
  BY DEF RouteKeys, HubKeys, DeviceSensors, DeviceBinary, HealthSensors, HealthBinary,
         SysInfoSensors, SysInfoBinary
<1> QED
  BY <1>1, <1>2 DEF FieldEntities

\* A snapshot that was kept is one of which every model could be built.
KeptReadable == ~Raises(data.odd, ReadGroups(data.parts))

LEMMA InitKept == Init => KeptReadable
BY UsualIsReadable DEF Init, KeptReadable

LEMMA NextKept == KeptReadable /\ [Next]_vars => KeptReadable'
<1> SUFFICES ASSUME KeptReadable, [Next]_vars PROVE KeptReadable'
  OBVIOUS
<1>1. ASSUME NEW parts \in SUBSET Parts, Finish(parts)
      PROVE  KeptReadable'
  <2>1. CASE Raises(odd, ReadGroups(parts))
    BY <1>1, <2>1 DEF Finish, Fails, KeptReadable
  <2>2. CASE ~Raises(odd, ReadGroups(parts))
    <3>1. data'.odd = odd /\ data'.parts = parts
      BY <1>1, <2>2 DEF Finish
    <3> QED
      BY <2>2, <3>1 DEF KeptReadable
  <2> QED
    BY <2>1, <2>2
<1>2. CASE UNCHANGED data
  BY <1>2 DEF KeptReadable
<1> QED
  BY <1>1, <1>2 DEF Next, Tick, Restart, Redraw, Straighten, AskDevice, ReadFails, Fails, vars

\* Of the same answers the status command and the MCP tool say what the entities show,
\* for any set of WANs and whatever is odd.
THEOREM StatusAlwaysAgrees == Spec => []StatusAgrees
<1>1. TypeOK /\ KeptReadable => StatusAgrees
  <2> SUFFICES ASSUME TypeOK, KeptReadable PROVE StatusAgrees
    OBVIOUS
  <2>3. StatusParts(data.odd, data.parts) = data.parts
    BY ReadablePartsAreKept DEF TypeOK, KeptReadable
  <2>1. ASSUME NEW key \in DOMAIN Counterpart
        PROVE  LET said == StatusShows(data.odd, data.parts, key)
                   shown == FieldShows(data.odd, data.parts, <<"hub", Counterpart[key]>>)
               IN  said = shown \/ OrUnknown(said) = shown
    BY HubAgrees DEF FieldShows, SaidAsShown
  <2>2. ASSUME NEW w \in Wans, Has(data.odd, w), NEW key \in DOMAIN WanCounterpart
        PROVE  LET said == StatusWan(data.odd, w, key)
                   shown == FieldShows(data.odd, data.parts, <<w, WanCounterpart[key]>>)
               IN  said = shown \/ OrUnknown(said) = shown
    <3>1. w # "hub"
      BY GroupsAreDistinct
    <3> QED
      BY <2>2, <3>1, WanAgrees DEF FieldShows, SaidAsShown
  <2>4. ASSUME NEW sfp \in Sfps, Has(data.odd, sfp)
        PROVE  StatusSfp(data.odd, sfp) = FieldShows(data.odd, data.parts, <<sfp, "problem">>)
    <3>1. sfp # "hub" /\ sfp \notin Wans
      BY GroupsAreDistinct
    <3> QED
      BY <2>4, <3>1 DEF FieldShows, SfpShows, StatusSfp
  <2>5. ASSUME NEW uplinks \in SUBSET Wans
        PROVE  LET route == StatusRoute(data.odd, uplinks)
               IN  /\ route.active_wan =
                          Shows(data.odd, data.parts, uplinks, <<"hub", "active_wan">>)
                   /\ route.failover_active =
                          Shows(data.odd, data.parts, uplinks, <<"hub", "failover">>)
    <3>1. <<"hub", "active_wan">> \notin FieldEntities /\ <<"hub", "failover">> \notin FieldEntities
      BY RouteIsNoField DEF RouteKeys
    <3> QED
      BY <3>1 DEF Shows, RouteShows, StatusRoute
  <2> QED
    BY <2>1, <2>2, <2>3, <2>4, <2>5 DEF StatusAgrees
<1> QED
  BY <1>1, InitKept, NextKept, ReadingsTypeOK, PTL DEF Spec

-----------------------------------------------------------------------------
(* What fails a refresh.                                                    *)

Readers == {"int", "count", "float", "amount", "flag", "text", "instant"}

\* An oddity of one field, and one that leaves all fields of its block alike.
OfField(o) ==
    /\ o.group \in Groups
    /\ o.field \in DOMAIN ReadersOf(o.group)
    /\ o.kind \in OddKinds(ReadersOf(o.group)[o.field])
OfBlock(o) == o.kind \in {"usual", "junk"} /\ o.field \in {"all", "stats", "none"}
OfShape(o) == o.kind = "scalar" /\ o.group \in Unchecked /\ o.field = "all"

LEMMA OdditiesAre ==
    ASSUME NEW o \in Oddities \cup {NoOddity}
    PROVE  OfField(o) \/ OfBlock(o) \/ OfShape(o)
<1>1. CASE o = NoOddity
  BY <1>1 DEF NoOddity, OfBlock
<1>2. CASE o \in OddFields
  <2>1. PICK g \in Groups : o \in OddFieldsOf(g)
    BY <1>2 DEF OddFields
  <2>2. PICK f \in DOMAIN ReadersOf(g) :
            o \in [group : {g}, field : {f}, kind : OddKinds(ReadersOf(g)[f])]
    BY <2>1 DEF OddFieldsOf
  <2> QED
    BY <2>2 DEF OfField
<1>3. CASE o \in NoBlock \cup NoStats
  BY <1>3 DEF NoBlock, NoStats, OfBlock
<1>4. CASE o \in OddBlocks
  BY <1>4 DEF OddBlocks, OfShape
<1> QED
  BY <1>1, <1>2, <1>3, <1>4 DEF Oddities

\* Every field has one of the readers, and none is called as a block's oddity is.
LEMMA ReadersAreKnown ==
    ASSUME NEW g \in Groups
    PROVE  /\ \A f \in DOMAIN ReadersOf(g) : ReadersOf(g)[f] \in Readers
           /\ DOMAIN ReadersOf(g) \cap {"all", "stats", "none"} = {}
<1>1. CASE g \in Wans
  BY <1>1 DEF ReadersOf, WanReaders, Readers
<1>2. CASE g \in Sfps
  BY <1>2, GroupsAreDistinct DEF ReadersOf, SfpReaders, Readers
<1>3. CASE g \in DOMAIN ConsoleReaders
  <2>1. ReadersOf(g) = ConsoleReaders[g]
    BY <1>3, GroupsAreDistinct DEF ReadersOf
  <2> USE <2>1 DEF ConsoleReaders, Readers
  <2>2. CASE g = "device"
    BY <2>2 DEF DeviceReaders
  <2>3. CASE g = "system_stats"
    BY <2>3 DEF SystemStatsReaders
  <2>4. CASE g = "sys_stats"
    BY <2>4 DEF SysStatsReaders
  <2>5. CASE g = "storage"
    BY <2>5 DEF StorageReaders
  <2>6. CASE g = "temperatures"
    BY <2>6 DEF TemperatureReaders
  <2>7. CASE g = "www"
    BY <2>7 DEF WwwReaders
  <2>8. CASE g = "wan"
    BY <2>8 DEF IspReaders
  <2>9. CASE g = "lan"
    BY <2>9 DEF LanReaders
  <2>10. CASE g = "wlan"
    BY <2>10 DEF WlanReaders
  <2>11. CASE g = "vpn"
    BY <2>11 DEF VpnReaders
  <2>12. CASE g = "sysinfo"
    BY <2>12 DEF SysInfoReaders
  <2> QED
    BY <1>3, <2>2, <2>3, <2>4, <2>5, <2>6, <2>7, <2>8, <2>9, <2>10, <2>11, <2>12
<1> QED
  BY <1>1, <1>2, <1>3 DEF Groups

\* Of the readers, those of whole numbers raise, on what is none after all.
LEMMA RaisingReads ==
    ASSUME NEW reader \in Readers, NEW kind \in Kinds
    PROVE  ReadAs(reader, kind) = "raises" <=>
               reader \in {"int", "count", "instant"} /\ kind \in {"dashes", "infinite"}
<1> USE DEF ReadAs, AsInt, AsCount, AsFloat, AsAmount, AsFlag, AsText, AsInstant, Kinds
<1>1. AsInt(kind) = "raises" <=> kind \in {"dashes", "infinite"}
  OBVIOUS
<1>2. AsFloat(kind) # "raises" /\ AsAmount(kind) # "raises"
  OBVIOUS
<1>3. CASE reader \in {"int", "count", "instant"}
  BY <1>1, <1>3
<1>4. CASE reader \in {"float", "amount"}
  BY <1>2, <1>4
<1>5. CASE reader \in {"flag", "text"}
  BY <1>5
<1> QED
  BY <1>3, <1>4, <1>5 DEF Readers

\* A field that is as usual is read; so is whatever is in the place of a block that
\* is not there.
LEMMA UsualReads ==
    ASSUME NEW reader \in Readers, NEW kind \in {"usual", "junk"}
    PROVE  ReadAs(reader, kind) # "raises"
BY RaisingReads DEF Kinds

\* The groups a refresh reads: those of the device, and those of the answers.
LEMMA GroupsRead ==
    ASSUME NEW parts \in SUBSET Parts, NEW g \in Groups
    PROVE  g \in ReadGroups(parts) <=>
               /\ g \in HealthRows => "health" \in parts
               /\ g = "sysinfo" => "sysinfo" \in parts
BY DEF ReadGroups, HealthRows, Unchecked

\* Which fields of a WAN are passed over when one of its fields is odd.
LEMMA FieldsRead ==
    ASSUME NEW o, OfField(o)
    PROVE  o.field \in Reads(o, o.group) <=>
               /\ ~(o.group \in Listed /\ o.field \in {"wan_latency", "wan_availability"})
               /\ ~(o.group \in Wans \ Listed
                    /\ o.field \in {"latency_average", "availability", "uptime"})
<1>1. o.field # "stats"
  BY ReadersAreKnown DEF OfField
<1> QED
  BY <1>1, ListedAreWans DEF OfField, Reads, Unread, HasStats

\* An odd field raises exactly where it is read and holds no whole number.
LEMMA FieldRaises ==
    ASSUME NEW o, OfField(o), NEW parts \in SUBSET Parts
    PROVE  Raises(o, ReadGroups(parts)) <=>
               /\ Unreadable(o)
               /\ o.group \in HealthRows => "health" \in parts
               /\ o.group = "sysinfo" => "sysinfo" \in parts
<1> DEFINE reader == ReadersOf(o.group)[o.field]
<1>1. /\ o.group \in Groups
      /\ reader \in Readers
      /\ o.kind \in Kinds /\ o.kind # "scalar"
      /\ o.field \notin {"all", "stats"}
  BY ReadersAreKnown DEF OfField, OddKinds, Kinds
<1>2. Raises(o, ReadGroups(parts)) <=>
          /\ o.group \in ReadGroups(parts)
          /\ o.field \in Reads(o, o.group)
          /\ ReadAs(reader, o.kind) = "raises"
  <2>1. ASSUME NEW f \in Reads(o, o.group), f # o.field
        PROVE  ReadingOf(o, o.group, f) # "raises"
    <3>1. f \in DOMAIN ReadersOf(o.group) /\ KindOf(o, o.group, f) = "usual"
      BY <1>1, <2>1 DEF Reads, KindOf
    <3> QED
      BY <1>1, <3>1, ReadersAreKnown, UsualReads DEF ReadingOf
  <2>2. ReadingOf(o, o.group, o.field) = ReadAs(reader, o.kind)
    BY DEF ReadingOf, KindOf
  <2> QED
    BY <1>1, <2>1, <2>2 DEF Raises
<1>3. reader = "float" => ~(reader \in {"int", "count", "instant"})
  OBVIOUS
<1>4. o.group \in Wans => /\ o.field = "wan_availability" => reader = "float"
                          /\ o.field = "availability" => reader = "float"
  BY DEF ReadersOf, WanReaders
<1>5. ReadAs(reader, o.kind) = "raises" <=>
          reader \in {"int", "count", "instant"} /\ o.kind \in {"dashes", "infinite"}
  BY <1>1, RaisingReads
<1> HIDE DEF reader
<1>6. Unreadable(o) <=>
          /\ o.kind \in {"dashes", "infinite"}
          /\ reader \in {"int", "count", "instant"}
          /\ ~(o.group \in Listed /\ o.field = "wan_latency")
          /\ ~(o.group \in Wans \ Listed /\ o.field \in {"latency_average", "uptime"})
  BY <1>1 DEF Unreadable, reader
<1>7. o.group \in ReadGroups(parts) <=>
          /\ o.group \in HealthRows => "health" \in parts
          /\ o.group = "sysinfo" => "sysinfo" \in parts
  BY <1>1, GroupsRead
<1> QED
  BY <1>2, <1>3, <1>4, <1>5, <1>6, <1>7, FieldsRead, ListedAreWans

\* A block of which nothing is left, or in which nothing is odd, raises nothing.
LEMMA BlockReads ==
    ASSUME NEW o, OfBlock(o), NEW groups
    PROVE  ~Raises(o, groups)
<1>1. ASSUME NEW g \in Groups, NEW f \in Reads(o, g)
      PROVE  ReadingOf(o, g, f) # "raises"
  <2>1. KindOf(o, g, f) \in {"usual", "junk"} /\ ReadersOf(g)[f] \in Readers
    BY <1>1, ReadersAreKnown DEF KindOf, Reads, OfBlock
  <2> QED
    BY <2>1, UsualReads DEF ReadingOf
<1> QED
  BY <1>1 DEF Raises, OfBlock

\* What a refresh asked for raises exactly if it is unreadable.
LEMMA RaisesOverUnreadable ==
    ASSUME NEW o \in Oddities \cup {NoOddity}, NEW parts \in SUBSET Parts
    PROVE  Raises(o, ReadGroups(parts)) <=>
               /\ Unreadable(o)
               /\ o.group \in HealthRows => "health" \in parts
               /\ o.group = "sysinfo" => "sysinfo" \in parts
<1>1. CASE OfField(o)
  BY <1>1, FieldRaises
<1>2. CASE OfBlock(o)
  BY <1>2, BlockReads DEF OfBlock, Unreadable
<1>3. CASE OfShape(o)
  BY <1>3 DEF OfShape, Raises, Unreadable, ReadGroups, HealthRows, Unchecked
<1> QED
  BY <1>1, <1>2, <1>3, OdditiesAre

\* A refresh that was answered fails only over an unreadable value in what it asked
\* for, for any sets of WANs and ports.
THEOREM ReadingsOnlyUnreadableFails == Spec => OnlyUnreadableFails
<1>1. TypeOK /\ [Next]_vars =>
         [\A parts \in SUBSET Parts :
            Finish(parts) /\ ~success' =>
              /\ Unreadable(odd)
              /\ odd.group \in HealthRows => "health" \in parts
              /\ odd.group = "sysinfo" => "sysinfo" \in parts]_vars
  <2> SUFFICES ASSUME TypeOK, NEW parts \in SUBSET Parts, Finish(parts), ~success'
               PROVE  /\ Unreadable(odd)
                      /\ odd.group \in HealthRows => "health" \in parts
                      /\ odd.group = "sysinfo" => "sysinfo" \in parts
    OBVIOUS
  <2>1. Raises(odd, ReadGroups(parts))
    BY DEF Finish
  <2> QED
    BY <2>1, RaisesOverUnreadable DEF TypeOK
<1> QED
  BY ReadingsTypeOK, <1>1, PTL DEF Spec, OnlyUnreadableFails

-----------------------------------------------------------------------------
(* What an odd field disturbs.  Each entity reads one field, or two that no *)
(* other reads, and each block has one owner, the console, a WAN or a port. *)

\* The fields behind an entity of the console
FieldsOf(key) ==
    CASE key = "storage_usage" -> {<<"storage", "size">>, <<"storage", "used">>}
      [] key = "temperature"   -> {<<"temperatures", "value">>}
      [] key \in DOMAIN DeviceSensors  -> {DeviceSensors[key]}
      [] key \in DOMAIN DeviceBinary   -> {DeviceBinary[key]}
      [] key \in DOMAIN HealthSensors  -> {HealthSensors[key]}
      [] key \in DOMAIN HealthBinary   -> {HealthBinary[key]}
      [] key \in DOMAIN SysInfoSensors -> {SysInfoSensors[key]}
      [] key \in DOMAIN SysInfoBinary  -> {SysInfoBinary[key]}

\* Those behind one of a WAN, and behind one of a port
WanFieldsOf(key) ==
    CASE key = "latency"      -> {"latency_average", "wan_latency"}
      [] key = "availability" -> {"availability", "wan_availability"}
      [] OTHER                -> {WanSensors[key]}

\* The tables of the entities name fields that are read, of blocks of their part.
LEMMA TablesNameFields ==
    /\ \A key \in DOMAIN DeviceSensors :
          /\ DeviceSensors[key][1] \in {"system_stats", "sys_stats", "device"}
          /\ DeviceSensors[key][2] \in DOMAIN ConsoleReaders[DeviceSensors[key][1]]
    /\ \A key \in DOMAIN HealthSensors :
          /\ HealthSensors[key][1] \in HealthRows
          /\ HealthSensors[key][2] \in DOMAIN ConsoleReaders[HealthSensors[key][1]]
    /\ \A key \in DOMAIN SysInfoSensors :
          SysInfoSensors[key][1] = "sysinfo" /\ SysInfoSensors[key][2] \in DOMAIN SysInfoReaders
    /\ \A key \in DOMAIN DeviceBinary :
          DeviceBinary[key][1] = "device" /\ DeviceBinary[key][2] \in DOMAIN DeviceReaders
    /\ \A key \in DOMAIN HealthBinary :
          /\ HealthBinary[key][1] \in HealthRows
          /\ HealthBinary[key][2] \in DOMAIN ConsoleReaders[HealthBinary[key][1]]
    /\ \A key \in DOMAIN SysInfoBinary :
          SysInfoBinary[key][1] = "sysinfo" /\ SysInfoBinary[key][2] \in DOMAIN SysInfoReaders
<1>1. \A key \in DOMAIN DeviceSensors :
          /\ DeviceSensors[key][1] \in {"system_stats", "sys_stats", "device"}
          /\ DeviceSensors[key][2] \in DOMAIN ConsoleReaders[DeviceSensors[key][1]]
  BY DEF DeviceSensors, ConsoleReaders, DeviceReaders, SystemStatsReaders, SysStatsReaders
<1>2. \A key \in DOMAIN HealthSensors :
          /\ HealthSensors[key][1] \in HealthRows
          /\ HealthSensors[key][2] \in DOMAIN ConsoleReaders[HealthSensors[key][1]]
  BY DEF HealthSensors, ConsoleReaders, HealthRows, WwwReaders, IspReaders, LanReaders,
         WlanReaders, VpnReaders
<1>3. \A key \in DOMAIN HealthBinary :
          /\ HealthBinary[key][1] \in HealthRows
          /\ HealthBinary[key][2] \in DOMAIN ConsoleReaders[HealthBinary[key][1]]
  BY DEF HealthBinary, ConsoleReaders, HealthRows, WwwReaders, VpnReaders
<1>4. /\ \A key \in DOMAIN SysInfoSensors :
            SysInfoSensors[key][1] = "sysinfo" /\ SysInfoSensors[key][2] \in DOMAIN SysInfoReaders
      /\ \A key \in DOMAIN SysInfoBinary :
            SysInfoBinary[key][1] = "sysinfo" /\ SysInfoBinary[key][2] \in DOMAIN SysInfoReaders
      /\ \A key \in DOMAIN DeviceBinary :
            DeviceBinary[key][1] = "device" /\ DeviceBinary[key][2] \in DOMAIN DeviceReaders
  BY DEF SysInfoSensors, SysInfoBinary, SysInfoReaders, DeviceBinary, DeviceReaders
<1> QED
  BY <1>1, <1>2, <1>3, <1>4

\* No field is behind two entities of the console.
LEMMA FieldsAreOfOneKey ==
    ASSUME NEW key \in HubKeys, NEW other \in HubKeys, NEW field \in FieldsOf(key),
           field \in FieldsOf(other)
    PROVE  key = other
BY DEF HubKeys, FieldsOf, DeviceSensors, DeviceBinary, HealthSensors, HealthBinary,
       SysInfoSensors, SysInfoBinary

LEMMA FieldsAreOfOneWanKey ==
    ASSUME NEW key \in DOMAIN WanSensors \cup {"latency", "availability"},
           NEW other \in DOMAIN WanSensors \cup {"latency", "availability"},
           NEW field \in WanFieldsOf(key), field \in WanFieldsOf(other)
    PROVE  key = other
BY DEF WanFieldsOf, WanSensors

\* What two reports show of an entity is the same where its fields are of the same
\* kind in both, and the blocks that hold them are there.
Alike(o, group, fields) ==
    /\ Has(o, group)
    /\ \A f \in fields : KindOf(o, group, f) = "usual"

LEMMA UsualIsUsual ==
    ASSUME NEW g, g # "none"
    PROVE  /\ Has(NoOddity, g)
           /\ \A f : KindOf(NoOddity, g, f) = "usual"
BY DEF NoOddity, Has, KindOf

\* The keys of the tables, which have none in common
LEMMA TableKeys ==
    /\ DOMAIN DeviceSensors = {"cpu", "memory", "load_1", "load_5", "load_15", "clients"}
    /\ DOMAIN DeviceBinary = {"overheating"}
    /\ DOMAIN HealthSensors =
          {"clients_wired", "clients_wireless", "clients_guest", "clients_iot", "isp",
           "isp_asn", "internet_latency", "speedtest_download", "speedtest_upload",
           "speedtest_ping", "speedtest_last_run", "vpn_remote_active"}
    /\ DOMAIN HealthBinary = {"internet", "vpn_site_to_site"}
    /\ DOMAIN SysInfoSensors = {"network_version"}
    /\ DOMAIN SysInfoBinary = {"update_available"}
BY DEF DeviceSensors, DeviceBinary, HealthSensors, HealthBinary, SysInfoSensors, SysInfoBinary

\* What FieldsOf takes from which table, and what HubReads does
LEMMA FieldsOfByTable ==
    /\ FieldsOf("storage_usage") = {<<"storage", "size">>, <<"storage", "used">>}
    /\ FieldsOf("temperature") = {<<"temperatures", "value">>}
    /\ \A key \in DOMAIN DeviceSensors : FieldsOf(key) = {DeviceSensors[key]}
    /\ \A key \in DOMAIN DeviceBinary : FieldsOf(key) = {DeviceBinary[key]}
    /\ \A key \in DOMAIN HealthSensors : FieldsOf(key) = {HealthSensors[key]}
    /\ \A key \in DOMAIN HealthBinary : FieldsOf(key) = {HealthBinary[key]}
    /\ \A key \in DOMAIN SysInfoSensors : FieldsOf(key) = {SysInfoSensors[key]}
    /\ \A key \in DOMAIN SysInfoBinary : FieldsOf(key) = {SysInfoBinary[key]}
BY TableKeys DEF FieldsOf

LEMMA HubReadsByTable ==
    ASSUME NEW o
    PROVE  /\ HubReads(o, "storage_usage") =
                  IF Has(o, "storage")
                  THEN Usage(ReadingOf(o, "storage", "size"), ReadingOf(o, "storage", "used"))
                  ELSE "unknown"
           /\ HubReads(o, "temperature") =
                  IF Has(o, "temperatures") THEN ReadingOf(o, "temperatures", "value")
                  ELSE "unknown"
           /\ \A key \in DOMAIN DeviceSensors : HubReads(o, key) = Field(DeviceSensors, key, o)
           /\ \A key \in DOMAIN DeviceBinary : HubReads(o, key) = Field(DeviceBinary, key, o)
           /\ \A key \in DOMAIN HealthSensors :
                  HubReads(o, key) = IF key = "isp" THEN OrUnknown(Field(HealthSensors, key, o))
                                     ELSE Field(HealthSensors, key, o)
           /\ \A key \in DOMAIN HealthBinary :
                  HubReads(o, key) = IF key = "internet" THEN InternetUp(o)
                                     ELSE Field(HealthBinary, key, o)
           /\ \A key \in DOMAIN SysInfoSensors : HubReads(o, key) = Field(SysInfoSensors, key, o)
           /\ \A key \in DOMAIN SysInfoBinary : HubReads(o, key) = Field(SysInfoBinary, key, o)
<1>1. /\ HubReads(o, "storage_usage") =
            IF Has(o, "storage")
            THEN Usage(ReadingOf(o, "storage", "size"), ReadingOf(o, "storage", "used"))
            ELSE "unknown"
      /\ HubReads(o, "temperature") =
            IF Has(o, "temperatures") THEN ReadingOf(o, "temperatures", "value") ELSE "unknown"
  BY TableKeys DEF HubReads
<1>2. \A key \in DOMAIN DeviceSensors : HubReads(o, key) = Field(DeviceSensors, key, o)
  BY TableKeys DEF HubReads
<1>3. \A key \in DOMAIN DeviceBinary : HubReads(o, key) = Field(DeviceBinary, key, o)
  BY TableKeys DEF HubReads
<1>4. \A key \in DOMAIN HealthSensors :
          HubReads(o, key) = IF key = "isp" THEN OrUnknown(Field(HealthSensors, key, o))
                             ELSE Field(HealthSensors, key, o)
  BY TableKeys DEF HubReads
<1>5. \A key \in DOMAIN HealthBinary :
          HubReads(o, key) = IF key = "internet" THEN InternetUp(o)
                             ELSE Field(HealthBinary, key, o)
  BY TableKeys DEF HubReads
<1>6. /\ \A key \in DOMAIN SysInfoSensors : HubReads(o, key) = Field(SysInfoSensors, key, o)
      /\ \A key \in DOMAIN SysInfoBinary : HubReads(o, key) = Field(SysInfoBinary, key, o)
  BY TableKeys DEF HubReads
<1> QED
  BY <1>1, <1>2, <1>3, <1>4, <1>5, <1>6

\* An entity of the console shows what it would, unless one of its fields is odd or
\* its block is gone.
LEMMA HubIsUndisturbed ==
    ASSUME NEW o, NEW parts, NEW key \in HubKeys,
           \A field \in FieldsOf(key) : Alike(o, field[1], {field[2]})
    PROVE  FieldShows(o, parts, <<"hub", key>>) = FieldShows(NoOddity, parts, <<"hub", key>>)
<1>1. ASSUME NEW field \in FieldsOf(key)
      PROVE  /\ ReadingOf(o, field[1], field[2]) = ReadingOf(NoOddity, field[1], field[2])
             /\ Has(o, field[1]) /\ Has(NoOddity, field[1])
  <2>1. field[1] # "none"
    BY TablesNameFields DEF FieldsOf, HubKeys, HealthRows
  <2> QED
    BY <2>1, UsualIsUsual DEF Alike, ReadingOf
<1>2. HubReads(o, key) = HubReads(NoOddity, key)
  <2>1. CASE key = "storage_usage"
    <3>1. <<"storage", "size">> \in FieldsOf(key) /\ <<"storage", "used">> \in FieldsOf(key)
      BY <2>1, FieldsOfByTable
    <3>2. /\ ReadingOf(o, "storage", "size") = ReadingOf(NoOddity, "storage", "size")
          /\ Has(o, "storage") /\ Has(NoOddity, "storage")
      BY <1>1, <3>1
    <3>3. ReadingOf(o, "storage", "used") = ReadingOf(NoOddity, "storage", "used")
      BY <1>1, <3>1
    <3> QED
      BY <2>1, <3>2, <3>3, HubReadsByTable
  <2>2. CASE key = "temperature"
    <3>1. <<"temperatures", "value">> \in FieldsOf(key)
      BY <2>2, FieldsOfByTable
    <3>2. /\ ReadingOf(o, "temperatures", "value") = ReadingOf(NoOddity, "temperatures", "value")
          /\ Has(o, "temperatures") /\ Has(NoOddity, "temperatures")
      BY <1>1, <3>1
    <3> QED
      BY <2>2, <3>2, HubReadsByTable
  <2>3. CASE key \in DOMAIN DeviceSensors
    BY <1>1, <2>3, HubReadsByTable, FieldsOfByTable DEF Field
  <2>4. CASE key \in DOMAIN DeviceBinary
    BY <1>1, <2>4, HubReadsByTable, FieldsOfByTable DEF Field
  <2>5. CASE key \in DOMAIN HealthSensors
    BY <1>1, <2>5, HubReadsByTable, FieldsOfByTable DEF Field
  <2>6. CASE key \in DOMAIN HealthBinary
    <3>1. CASE key = "internet"
      BY <1>1, <2>6, <3>1, HubReadsByTable, FieldsOfByTable DEF HealthBinary, InternetUp
    <3>2. CASE key # "internet"
      BY <1>1, <2>6, <3>2, HubReadsByTable, FieldsOfByTable DEF Field
    <3> QED
      BY <3>1, <3>2
  <2>7. CASE key \in DOMAIN SysInfoSensors
    BY <1>1, <2>7, HubReadsByTable, FieldsOfByTable DEF Field
  <2>8. CASE key \in DOMAIN SysInfoBinary
    <3>1. /\ HubReads(o, key) = Field(SysInfoBinary, key, o)
          /\ HubReads(NoOddity, key) = Field(SysInfoBinary, key, NoOddity)
      BY <2>8, HubReadsByTable
    <3>2. SysInfoBinary[key] \in FieldsOf(key)
      BY <2>8, FieldsOfByTable
    <3> QED
      BY <1>1, <3>1, <3>2 DEF Field
  <2> QED
    BY <2>1, <2>2, <2>3, <2>4, <2>5, <2>6, <2>7, <2>8 DEF HubKeys
<1> QED
  BY <1>2 DEF FieldShows, HubShows

\* So does one of a WAN, unless its uptime_stats entry is gone, too.
LEMMA WanIsUndisturbed ==
    ASSUME NEW o, NEW parts, NEW w \in Wans,
           NEW key \in DOMAIN WanSensors \cup {"latency", "availability"},
           Alike(o, w, WanFieldsOf(key)), HasStats(o, w) <=> HasStats(NoOddity, w)
    PROVE  FieldShows(o, parts, <<w, key>>) = FieldShows(NoOddity, parts, <<w, key>>)
<1>1. w # "none" /\ w # "hub"
  BY GroupsAreDistinct
<1>2. /\ \A f \in WanFieldsOf(key) : ReadingOf(o, w, f) = ReadingOf(NoOddity, w, f)
      /\ Has(o, w) /\ Has(NoOddity, w)
  BY <1>1, UsualIsUsual DEF Alike, ReadingOf
<1>3. Unread(o, w) = Unread(NoOddity, w)
  BY DEF Unread
<1>4. WanShows(o, w, key) = WanShows(NoOddity, w, key)
  <2>1. CASE key \in {"latency", "availability"}
    BY <1>2, <1>3, <2>1 DEF WanShows, WanFieldsOf, Latency, Availability, StatsOrBlock
  <2>2. CASE key \in DOMAIN WanSensors
    BY <1>2, <2>2 DEF WanShows, WanFieldsOf, WanSensors
  <2> QED
    BY <2>1, <2>2
<1> QED
  BY <1>1, <1>2, <1>4 DEF FieldShows

\* And one of a port.
LEMMA SfpIsUndisturbed ==
    ASSUME NEW o, NEW parts, NEW sfp \in Sfps, NEW key \in {"present", "problem"},
           o.group # sfp
    PROVE  FieldShows(o, parts, <<sfp, key>>) = FieldShows(NoOddity, parts, <<sfp, key>>)
<1>1. sfp # "none" /\ sfp # "hub" /\ sfp \notin Wans
  BY GroupsAreDistinct
<1>2. /\ \A f : ReadingOf(o, sfp, f) = ReadingOf(NoOddity, sfp, f)
      /\ Has(o, sfp) /\ Has(NoOddity, sfp)
  BY <1>1, UsualIsUsual DEF ReadingOf, KindOf, Has
<1> QED
  BY <1>1, <1>2 DEF FieldShows, SfpShows, HasProblem

-----------------------------------------------------------------------------
\* What is read of an answer that was asked for does not raise, if its models could
\* be built.
LEMMA ReadFieldsHold ==
    ASSUME NEW o, NEW groups, ~Raises(o, groups), NEW g \in groups \cap Groups,
           NEW f \in Reads(o, g), OfField(o) \/ OfBlock(o)
    PROVE  ReadingOf(o, g, f) # "raises"
<1>1. CASE o.group = g
  BY <1>1 DEF Raises
<1>2. CASE o.group # g
  <2>1. KindOf(o, g, f) = "usual" /\ ReadersOf(g)[f] \in Readers
    BY <1>2, ReadersAreKnown DEF KindOf, Reads
  <2> QED
    BY <2>1, UsualReads DEF ReadingOf
<1> QED
  BY <1>1, <1>2

\* No value_fn raises on a snapshot that was kept.
LEMMA NothingShownRaises ==
    ASSUME NEW o \in Oddities \cup {NoOddity}, NEW parts \in SUBSET Parts,
           ~Raises(o, ReadGroups(parts)), NEW e \in FieldEntities
    PROVE  FieldShows(o, parts, e) # "raises"
<1>1. OfField(o) \/ OfBlock(o)
  BY OdditiesAre DEF OfShape, Raises, ReadGroups
<1>2. ASSUME NEW g \in ReadGroups(parts) \cap Groups, NEW f \in Reads(o, g)
      PROVE  ReadingOf(o, g, f) # "raises"
  BY <1>1, <1>2, ReadFieldsHold
<1>3. CASE e[1] = "hub"
  <2>1. PICK key \in HubKeys : e = <<"hub", key>>
    BY <1>3, GroupsAreDistinct DEF FieldEntities
  <2>2. ASSUME NEW g \in DOMAIN ConsoleReaders, NEW f \in DOMAIN ConsoleReaders[g],
               g \in HealthRows => "health" \in parts, g = "sysinfo" => "sysinfo" \in parts
        PROVE  ReadingOf(o, g, f) # "raises"
    <3>1. g \in Groups /\ ReadersOf(g) = ConsoleReaders[g] /\ g \notin Wans
      BY <2>2, GroupsAreDistinct DEF Groups, ReadersOf
    <3>2. f \in Reads(o, g)
      BY <2>2, <3>1 DEF Reads
    <3> QED
      BY <1>2, <2>2, <3>1, <3>2, GroupsRead
  <2>3. CASE key = "storage_usage"
    BY <2>1, <2>3, HubReadsByTable DEF FieldShows, HubShows, Usage
  <2>4. CASE key = "temperature"
    <3>1. ReadingOf(o, "temperatures", "value") # "raises"
      BY <2>2 DEF ConsoleReaders, TemperatureReaders, HealthRows
    <3> QED
      BY <2>1, <2>4, <3>1, HubReadsByTable DEF FieldShows, HubShows
  <2>5. CASE key \in DOMAIN DeviceSensors
    <3>1. ReadingOf(o, DeviceSensors[key][1], DeviceSensors[key][2]) # "raises"
      BY <2>2, <2>5, TablesNameFields DEF ConsoleReaders, HealthRows
    <3> QED
      BY <2>1, <2>5, <3>1, HubReadsByTable DEF FieldShows, HubShows, Field
  <2>6. CASE key \in DOMAIN DeviceBinary
    <3>1. ReadingOf(o, DeviceBinary[key][1], DeviceBinary[key][2]) # "raises"
      BY <2>2, <2>6, TablesNameFields DEF ConsoleReaders, HealthRows
    <3> QED
      BY <2>1, <2>6, <3>1, HubReadsByTable DEF FieldShows, HubShows, Field
  <2>7. CASE key \in DOMAIN HealthSensors
    <3>1. CASE "health" \in parts
      <4>1. ReadingOf(o, HealthSensors[key][1], HealthSensors[key][2]) # "raises"
        BY <2>2, <2>7, <3>1, TablesNameFields DEF ConsoleReaders, HealthRows
      <4> QED
        BY <2>1, <2>7, <4>1, HubReadsByTable DEF FieldShows, HubShows, Field, OrUnknown
    <3>2. CASE "health" \notin parts
      BY <2>1, <2>7, <3>2 DEF FieldShows, HubShows, PartOf
    <3> QED
      BY <3>1, <3>2
  <2>8. CASE key \in DOMAIN HealthBinary
    <3>1. CASE "health" \in parts
      <4>1. ReadingOf(o, HealthBinary[key][1], HealthBinary[key][2]) # "raises"
        BY <2>2, <2>8, <3>1, TablesNameFields DEF ConsoleReaders, HealthRows
      <4> QED
        BY <2>1, <2>8, <4>1, HubReadsByTable DEF FieldShows, HubShows, Field, InternetUp
    <3>2. CASE "health" \notin parts
      BY <2>1, <2>8, <3>2 DEF FieldShows, HubShows, PartOf
    <3> QED
      BY <3>1, <3>2
  <2>9. CASE key \in DOMAIN SysInfoSensors \cup DOMAIN SysInfoBinary
    <3>1. CASE "sysinfo" \in parts
      <4>1. /\ key \in DOMAIN SysInfoSensors =>
                   ReadingOf(o, SysInfoSensors[key][1], SysInfoSensors[key][2]) # "raises"
            /\ key \in DOMAIN SysInfoBinary =>
                   ReadingOf(o, SysInfoBinary[key][1], SysInfoBinary[key][2]) # "raises"
        BY <2>2, <3>1, TablesNameFields DEF ConsoleReaders, HealthRows
      <4> QED
        BY <2>1, <2>9, <4>1, HubReadsByTable DEF FieldShows, HubShows, Field
    <3>2. CASE "sysinfo" \notin parts
      BY <2>1, <2>9, <3>2 DEF FieldShows, HubShows, PartOf, SysInfoSensors, SysInfoBinary,
                              HealthSensors, HealthBinary
    <3> QED
      BY <3>1, <3>2
  <2> QED
    BY <2>3, <2>4, <2>5, <2>6, <2>7, <2>8, <2>9 DEF HubKeys
<1>4. CASE e[1] \in Wans
  <2>1. PICK w \in Wans, key \in DOMAIN WanSensors \cup {"latency", "availability"} :
            e = <<w, key>>
    BY <1>4, GroupsAreDistinct DEF FieldEntities
  <2>2. w \in ReadGroups(parts) \cap Groups /\ w # "hub" /\ ReadersOf(w) = WanReaders
    BY GroupsAreDistinct DEF ReadGroups, Groups, HealthRows, ConsoleReaders, ReadersOf
  <2>3. ASSUME NEW f \in DOMAIN WanReaders \ Unread(o, w)
        PROVE  ReadingOf(o, w, f) # "raises"
    BY <1>2, <2>2, <2>3 DEF Reads
  <2>4. WanShows(o, w, key) # "raises"
    <3>1. CASE key = "latency"
      BY <2>3, <3>1 DEF WanShows, Latency, StatsOrBlock, WanReaders, Unread
    <3>2. CASE key = "availability"
      BY <2>3, <3>2 DEF WanShows, Availability, StatsOrBlock, WanReaders, Unread
    <3>3. CASE key \in DOMAIN WanSensors
      <4>1. WanSensors[key] \in DOMAIN WanReaders \ Unread(o, w)
        BY <3>3 DEF WanSensors, WanReaders, Unread
      <4> QED
        BY <2>3, <3>3, <4>1 DEF WanShows, OrUnknown, WanSensors
    <3> QED
      BY <3>1, <3>2, <3>3
  <2> QED
    BY <2>1, <2>2, <2>4 DEF FieldShows
<1>5. CASE e[1] \in Sfps
  <2>1. PICK sfp \in Sfps, key \in {"present", "problem"} : e = <<sfp, key>>
    BY <1>5, GroupsAreDistinct DEF FieldEntities
  <2>2. sfp # "hub" /\ sfp \notin Wans /\ ReadersOf(sfp) = SfpReaders
    BY GroupsAreDistinct DEF ReadersOf
  <2>3. \A f \in DOMAIN SfpReaders : ReadingOf(o, sfp, f) # "raises"
    BY <2>2 DEF SfpReaders, ReadingOf, ReadAs, AsFlag
  <2> QED
    BY <2>1, <2>2, <2>3 DEF FieldShows, SfpShows, HasProblem, SfpReaders
<1> QED
  BY <1>3, <1>4, <1>5 DEF FieldEntities

\* Which blocks are odd, where no scalar stands for one.
LEMMA OddGroups ==
    ASSUME NEW o \in Oddities \cup {NoOddity}, ~OfShape(o), o # NoOddity
    PROVE  \/ OfField(o)
           \/ o.group \in Groups /\ o.field = "all"
           \/ o.group \in Wans /\ o.field = "stats"
<1>1. CASE o \in OddFields
  <2>1. PICK g \in Groups : o \in OddFieldsOf(g)
    BY <1>1 DEF OddFields
  <2>2. PICK f \in DOMAIN ReadersOf(g) :
            o \in [group : {g}, field : {f}, kind : OddKinds(ReadersOf(g)[f])]
    BY <2>1 DEF OddFieldsOf
  <2> QED
    BY <2>2 DEF OfField
<1>2. CASE o \in NoBlock
  BY <1>2 DEF NoBlock
<1>3. CASE o \in NoStats
  BY <1>3, ListedAreWans DEF NoStats
<1>4. CASE o \in OddBlocks
  BY <1>4 DEF OddBlocks, OfShape
<1> QED
  BY <1>1, <1>2, <1>3, <1>4 DEF Oddities

\* Behind an entity of the console are fields of blocks of the console.
LEMMA HubFields ==
    ASSUME NEW key \in HubKeys, NEW field \in FieldsOf(key)
    PROVE  /\ field = <<field[1], field[2]>>
           /\ field[1] \in DOMAIN ConsoleReaders
<1>1. CASE key \in {"storage_usage", "temperature"}
  BY <1>1, FieldsOfByTable DEF ConsoleReaders
<1>2. CASE key \in DOMAIN DeviceSensors
  BY <1>2, FieldsOfByTable DEF ConsoleReaders, DeviceSensors
<1>3. CASE key \in DOMAIN DeviceBinary
  BY <1>3, FieldsOfByTable DEF ConsoleReaders, DeviceBinary
<1>4. CASE key \in DOMAIN HealthSensors
  BY <1>4, FieldsOfByTable DEF ConsoleReaders, HealthSensors
<1>5. CASE key \in DOMAIN HealthBinary
  BY <1>5, FieldsOfByTable DEF ConsoleReaders, HealthBinary
<1>6. CASE key \in DOMAIN SysInfoSensors
  BY <1>6, FieldsOfByTable DEF ConsoleReaders, SysInfoSensors
<1>7. CASE key \in DOMAIN SysInfoBinary
  BY <1>7, FieldsOfByTable DEF ConsoleReaders, SysInfoBinary
<1> QED
  BY <1>1, <1>2, <1>3, <1>4, <1>5, <1>6, <1>7 DEF HubKeys

\* An entity is one of the console, of a WAN or of a port.
LEMMA EntitiesAre ==
    ASSUME NEW e \in FieldEntities
    PROVE  \/ \E key \in HubKeys : e = <<"hub", key>>
           \/ \E w \in Wans, key \in DOMAIN WanSensors \cup {"latency", "availability"} :
                 e = <<w, key>>
           \/ \E sfp \in Sfps, key \in {"present", "problem"} : e = <<sfp, key>>
BY DEF FieldEntities

\* Whose entities an oddity may disturb
OwnerOf(o) == IF o.group \in Wans \cup Sfps THEN o.group ELSE "hub"

\* What an oddity disturbs belongs to its owner.
LEMMA DisturbedAreOwned ==
    ASSUME NEW o, NEW parts, NEW e \in FieldEntities,
           FieldShows(o, parts, e) # FieldShows(NoOddity, parts, e)
    PROVE  e[1] = OwnerOf(o)
<1>1. ASSUME NEW key \in HubKeys, e = <<"hub", key>>
      PROVE  o.group \notin Wans \cup Sfps
  <2> SUFFICES ASSUME o.group \in Wans \cup Sfps PROVE FALSE
    OBVIOUS
  <2>1. ASSUME NEW field \in FieldsOf(key)
        PROVE  Alike(o, field[1], {field[2]})
    BY HubFields, GroupsAreDistinct DEF Alike, Has, KindOf
  <2> QED
    BY <1>1, <2>1, HubIsUndisturbed
<1>2. ASSUME NEW w \in Wans, NEW key \in DOMAIN WanSensors \cup {"latency", "availability"},
             e = <<w, key>>
      PROVE  o.group = w
  <2> SUFFICES ASSUME o.group # w PROVE FALSE
    OBVIOUS
  <2>1. Alike(o, w, WanFieldsOf(key))
    BY DEF Alike, Has, KindOf
  <2>2. w # "none"
    BY GroupsAreDistinct
  <2>3. HasStats(o, w) <=> HasStats(NoOddity, w)
    BY <2>2 DEF HasStats, NoOddity
  <2> QED
    BY <1>2, <2>1, <2>3, WanIsUndisturbed
<1>3. ASSUME NEW sfp \in Sfps, NEW key \in {"present", "problem"}, e = <<sfp, key>>
      PROVE  o.group = sfp
  BY <1>3, SfpIsUndisturbed
<1> QED
  BY <1>1, <1>2, <1>3, EntitiesAre DEF OwnerOf

\* An odd field is behind every entity it disturbs.
LEMMA OddHubField ==
    ASSUME NEW o, OfField(o), NEW parts, NEW key \in HubKeys,
           FieldShows(o, parts, <<"hub", key>>) # FieldShows(NoOddity, parts, <<"hub", key>>)
    PROVE  <<o.group, o.field>> \in FieldsOf(key)
<1>1. PICK field \in FieldsOf(key) : ~Alike(o, field[1], {field[2]})
  BY HubIsUndisturbed
<1>2. o.field # "all"
  BY ReadersAreKnown DEF OfField
<1>3. o.group = field[1] /\ o.field = field[2]
  BY <1>1, <1>2 DEF Alike, Has, KindOf
<1> QED
  BY <1>3, HubFields

LEMMA OddWanField ==
    ASSUME NEW o, OfField(o), NEW parts, NEW w \in Wans,
           NEW key \in DOMAIN WanSensors \cup {"latency", "availability"},
           FieldShows(o, parts, <<w, key>>) # FieldShows(NoOddity, parts, <<w, key>>)
    PROVE  o.field \in WanFieldsOf(key)
<1>1. o.field \notin {"all", "stats"}
  BY ReadersAreKnown DEF OfField
<1>2. HasStats(o, w) <=> HasStats(NoOddity, w)
  BY <1>1 DEF HasStats, NoOddity
<1>3. ~Alike(o, w, WanFieldsOf(key))
  BY <1>2, WanIsUndisturbed
<1> QED
  BY <1>1, <1>3 DEF Alike, Has, KindOf

\* So an odd field that is none of a port disturbs one entity at most.
LEMMA FieldDisturbsOne ==
    ASSUME NEW o, OfField(o), o.group \notin Sfps, NEW parts,
           NEW e \in FieldEntities, NEW f \in FieldEntities,
           FieldShows(o, parts, e) # FieldShows(NoOddity, parts, e),
           FieldShows(o, parts, f) # FieldShows(NoOddity, parts, f)
    PROVE  e = f
<1>1. e[1] = OwnerOf(o) /\ f[1] = OwnerOf(o)
  BY DisturbedAreOwned
<1>2. CASE o.group \in Wans
  <2>1. e[1] = o.group /\ f[1] = o.group
    BY <1>1, <1>2 DEF OwnerOf
  <2>2. PICK key \in DOMAIN WanSensors \cup {"latency", "availability"} : e = <<o.group, key>>
    BY <1>2, <2>1, EntitiesAre, GroupsAreDistinct
  <2>3. PICK other \in DOMAIN WanSensors \cup {"latency", "availability"} :
            f = <<o.group, other>>
    BY <1>2, <2>1, EntitiesAre, GroupsAreDistinct
  <2>4. o.field \in WanFieldsOf(key)
    BY <1>2, <2>2, OddWanField
  <2>5. o.field \in WanFieldsOf(other)
    BY <1>2, <2>3, OddWanField
  <2> QED
    BY <2>2, <2>3, <2>4, <2>5, FieldsAreOfOneWanKey
<1>3. CASE o.group \notin Wans
  <2>1. e[1] = "hub" /\ f[1] = "hub"
    BY <1>1, <1>3 DEF OwnerOf
  <2>2. PICK key \in HubKeys : e = <<"hub", key>>
    BY <2>1, EntitiesAre, GroupsAreDistinct
  <2>3. PICK other \in HubKeys : f = <<"hub", other>>
    BY <2>1, EntitiesAre, GroupsAreDistinct
  <2>4. <<o.group, o.field>> \in FieldsOf(key)
    BY <2>2, OddHubField
  <2>5. <<o.group, o.field>> \in FieldsOf(other)
    BY <2>3, OddHubField
  <2> QED
    BY <2>2, <2>3, <2>4, <2>5, FieldsAreOfOneKey
<1> QED
  BY <1>2, <1>3

LEMMA AtMostOne ==
    ASSUME NEW S, \A e \in S, f \in S : e = f
    PROVE  Cardinality(S) \leq 1
<1>1. CASE S = {}
  BY <1>1, FS_EmptySet
<1>2. CASE S # {}
  <2>1. PICK e : S = {e}
    BY <1>2
  <2> QED
    BY <2>1, FS_Singleton
<1> QED
  BY <1>1, <1>2

-----------------------------------------------------------------------------
(* The route of the console, which depends on the is_uplink of every WAN.   *)

\* Of some WANs one has the lowest number, since the numbers are distinct and are six
\* at most.
LEMMA LowestNumber ==
    ASSUME NEW S \in SUBSET Wans, S # {}
    PROVE  \E w \in S : \A v \in S : Number[w] \leq Number[v]
<1> USE NumbersAreDistinct
<1>1. ASSUME NEW w \in S
      PROVE  Number[w] \in {1, 2, 3, 4, 5, 6}
  BY <1>1
<1>2. PICK n \in {1, 2, 3, 4, 5, 6} :
          /\ \E w \in S : Number[w] = n
          /\ \A m \in {1, 2, 3, 4, 5, 6} : m < n => ~ \E w \in S : Number[w] = m
  <2> DEFINE Is(n) == \E w \in S : Number[w] = n
  <2>1. Is(1) \/ Is(2) \/ Is(3) \/ Is(4) \/ Is(5) \/ Is(6)
    BY <1>1
  <2> HIDE DEF Is
  <2>2. \E n \in {1, 2, 3, 4, 5, 6} :
           Is(n) /\ \A m \in {1, 2, 3, 4, 5, 6} : m < n => ~Is(m)
    BY <2>1
  <2> QED
    BY <2>2 DEF Is
<1>3. PICK w \in S : Number[w] = n
  BY <1>2
<1>4. ASSUME NEW v \in S
      PROVE  Number[w] \leq Number[v]
  BY <1>1, <1>2, <1>3, <1>4
<1> QED
  BY <1>4

\* The WAN the console takes is one that is in use, unless none is.
LEMMA ActiveWanIsFirst ==
    ASSUME NEW o, NEW uplinks \in SUBSET Wans, NEW w \in InUse(o, uplinks)
    PROVE  ActiveWan(o, uplinks) = w <=>
               \A v \in InUse(o, uplinks) : Number[w] \leq Number[v]
<1> DEFINE S == InUse(o, uplinks)
           a == Foremost(S)
<1>1. S \in SUBSET Wans /\ w \in S
  BY DEF InUse
<1>2. a \in S /\ \A v \in S : Number[a] \leq Number[v]
  BY <1>1, LowestNumber DEF Foremost
<1>3. ActiveWan(o, uplinks) = a
  BY <1>1 DEF ActiveWan
<1>4. ASSUME \A v \in S : Number[w] \leq Number[v]
      PROVE  a = w
  <2>1. /\ Number[a] \in 1 .. 6 /\ Number[w] \in 1 .. 6
        /\ Number[a] \leq Number[w] /\ Number[w] \leq Number[a]
        /\ a \in Wans /\ w \in Wans
    BY <1>1, <1>2, <1>4, NumbersAreDistinct
  <2> QED
    BY <2>1, NumbersAreDistinct
<1> QED
  BY <1>2, <1>3, <1>4

\* Which WANs are in use of a report that is odd in one place: all that are said to
\* be, but for the one the oddity is about.
LEMMA OddInUse ==
    ASSUME NEW o \in Oddities \cup {NoOddity}, ~OfShape(o), NEW uplinks \in SUBSET Wans
    PROVE  /\ InUse(NoOddity, uplinks) = uplinks
           /\ InUse(o, uplinks) \in {uplinks, uplinks \ {o.group}}
           /\ InUse(o, uplinks) # uplinks =>
                  o.group \in uplinks /\ o.field \in {"is_uplink", "all"}
<1>1. ASSUME NEW w \in Wans
      PROVE  /\ ReadersOf(w)["is_uplink"] = "flag"
             /\ w # "none"
  BY GroupsAreDistinct DEF ReadersOf, WanReaders
<1>2. ASSUME NEW w \in Wans, NEW p, Has(p, w), KindOf(p, w, "is_uplink") = "usual"
      PROVE  ReadingOf(p, w, "is_uplink") = "reported"
  BY <1>1, <1>2 DEF ReadingOf, ReadAs, AsFlag
<1>3. InUse(NoOddity, uplinks) = uplinks
  BY <1>1, <1>2, UsualIsUsual DEF InUse
<1>4. ASSUME NEW w \in uplinks, w \notin InUse(o, uplinks)
      PROVE  w = o.group /\ o.field \in {"is_uplink", "all"}
  BY <1>2, <1>4 DEF InUse, Has, KindOf
<1>5. InUse(o, uplinks) \subseteq uplinks
  BY DEF InUse
<1> QED
  BY <1>3, <1>4, <1>5

\* Unless it is about the WAN the console takes, an oddity changes nothing of the route.
LEMMA RouteIsUndisturbed ==
    ASSUME NEW o \in Oddities \cup {NoOddity}, ~OfShape(o), NEW uplinks \in SUBSET Wans,
           ActiveWan(o, uplinks) # ActiveWan(NoOddity, uplinks)
    PROVE  /\ o.field \in {"is_uplink", "all"}
           /\ o.group = ActiveWan(NoOddity, uplinks)
<1>1. InUse(o, uplinks) # InUse(NoOddity, uplinks)
  BY DEF ActiveWan
<1>2. /\ InUse(NoOddity, uplinks) = uplinks
      /\ InUse(o, uplinks) = uplinks \ {o.group}
      /\ o.group \in uplinks /\ o.field \in {"is_uplink", "all"}
  BY <1>1, OddInUse
<1>3. SUFFICES ASSUME o.group # ActiveWan(NoOddity, uplinks) PROVE FALSE
  BY <1>2
<1>4. PICK w \in uplinks : \A v \in uplinks : Number[w] \leq Number[v]
  BY <1>2, LowestNumber
<1>5. ActiveWan(NoOddity, uplinks) = w
  BY <1>2, <1>4, ActiveWanIsFirst
<1>6. w \in InUse(o, uplinks) /\ \A v \in InUse(o, uplinks) : Number[w] \leq Number[v]
  BY <1>2, <1>3, <1>4, <1>5
<1>7. ActiveWan(o, uplinks) = w
  BY <1>6, ActiveWanIsFirst
<1> QED
  BY <1>5, <1>7

\* An odd field changes what one entity shows at most, or the two of one port, a block
\* that is missing those of its owner, and no value_fn raises, for any sets of WANs and
\* ports: a snapshot that was kept is one of which every model could be built, and the
\* tables of the entities name no field twice.  The route changes only with the WAN the
\* console takes: without any other the first of those in use is the same.
THEOREM ReadingsOddFieldDisturbsOne == Spec => []OddFieldDisturbsOne
<1>1. TypeOK /\ KeptReadable => OddFieldDisturbsOne
  <2> SUFFICES ASSUME TypeOK, KeptReadable PROVE OddFieldDisturbsOne
    OBVIOUS
  <2> DEFINE o == data.odd
  <2>1. /\ o \in Oddities \cup {NoOddity} /\ data.parts \in SUBSET Parts
        /\ ~Raises(o, ReadGroups(data.parts))
    BY DEF TypeOK, KeptReadable
  <2>2. ~OfShape(o)
    BY <2>1 DEF OfShape, Raises, ReadGroups
  <2> DEFINE disturbed == Disturbed(FieldEntities, {})
  <2>5. disturbed = {e \in FieldEntities :
                       FieldShows(o, data.parts, e) # FieldShows(NoOddity, data.parts, e)}
    BY DEF Disturbed, Shows
  <2> HIDE DEF disturbed
  <2>3. \A e \in disturbed : e[1] = OwnerOf(o) /\ Shows(o, data.parts, {}, e) # "raises"
    BY <2>1, <2>5, DisturbedAreOwned, NothingShownRaises DEF Shows
  <2>4. \/ o.field \in {"all", "stats"}
        \/ o.group \in Sfps
        \/ Cardinality(disturbed) \leq 1
    <3>1. CASE o = NoOddity
      <4>1. disturbed = {}
        BY <2>5, <3>1
      <4> QED
        BY <4>1, FS_EmptySet
    <3>2. CASE OfField(o) /\ o.group \notin Sfps
      <4>1. \A e \in disturbed, f \in disturbed : e = f
        BY <2>5, <3>2, FieldDisturbsOne
      <4> QED
        BY <4>1, AtMostOne
    <3> QED
      BY <2>1, <2>2, <3>1, <3>2, OddGroups
  <2>6. ASSUME NEW uplinks \in SUBSET Wans,
               Disturbed(Entities \ FieldEntities, uplinks) # {}
        PROVE  /\ o.field \in {"is_uplink", "all"}
               /\ o.group = ActiveWan(NoOddity, uplinks)
    <3>1. PICK e \in Entities \ FieldEntities :
              RouteShows(o, uplinks, e[2]) # RouteShows(NoOddity, uplinks, e[2])
      BY <2>6 DEF Disturbed, Shows
    <3>2. ActiveWan(o, uplinks) # ActiveWan(NoOddity, uplinks)
      BY <3>1 DEF RouteShows, FailoverActive
    <3> QED
      BY <2>1, <2>2, <3>2, RouteIsUndisturbed
  <2> QED
    BY <2>3, <2>4, <2>6 DEF OddFieldDisturbsOne, OwnerOf, disturbed
<1> QED
  BY <1>1, InitKept, NextKept, ReadingsTypeOK, PTL DEF Spec

=============================================================================
