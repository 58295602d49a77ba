----------------------- MODULE EntryLifecycle_proofs ------------------------
(* Proofs about EntryLifecycle, for any credentials, intervals and bound on *)
(* waiting reloads.                                                         *)

EXTENDS EntryLifecycle, TLAPS

-----------------------------------------------------------------------------
(* The inductive invariant.  NoUpdateLost says too little by itself: that a *)
(* loaded entry runs on stale data only while a reload waits takes knowing  *)
(* that the listener is registered whenever the entry is loaded, and that   *)
(* a setup reads entry.data once and is told of no later change.            *)

\* Loaded or on the way there, the entry is at most one waiting reload behind.
DataInv ==
    /\ state \in {"probing", "refreshing", "forwarding", "loaded"} =>
          used.data = data \/ untried
    /\ NoUpdateLost

ButtonsInv ==
    /\ state = "forwarding" => (buttons => used.controls)
    /\ ButtonsMatchControls

\* Who brings the entry back, in each state it can rest in.
DetachInv ==
    /\ state = "loaded" => polling \/ reauth \/ reloads > 0
    /\ state = "error" => reauth \/ reloads > 0
    /\ state = "retry" => setupDue # "none" \/ reloads > 0
    /\ state = "not_loaded" => setupDue # "none" \/ reloads > 0

Inv == TypeOK /\ DataInv /\ ButtonsInv /\ DetachInv

\* A fresh entry waits for its first setup, with nothing stored and untried.
LEMMA InitInv == Init => Inv
<1> SUFFICES ASSUME Init PROVE Inv
  OBVIOUS
<1>1. TypeOK
  <2>1. options \in Options /\ used \in [data : Credentials, interval : Intervals, controls : BOOLEAN]
    BY DEF Init, Options
  <2>2. 0 \in 0 .. MaxReloads
    BY MaxReloadsIsNat
  <2> QED BY <2>1, <2>2 DEF Init, TypeOK, States, Settled
<1>2. DataInv /\ ButtonsInv /\ DetachInv
  BY DEF Init, DataInv, ButtonsInv, DetachInv, NoUpdateLost, ReadIsDue, ButtonsMatchControls
<1> QED BY <1>1, <1>2 DEF Inv

\* What a change of the entry adds: at least one reload, and never two.
LEMMA UpdateAddsOneReload ==
    ASSUME TypeOK, NEW d \in Credentials, UpdateEntryAndReload(d)
    PROVE  /\ reloads' = reloads + 1
           /\ setupDue' = Cancelled
BY DEF TypeOK, UpdateEntryAndReload, ListenerReloads, ScheduledReloads

\* Submitted options leave the reloads to the listener, which adds one at most.
LEMMA OptionsAddAtMostOneReload ==
    ASSUME TypeOK, NEW o \in Options, SubmitOptions(o)
    PROVE  \/ reloads' = reloads /\ setupDue' = setupDue
           \/ reloads' = reloads + 1 /\ setupDue' = Cancelled
BY DEF TypeOK, SubmitOptions, ListenerReloads

\* The types are kept by every step; a change is only made within the bound.
LEMMA StepTypeOK == TypeOK /\ [Next]_vars => TypeOK'
<1> SUFFICES ASSUME TypeOK, [Next]_vars PROVE TypeOK'
  OBVIOUS
<1> USE DEF TypeOK, States, Settled, Locked, SettingUp
<1>1. CASE RetryTimer
  BY <1>1 DEF RetryTimer, worldVars
<1>2. CASE StartSetup
  BY <1>2 DEF StartSetup, worldVars
<1>3. CASE ReadData
  BY <1>3 DEF ReadData, worldVars
<1>4. CASE ProbeEnds
  BY <1>4 DEF ProbeEnds, SetupFails, SetupCrashes, NotReady, AuthFailed, Options, worldVars
<1>5. CASE RefreshEnds
  BY <1>5 DEF RefreshEnds, PrunedButtons, SetupFails, NotReady, AuthFailed, Options,
             worldVars
<1>6. CASE ForwardEnds
  BY <1>6 DEF ForwardEnds, worldVars
<1>7. CASE StartReload
  <2>1. reauth' \in BOOLEAN
    BY <1>7 DEF StartReload
  <2>2. reloads' \in 0 .. MaxReloads
    BY <1>7, MaxReloadsIsNat DEF StartReload
  <2>3. state' \in {"unloading", "starting"} /\ setupDue' \in {setupDue, "none"}
    BY <1>7 DEF StartReload, Cancelled
  <2>4. UNCHANGED <<data, options, used, listener, polling, buttons, worldVars, untried>>
    BY <1>7 DEF StartReload
  <2> QED BY <2>1, <2>2, <2>3, <2>4 DEF worldVars
<1>8. CASE UnloadEnds
  BY <1>8 DEF UnloadEnds, worldVars
<1>9. CASE Poll
  BY <1>9 DEF Poll, worldVars
<1>10. CASE Restart
  <2>1. 0 \in 0 .. MaxReloads
    BY MaxReloadsIsNat
  <2> QED BY <1>10, <2>1 DEF Restart, worldVars
<1>11. ASSUME NEW d \in Credentials, UpdateEntryAndReload(d)
       PROVE  TypeOK'
  <2>1. reloads' \in 0 .. MaxReloads /\ setupDue' \in {"none", "timer", "task"}
    <3>1. reloads < MaxReloads
      BY <1>11 DEF UpdateEntryAndReload
    <3> QED BY <1>11, <3>1, MaxReloadsIsNat, UpdateAddsOneReload DEF Cancelled
  <2> QED BY <1>11, <2>1 DEF UpdateEntryAndReload, worldVars
<1>12. ASSUME NEW o \in Options, SubmitOptions(o)
       PROVE  TypeOK'
  <2>1. reloads' \in 0 .. MaxReloads /\ setupDue' \in {"none", "timer", "task"}
    <3>1. reloads < MaxReloads
      BY <1>12 DEF SubmitOptions
    <3> QED BY <1>12, <3>1, MaxReloadsIsNat, OptionsAddAtMostOneReload DEF Cancelled
  <2> QED BY <1>12, <2>1 DEF SubmitOptions, worldVars
<1>13. CASE World
  BY <1>13 DEF World
<1>14. CASE UNCHANGED vars
  BY <1>14 DEF vars, worldVars
<1> QED BY <1>1, <1>2, <1>3, <1>4, <1>5, <1>6, <1>7, <1>8, <1>9, <1>10, <1>11, <1>12,
           <1>13, <1>14 DEF Next, Tasks

\* The invariant is kept by every step, change, restart and failure.
LEMMA StepInv == Inv /\ [Next]_vars => Inv'
<1> SUFFICES ASSUME Inv, [Next]_vars PROVE Inv'
  OBVIOUS
<1>0. TypeOK'
  BY StepTypeOK DEF Inv
<1>t. TypeOK
  BY DEF Inv
<1> USE DEF Inv, DataInv, ButtonsInv, DetachInv, NoUpdateLost, ReadIsDue, ButtonsMatchControls,
        Locked, SettingUp, worldVars
<1>1. CASE RetryTimer
  BY <1>0, <1>1 DEF RetryTimer
<1>2. CASE StartSetup
  BY <1>0, <1>2 DEF StartSetup
<1>3. CASE ReadData
  BY <1>0, <1>t, <1>3 DEF ReadData, TypeOK
<1>4. CASE ProbeEnds
  BY <1>0, <1>t, <1>4 DEF ProbeEnds, SetupFails, SetupCrashes, NotReady, AuthFailed, TypeOK
<1>5. CASE RefreshEnds
  BY <1>0, <1>t, <1>5 DEF RefreshEnds, PrunedButtons, SetupFails, NotReady, AuthFailed, TypeOK
<1>6. CASE ForwardEnds
  BY <1>0, <1>t, <1>6 DEF ForwardEnds, TypeOK
<1>7. CASE StartReload
  BY <1>0, <1>t, <1>7 DEF StartReload, Cancelled, TypeOK
<1>8. CASE UnloadEnds
  BY <1>0, <1>8 DEF UnloadEnds
<1>9. CASE Poll
  BY <1>0, <1>9 DEF Poll
<1>10. CASE Restart
  BY <1>0, <1>10 DEF Restart
<1>11. ASSUME NEW d \in Credentials, UpdateEntryAndReload(d)
       PROVE  Inv'
  <2>1. reloads' > 0
    BY <1>t, <1>11, UpdateAddsOneReload DEF TypeOK
  <2> QED BY <1>0, <1>11, <2>1 DEF UpdateEntryAndReload
<1>12. ASSUME NEW o \in Options, SubmitOptions(o)
       PROVE  Inv'
  <2>1. reloads' > 0 \/ (reloads' = reloads /\ setupDue' = setupDue)
    BY <1>t, <1>12, OptionsAddAtMostOneReload DEF TypeOK
  <2>2. reloads' >= reloads
    BY <1>t, <1>12, OptionsAddAtMostOneReload DEF TypeOK
  <2>3. setupDue = "task" => setupDue' = "task"
    BY <1>t, <1>12, OptionsAddAtMostOneReload DEF Cancelled
  <2>4. UNCHANGED <<state, data, used, listener, polling, reauth, buttons, untried>>
    BY <1>12 DEF SubmitOptions
  <2> QED BY <1>0, <1>t, <2>1, <2>2, <2>3, <2>4 DEF TypeOK
<1>13. CASE World
  BY <1>0, <1>13 DEF World
<1>14. CASE UNCHANGED vars
  BY <1>0, <1>14 DEF vars
<1> QED BY <1>1, <1>2, <1>3, <1>4, <1>5, <1>6, <1>7, <1>8, <1>9, <1>10, <1>11, <1>12,
           <1>13, <1>14 DEF Next, Tasks

\* The inductive invariant behind the safety theorems of an entry's life.
THEOREM Invariance == Spec => []Inv
BY InitInv, StepInv, PTL DEF Spec

\* The entry is only ever in a state Home Assistant has a name for.
THEOREM TypeCorrect == Spec => []TypeOK
BY Invariance, PTL DEF Inv

\* No change stored by a flow is dropped.
THEOREM UpdatesAreTried == Spec => []NoUpdateLost
BY Invariance, PTL DEF Inv, DataInv

\* A loaded entry with no reload on the way runs on the stored data.
THEOREM LoadedEntryIsCurrent == Spec => []DataApplied
<1>1. Inv => DataApplied
  BY DEF Inv, DataInv, NoUpdateLost, ReadIsDue, DataApplied
<1> QED BY <1>1, Invariance, PTL

\* The control entities of a loaded entry are those of its running setup.
THEOREM ButtonsFollowControls == Spec => []ButtonsMatchControls
BY Invariance, PTL DEF Inv, ButtonsInv

\* The entry never stops for good without having asked the user, unless an answer
\* did not parse.
THEOREM NeverDetachedSilently == Spec => []NoSilentDetach
<1>1. Inv => NoSilentDetach
  BY DEF Inv, DetachInv, NoSilentDetach, TypeOK, States, Settled
<1> QED BY <1>1, Invariance, PTL

\* No change of an entry schedules two reloads of it.
THEOREM ChangesReloadOnce == Spec => OneReloadPerChange
<1>1. TypeOK /\ [Next]_vars => [reloads' <= reloads + 1]_vars
  <2> SUFFICES ASSUME TypeOK, Next PROVE reloads' <= reloads + 1
    BY DEF vars
  <2>1. reloads \in Nat
    BY MaxReloadsIsNat DEF TypeOK
  <2>2. CASE Tasks \/ Poll \/ Restart \/ World
    <3>1. CASE StartReload
      BY <2>1, <3>1 DEF StartReload
    <3>2. CASE ~StartReload
      BY <2>1, <2>2, <3>2 DEF Tasks, RetryTimer, StartSetup, ReadData, ProbeEnds,
         RefreshEnds, ForwardEnds, UnloadEnds, Poll, Restart, World
    <3> QED BY <3>1, <3>2
  <2>3. ASSUME NEW d \in Credentials, UpdateEntryAndReload(d)
        PROVE  reloads' <= reloads + 1
    BY <2>1, <2>3, UpdateAddsOneReload
  <2>4. ASSUME NEW o \in Options, SubmitOptions(o)
        PROVE  reloads' <= reloads + 1
    BY <2>1, <2>4, OptionsAddAtMostOneReload
  <2> QED BY <2>2, <2>3, <2>4 DEF Next
<1> QED BY <1>1, TypeCorrect, PTL DEF Spec, OneReloadPerChange

-----------------------------------------------------------------------------
(* The options, and the moments of a setup at which they must not change:   *)
(* those between their reading and the registration of the listener.        *)

\* What this setup has read of the options is not submitted anew before it ends.
WindowIsKept ==
    /\ state \in {"refreshing", "forwarding"} => options'.interval = options.interval
    /\ state = "forwarding" => options'.controls = options.controls

OptionsInv ==
    /\ state = "loaded" => listener
    /\ state \in {"refreshing", "forwarding"} => used.interval = options.interval
    /\ state = "forwarding" => used.controls = options.controls
    /\ OptionsApplied

\* What a setup has read of the options stays what is stored until it has registered
\* its listener, if nothing is submitted in that window.
LEMMA StepOptions ==
    TypeOK /\ OptionsInv /\ [Next]_vars /\ [WindowIsKept]_vars => OptionsInv'
<1> SUFFICES ASSUME TypeOK, OptionsInv, [Next]_vars, [WindowIsKept]_vars PROVE OptionsInv'
  OBVIOUS
<1>n. reloads \in Nat
  BY MaxReloadsIsNat DEF TypeOK
<1> USE <1>n DEF OptionsInv, OptionsApplied, worldVars
<1>1. CASE RetryTimer \/ StartSetup \/ ReadData \/ Poll \/ Restart \/ World
  BY <1>1 DEF RetryTimer, StartSetup, ReadData, Poll, Restart, World
<1>2. CASE ProbeEnds
  BY <1>2 DEF ProbeEnds, SetupFails, SetupCrashes, NotReady, AuthFailed, TypeOK
<1>3. CASE RefreshEnds
  BY <1>3 DEF RefreshEnds, SetupFails, NotReady, AuthFailed, TypeOK
<1>4. CASE ForwardEnds
  BY <1>4 DEF ForwardEnds
<1>5. CASE StartReload
  BY <1>5 DEF StartReload
<1>6. CASE UnloadEnds
  BY <1>6 DEF UnloadEnds
<1>7. ASSUME NEW d \in Credentials, UpdateEntryAndReload(d)
      PROVE  OptionsInv'
  <2>1. reloads' = reloads + 1
    BY <1>7, UpdateAddsOneReload
  <2>2. UNCHANGED <<state, options, used, listener>>
    BY <1>7 DEF UpdateEntryAndReload
  <2> QED BY <2>1, <2>2
<1>8. ASSUME NEW o \in Options, SubmitOptions(o)
      PROVE  OptionsInv'
  <2>1. UNCHANGED <<state, used, listener>>
    BY <1>8 DEF SubmitOptions
  <2>2. CASE o = options
    <3>1. UNCHANGED <<reloads, options>>
      BY <1>8, <2>2 DEF SubmitOptions, ListenerReloads
    <3> QED BY <2>1, <3>1
  <2>3. CASE o # options
    <3>1. listener => reloads' = reloads + 1
      BY <1>8, <2>3 DEF SubmitOptions, ListenerReloads
    <3>2. WindowIsKept
      BY <1>8, <2>3 DEF SubmitOptions, vars
    <3> QED BY <2>1, <3>1, <3>2 DEF WindowIsKept
  <2> QED BY <2>2, <2>3
<1>9. CASE UNCHANGED vars
  BY <1>9 DEF vars
<1> QED BY <1>1, <1>2, <1>3, <1>4, <1>5, <1>6, <1>7, <1>8, <1>9 DEF Next, Tasks

\* Where the run about lost options ends: an entry that is up, with no reload on the
\* way, runs on the stored interval unless one was submitted while its setup refreshed
\* or brought up the platforms, and on the stored controls unless they were toggled
\* while it brought up the platforms.  At any other moment of a setup they may change.
THEOREM WindowLosesOptions == Spec /\ [][WindowIsKept]_vars => []OptionsApplied
<1>1. Init => OptionsInv
  BY DEF Init, OptionsInv, OptionsApplied
<1>2. OptionsInv => OptionsApplied
  BY DEF OptionsInv
<1> QED BY <1>1, <1>2, StepOptions, TypeCorrect, PTL DEF Spec

\* Options that are not submitted while a setup runs are applied.
THEOREM OptionsAreApplied ==
    ASSUME ~ChangesDuringSetup
    PROVE  Spec => []OptionsApplied
<1>1. [Next]_vars => [WindowIsKept]_vars
  <2> SUFFICES ASSUME Next, state \in SettingUp PROVE options' = options
    BY DEF WindowIsKept, SettingUp
  <2>1. CASE \E o \in Options : SubmitOptions(o)
    BY <2>1 DEF SubmitOptions
  <2>2. CASE Tasks
    BY <2>2 DEF Tasks, RetryTimer, StartSetup, ReadData, ProbeEnds, RefreshEnds,
                ForwardEnds, StartReload, UnloadEnds
  <2>3. CASE Poll \/ Restart \/ World
    BY <2>3 DEF Poll, Restart, World
  <2>4. CASE \E d \in Credentials : UpdateEntryAndReload(d)
    BY <2>4 DEF UpdateEntryAndReload
  <2> QED BY <2>1, <2>2, <2>3, <2>4 DEF Next
<1> QED BY <1>1, WindowLosesOptions, PTL DEF Spec

-----------------------------------------------------------------------------
(* Refinement: to a flow, the entry is one that keeps EntryContract.        *)

\* A fresh entry has had its data given to no setup but the one that is due.
LEMMA InitContract == Init => Contract!ContractInit
BY DEF Init, Contract!ContractInit, ReadIsDue

\* Storing makes a setup due: there is at least the reload that the change adds.
LEMMA StoreStep ==
    ASSUME TypeOK, NEW d \in Credentials, UpdateEntryAndReload(d)
    PROVE  Contract!ContractNext
<1>1. reloads' > 0
  BY UpdateAddsOneReload DEF TypeOK
<1>2. Contract!Store(d)
  BY <1>1 DEF Contract!Store, UpdateEntryAndReload, ReadIsDue
<1> QED BY <1>2 DEF Contract!ContractNext

\* The one step that gives the data to a setup.
LEMMA GiveStep ==
    ASSUME TypeOK, ReadData
    PROVE  Contract!ContractNext
<1>1. ReadIsDue /\ ReadIsDue' \in {ReadIsDue, FALSE}
  BY DEF ReadData, ReadIsDue
<1>2. data' = data /\ used'.data = data
  BY DEF ReadData, TypeOK
<1> QED BY <1>1, <1>2 DEF Contract!ContractNext, Contract!Give

\* Any other step leaves the data alone, and a setup that is due stays due.
LEMMA OtherStep ==
    ASSUME TypeOK, UNCHANGED <<data, used.data>>, ReadIsDue => ReadIsDue'
    PROVE  Contract!ContractNext \/ UNCHANGED <<data, used.data, ReadIsDue>>
BY DEF Contract!ContractNext, Contract!ComesDue, ReadIsDue

\* Every step of an entry is a step of the contract or invisible to it.
LEMMA NextContract ==
    TypeOK /\ [Next]_vars => [Contract!ContractNext]_(Contract!contractVars)
<1> SUFFICES ASSUME TypeOK, [Next]_vars
             PROVE  Contract!ContractNext \/ UNCHANGED <<data, used.data, ReadIsDue>>
  BY DEF Contract!contractVars
<1>n. reloads \in Nat
  BY MaxReloadsIsNat DEF TypeOK
<1>1. CASE \E d \in Credentials : UpdateEntryAndReload(d)
  BY <1>1, StoreStep
<1>2. CASE ReadData
  BY <1>2, GiveStep
<1>3. ASSUME ~ReadData, ~\E d \in Credentials : UpdateEntryAndReload(d)
      PROVE  UNCHANGED <<data, used.data>> /\ (ReadIsDue => ReadIsDue')
  <2> USE <1>n DEF ReadIsDue, Locked, SettingUp, worldVars
  <2>1. CASE RetryTimer \/ StartSetup
    BY <2>1 DEF RetryTimer, StartSetup
  <2>2. CASE ProbeEnds
    BY <2>2 DEF ProbeEnds, SetupFails, SetupCrashes, NotReady, AuthFailed, TypeOK
  <2>3. CASE RefreshEnds
    BY <2>3 DEF RefreshEnds, SetupFails, NotReady, AuthFailed, TypeOK
  <2>4. CASE ForwardEnds \/ Poll \/ World \/ Restart
    BY <2>4 DEF ForwardEnds, Poll, World, Restart
  <2>5. CASE StartReload \/ UnloadEnds
    BY <2>5 DEF StartReload, UnloadEnds
  <2>6. ASSUME NEW o \in Options, SubmitOptions(o)
        PROVE  UNCHANGED <<data, used.data>> /\ (ReadIsDue => ReadIsDue')
    <3>1. UNCHANGED <<state, data, used>>
      BY <2>6 DEF SubmitOptions
    <3>2. /\ reloads > 0 => reloads' > 0
          /\ setupDue = "task" => setupDue' = "task"
      BY <2>6, OptionsAddAtMostOneReload DEF Cancelled
    <3> QED BY <3>1, <3>2
  <2>7. CASE UNCHANGED vars
    BY <2>7 DEF vars
  <2> QED BY <1>3, <2>1, <2>2, <2>3, <2>4, <2>5, <2>6, <2>7 DEF Next, Tasks
<1> QED BY <1>1, <1>2, <1>3, OtherStep

\* To a flow that stores into it, the entry is one that gives what is stored to a
\* setup, through every reload, retry, failure and restart.
THEOREM EntryKeepsContract == Spec => ChangesAreRead
<1>1. Spec => Contract!ContractSpec
  BY InitContract, NextContract, TypeCorrect, PTL DEF Spec, Contract!ContractSpec
<1> QED BY <1>1 DEF ChangesAreRead

\* Whatever the entry is doing - up, failing, retrying, asking, half way through a
\* setup - it was given what is stored, or a setup that reads it is still to come.
THEOREM StoredDataIsGiven == Spec => []Contract!UpToDateOrDue
<1>1. Contract!ContractInit => Contract!UpToDateOrDue
  BY DEF Contract!ContractInit, Contract!UpToDateOrDue
<1>2. Contract!UpToDateOrDue /\ [Contract!ContractNext]_(Contract!contractVars)
         => Contract!UpToDateOrDue'
  BY DEF Contract!UpToDateOrDue, Contract!ContractNext, Contract!contractVars,
         Contract!Store, Contract!ComesDue, Contract!Give, ReadIsDue
<1>3. Contract!ContractSpec => []Contract!UpToDateOrDue
  BY <1>1, <1>2, PTL DEF Contract!ContractSpec
<1> QED BY <1>3, EntryKeepsContract DEF ChangesAreRead

=============================================================================
