--------------------------- MODULE EntryLifecycle ---------------------------
(* The life of one config entry: setup, unload, reload, retry, polling, the *)
(* update listener, and the two ways an entry is changed - the options flow *)
(* and async_update_entry_and_reload, through which reauth, reconfigure and *)
(* both repairs store new data.                                             *)
(*                                                                          *)
(* Home Assistant's own part is external: it serialises setup and unload of *)
(* an entry under setup_lock, retries an entry that is not ready, restarts, *)
(* and tells the listeners registered at that moment of a change.  A setup  *)
(* yields at its awaits (probe, first refresh, platform forwarding), and    *)
(* the entry can be changed at each of them.                                *)

EXTENDS Naturals

CONSTANTS
    Credentials,         \* what entry.data can hold, as far as setup is concerned
    Intervals,           \* poll intervals the options flow offers
    MaxReloads,          \* bound on reload tasks waiting at once
    ChangesDuringSetup   \* may the options flow be submitted while a setup runs?

ASSUME MaxReloadsIsNat == MaxReloads \in Nat
ASSUME ChangesDuringSetupIsBoolean == ChangesDuringSetup \in BOOLEAN

VARIABLES
    state,        \* ConfigEntryState, a setup split at its awaits
    data,         \* entry.data
    options,      \* entry.options
    used,         \* what the running client and coordinator were built from
    listener,     \* _async_reload is registered as update listener
    reloads,      \* tasks running async_reload that wait for setup_lock
    setupDue,     \* a setup still to come: "timer" (retry) or "task" (waits for the lock)
    polling,      \* the coordinator has its next refresh scheduled
    reauth,       \* a reauth flow is open
    buttons,      \* the control entities are in the entity registry
    accepted,     \* the credential the console accepts
    reachable,    \* the console serves its API
    untried       \* history: data stored by a flow and not yet read by a setup

vars == <<state, data, options, used, listener, reloads, setupDue, polling, reauth,
          buttons, accepted, reachable, untried>>
worldVars == <<accepted, reachable>>

Options == [interval : Intervals, controls : BOOLEAN]

SettingUp == {"starting", "probing", "refreshing", "forwarding"}
Locked == SettingUp \cup {"unloading"}
Settled == {"not_loaded", "loaded", "retry", "error", "crashed"}
States == Locked \cup Settled

Init ==
    /\ state = "not_loaded"
    /\ data \in Credentials
    /\ options \in [interval : Intervals, controls : {FALSE}]
    /\ used = [data |-> data, interval |-> options.interval, controls |-> FALSE]
    /\ listener = FALSE
    /\ reloads = 0
    /\ setupDue = "task"
    /\ polling = FALSE
    /\ reauth = FALSE
    /\ buttons = FALSE
    /\ accepted \in Credentials
    /\ reachable \in BOOLEAN
    /\ untried = FALSE

-----------------------------------------------------------------------------
(* Setup.                                                                   *)

\* The retry timer fires; from here on nothing cancels the setup.
RetryTimer ==
    /\ setupDue = "timer"
    /\ setupDue' = "task"
    /\ UNCHANGED <<state, data, options, used, listener, reloads, polling, reauth,
                   buttons, worldVars, untried>>

\* A first setup or a retry takes the lock; an entry loaded meanwhile is left alone.
StartSetup ==
    /\ setupDue = "task"
    /\ state \notin Locked
    /\ setupDue' = "none"
    /\ state' = IF state = "loaded" THEN "loaded" ELSE "starting"
    /\ UNCHANGED <<data, options, used, listener, reloads, polling, reauth, buttons,
                   worldVars, untried>>

\* async_setup_entry up to its first await: the client is built from entry.data.
ReadData ==
    /\ state = "starting"
    /\ state' = "probing"
    /\ used' = [used EXCEPT !.data = data]
    /\ untried' = FALSE
    /\ UNCHANGED <<data, options, listener, reloads, setupDue, polling, reauth, buttons,
                   worldVars>>

\* Mutant: an unavailable console fails the setup for good.
NotReadyIsFailure ==
    /\ state' = "error"
    /\ UNCHANGED <<setupDue, reauth>>

\* ConfigEntryNotReady: Home Assistant tries again later.
NotReady ==
    /\ state' = "retry"
    /\ setupDue' = "timer"
    /\ UNCHANGED reauth

\* ConfigEntryAuthFailed: setup stops and the user is asked.
AuthFailed ==
    /\ state' = "error"
    /\ reauth' = TRUE
    /\ UNCHANGED setupDue

\* What a failed exchange does to a setup, at the probe and at the first refresh.
SetupFails ==
    \/ ~reachable /\ NotReady
    \/ reachable /\ used.data # accepted /\ AuthFailed

\* A read whose body does not parse raises what async_setup_entry does not catch:
\* Home Assistant logs it and sets the entry up no more.
SetupCrashes ==
    /\ reachable
    /\ state' = "crashed"
    /\ UNCHANGED <<setupDue, reauth>>

Serves == reachable /\ used.data = accepted

\* Mutant: the entities of an entry without controls are left in the registry.
KeptButtons(keep) == buttons

\* _async_prune_control_entities
PrunedButtons(keep) == buttons /\ keep

\* async_prepare and probe have answered; the poll interval is read here.  The
\* coordinator shields the first refresh from a crash, and nothing the probe.
ProbeEnds ==
    /\ state = "probing"
    /\ \/ /\ Serves
          /\ state' = "refreshing"
          /\ used' = [used EXCEPT !.interval = options.interval]
          /\ UNCHANGED <<setupDue, reauth>>
       \/ (SetupFails \/ SetupCrashes) /\ UNCHANGED used
    /\ UNCHANGED <<data, options, listener, reloads, polling, buttons, worldVars, untried>>

\* The first refresh has answered; whether there are controls is read here, and
\* the control entities of an entry that has none are pruned.
RefreshEnds ==
    /\ state = "refreshing"
    /\ \/ /\ Serves
          /\ state' = "forwarding"
          /\ used' = [used EXCEPT !.controls = options.controls]
          /\ buttons' = PrunedButtons(options.controls)
          /\ UNCHANGED <<setupDue, reauth>>
       \/ SetupFails /\ UNCHANGED <<used, buttons>>
    /\ UNCHANGED <<data, options, listener, reloads, polling, worldVars, untried>>

\* The platforms are up (button.py adds its entities if there is an action
\* client); only now is the update listener registered.
ForwardEnds ==
    /\ state = "forwarding"
    /\ state' = "loaded"
    /\ buttons' = (buttons \/ used.controls)
    /\ listener' = TRUE
    /\ polling' = TRUE
    /\ UNCHANGED <<data, options, used, reloads, setupDue, reauth, worldVars, untried>>

-----------------------------------------------------------------------------
(* Polling, unload and reload.                                              *)

\* Mutant: any failed refresh counts as a rejected credential.
RejectedOnAnyFailure == ~Serves

\* The one failure _async_update_data raises as ConfigEntryAuthFailed.
Rejected == reachable /\ used.data # accepted

\* A scheduled refresh: a rejected credential ends the polling and asks the
\* user; any other failure is only reported, and the next refresh follows.
Poll ==
    /\ state = "loaded"
    /\ polling
    /\ IF Rejected
       THEN polling' = FALSE /\ reauth' = TRUE
       ELSE UNCHANGED <<polling, reauth>>
    /\ UNCHANGED <<state, data, options, used, listener, reloads, setupDue, buttons,
                   worldVars, untried>>

\* What async_reload and async_schedule_reload do to a retry that has not fired.
Cancelled == IF setupDue = "timer" THEN "none" ELSE setupDue

\* async_reload gets the lock; the retry timer is cancelled, and only a loaded entry has
\* anything to unload.  Some versions of Home Assistant abort the open reauth flow.
StartReload ==
    /\ reloads > 0
    /\ state \notin Locked
    /\ reloads' = reloads - 1
    /\ setupDue' = Cancelled
    /\ state' = IF state = "loaded" THEN "unloading" ELSE "starting"
    /\ reauth' \in {reauth, FALSE}
    /\ UNCHANGED <<data, options, used, listener, polling, buttons, worldVars, untried>>

\* async_unload_entry has unloaded the platforms; what setup registered with
\* async_on_unload goes with them.
UnloadEnds ==
    /\ state = "unloading"
    /\ state' = "starting"
    /\ listener' = FALSE
    /\ polling' = FALSE
    /\ UNCHANGED <<data, options, used, reloads, setupDue, reauth, buttons, worldVars,
                   untried>>

\* Home Assistant stops and starts again: what is stored survives.
Restart ==
    /\ state' = "not_loaded"
    /\ listener' = FALSE
    /\ reloads' = 0
    /\ setupDue' = "task"
    /\ polling' = FALSE
    /\ reauth' = FALSE
    /\ UNCHANGED <<data, options, used, buttons, worldVars, untried>>

-----------------------------------------------------------------------------
(* Changing the entry.                                                      *)

\* Mutant: nothing listens for changes.
ListenerIsDeaf(changed) == 0

\* async_update_entry: the listeners of a changed entry each get a task.
ListenerReloads(changed) == IF changed /\ listener THEN 1 ELSE 0

\* Mutants: always schedule a reload; rely on the listener alone; reload only
\* what changed.
ScheduledReloadsAlways(changed) == 1
ScheduledReloadsNever(changed) == 0
ScheduledReloadsIfChanged(changed) == IF changed /\ ~listener THEN 1 ELSE 0

\* async_update_entry_and_reload: what it schedules on top of the listener.
ScheduledReloads(changed) == IF changed /\ listener THEN 0 ELSE 1

\* Reauth, reconfigure or a repair stores data it has validated; only the first
\* closes the reauth flow.
\* async_schedule_reload cancels the retry timer, and so does async_reload.
UpdateEntryAndReload(d) ==
    LET tasks == ListenerReloads(d # data) + ScheduledReloads(d # data)
    IN  /\ reloads < MaxReloads
        /\ data' = d
        /\ reloads' = reloads + tasks
        /\ setupDue' = IF tasks > 0 THEN Cancelled ELSE setupDue
        /\ untried' = TRUE
        /\ reauth' \in {reauth, FALSE}
        /\ UNCHANGED <<state, options, used, listener, polling, buttons, worldVars>>

\* GatewayOptionsFlow stores what was submitted; a reload is the listener's doing.
SubmitOptions(o) ==
    LET tasks == ListenerReloads(o # options)
    IN  /\ reloads < MaxReloads
        /\ ChangesDuringSetup \/ state \notin SettingUp
        /\ options' = o
        /\ reloads' = reloads + tasks
        /\ setupDue' = IF tasks > 0 THEN Cancelled ELSE setupDue
        /\ UNCHANGED <<state, data, used, listener, polling, reauth, buttons, worldVars,
                       untried>>

\* The console comes and goes, and its accounts and keys change.
World ==
    /\ \/ reachable' = ~reachable /\ UNCHANGED accepted
       \/ accepted' \in Credentials /\ UNCHANGED reachable
    /\ UNCHANGED <<state, data, options, used, listener, reloads, setupDue, polling,
                   reauth, buttons, untried>>

-----------------------------------------------------------------------------
Tasks == RetryTimer \/ StartSetup \/ ReadData \/ ProbeEnds \/ RefreshEnds \/ ForwardEnds \/ StartReload
         \/ UnloadEnds

Next ==
    \/ Tasks
    \/ Poll
    \/ Restart
    \/ \E d \in Credentials : UpdateEntryAndReload(d)
    \/ \E o \in Options : SubmitOptions(o)
    \/ World

Spec == Init /\ [][Next]_vars

\* The event loop runs what is ready, the library bounds every exchange (see
\* EveryCallReturns of GatewayTransport), and retries and polls are timers.
Fairness ==
    /\ WF_vars(RetryTimer)
    /\ WF_vars(StartSetup)
    /\ WF_vars(ReadData)
    /\ WF_vars(ProbeEnds)
    /\ WF_vars(RefreshEnds)
    /\ WF_vars(ForwardEnds)
    /\ WF_vars(StartReload)
    /\ WF_vars(UnloadEnds)
    /\ WF_vars(Poll)

FairSpec == Spec /\ Fairness

-----------------------------------------------------------------------------
(* What is promised.                                                        *)

TypeOK ==
    /\ state \in States
    /\ data \in Credentials
    /\ options \in Options
    /\ used \in [data : Credentials, interval : Intervals, controls : BOOLEAN]
    /\ listener \in BOOLEAN
    /\ reloads \in 0 .. MaxReloads
    /\ setupDue \in {"none", "timer", "task"}
    /\ polling \in BOOLEAN
    /\ reauth \in BOOLEAN
    /\ buttons \in BOOLEAN
    /\ accepted \in Credentials
    /\ reachable \in BOOLEAN
    /\ untried \in BOOLEAN

\* A setup that will read entry.data: a reload, an unload or a setup that has not
\* read it yet, or the first one after a start of Home Assistant.
ReadIsDue ==
    \/ reloads > 0
    \/ state \in {"starting", "unloading"}
    \/ state = "not_loaded" /\ setupDue = "task"

\* No submitted change is dropped: after a reauthentication, a reconfigure or a
\* pinned certificate there is a setup still to come that reads the entry, at
\* whatever moment of a setup, unload, retry or failure the change arrived, and
\* also when it changed nothing (the same credentials entered again).
NoUpdateLost == untried => ReadIsDue

\* An entry that is up, with no reload on the way, runs on what is stored.
DataApplied ==
    state = "loaded" /\ reloads = 0 => used.data = data

\* Every path that changes an entry sets it up once: no change adds two reloads.
OneReloadPerChange == [][reloads' <= reloads + 1]_vars

\* The same for the options: the poll interval and the controls of a loaded
\* entry with no reload on the way are the stored ones.
OptionsApplied ==
    state = "loaded" /\ reloads = 0 =>
        used.interval = options.interval /\ used.controls = options.controls

\* Control buttons are on the device page exactly while the running entry has
\* an action client for them, whatever was toggled and however often setup failed.
ButtonsMatchControls ==
    state = "loaded" => buttons = used.controls

\* An entry that neither polls nor has any setup ahead of it has asked the user
\* to authenticate again, or was stopped by an answer that does not parse; nothing
\* else detaches it.
NoSilentDetach ==
    \/ reauth \/ state = "crashed"
    \/ state = "loaded" /\ polling
    \/ state \in Locked
    \/ reloads > 0 \/ setupDue # "none"

\* To the flows that store into it, an entry is one that gives what is stored to a
\* setup: a setup that is due is forgotten only by one that reads the entry.
Contract == INSTANCE EntryContract WITH
    Stored <- Credentials, stored <- data, given <- used.data, due <- ReadIsDue

ChangesAreRead == Contract!ContractSpec

\* While the stored credential is never refused and every answer parses, an entry
\* whose console comes back to stay loads again by itself and polls, unless Home
\* Assistant itself keeps restarting.
RecoversByItself ==
    [](accepted = data /\ state # "crashed") /\ <>[]reachable /\ <>[][~Restart]_vars =>
        []<>(state = "loaded" /\ polling)

=============================================================================
