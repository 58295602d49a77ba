# A verification of the UniFi gateway integration

This directory models the parts of this repository whose correctness depends on
order: what happens when calls, setups, polls, reloads, user flows and the
gateway itself interleave. The models are TLA+ modules. TLC checks each of them
on small instances, and TLAPS proves all of their safety properties for every
value of the constants. Paths below are relative to the repository root;
`cc/` stands for `custom_components/unifi_gateway_rest/` and `lib/` for
`src/aiounifigw/` (of which `cc/aiounifigw/` is a verbatim vendored copy).

## 1. The system

The integration reads a UniFi gateway through the local REST API of its console
and shows it in Home Assistant. The library below does the talking.

| Component | State it keeps | Operations | Hard behaviour | What makes it correct |
|---|---|---|---|---|
| **Transport and strategies** `lib/transport.py`, `lib/auth.py` | `_prepared`; the session token | `get_json`, `send`; login, one re-login | Concurrent calls share the token and `_prepared` across awaits; sessions expire; answers are lost; a booting console serves its web UI instead of the API | A command is carried out at most once and success is never claimed for one that was not; `GwAuthError` is the console's own verdict; expired sessions heal; every call ends |
| **TLS trust** `lib/tls.py`, `cc/tls.py` | mode and fingerprint in `entry.data` | what `ssl` parameter a connection gets | the certificate changes at any moment | a pinned entry speaks to that certificate only |
| **Config entry** `cc/__init__.py` | `entry.data`, `entry.options`, `runtime_data`, listeners | setup, unload, reload, pruning of the registry | entry changed during setup, unload, retry, failure | no change lost, none applied twice, the entry never stops silently |
| **Flows** `cc/config_flow.py`, `cc/repairs.py` | `_data` of each open flow; the two issues (`cc/issues.py`) | user, reconfigure, reauth, options; two repairs | several flows of one entry open at once; network reads between form and click | pin only what was shown and is still served; issues follow the state of the entry |
| **Coordinator** `cc/coordinator.py`, `lib/capabilities.py` | `data`, `last_update_success`, capabilities | refresh | optional fetches run concurrently; classification of failures | a rejected credential asks the user, all else is retried |
| **Entities** `cc/entity.py`, `cc/sensor.py`, `cc/binary_sensor.py` | `seen` per platform; device and entity registry | dynamic adding; device removal | WANs and SFP ports come and go; devices deleted meanwhile | each listed sub-device has its entities, once, and gets them in the end |
| **Buttons** `cc/button.py`, `lib/actions.py`, `cc/errors.py` | the action client | speed test, restart | a command may be carried out though its answer is lost; five messages for eight ways to fail | success is told only of a command that was carried out, a reason why not only of one that was not |
| **Client and models** `lib/client.py`, `lib/models.py` | none | find the gateway, parse payloads | malformed numbers, missing fields and blocks, values sampled long before they are used | an odd field disturbs what it is about and nothing else, unless it fails the refresh |
| **CLI and MCP server** `lib/cli.py`, `lib/mcp.py`, `lib/summary.py` | none | read everything and print it; speed test | a supplementary read that fails is left out | they say what the entities show |
| **Diagnostics, scripts** | none | redact a snapshot; check captures | none | formatting |

They interact as follows. Setup builds one `GatewayClient` (and with controls
one `GatewayActionClient`, with a transport of its own) from `entry.data`,
probes it, runs the first refresh and forwards the platforms. The coordinator
calls the client on a timer and tells the entities. A failed setup or poll
raises one of Home Assistant's exceptions, which starts a retry or a reauth
flow; a certificate mismatch also raises a repair. Flows and repairs store new
data by `async_update_entry_and_reload`, the options flow by Home Assistant's
own update, and the entry's update listener reloads it.

## 2. The modules

| Module | Models | Extended by |
|---|---|---|
| `CallContract` | what a caller is promised about one call: the abstract specification | instantiated by `GatewayTransport` |
| `GatewayTransport` | any number of concurrent calls on one transport, either strategy, and the console | `MCGatewayTransport`, `GatewayTransport_proofs` |
| `EntryLifecycle` | the life of one entry under Home Assistant's rules | `MCEntryLifecycle`, `EntryLifecycle_proofs` |
| `EntryContract` | an entry as the flows that store into it see it: the abstract specification | instantiated by `EntryLifecycle` and `CertTrust_proofs` |
| `CertTrust` | the certificate an entry accepts, the four flows that change it, the two issues | `MCCertTrust`, `CertTrust_proofs` |
| `Entities` | sub-devices, their entities and the device registry | `MCEntities`, `Entities_proofs` |
| `Controls` | what the end of a call means to the user who pressed a button or typed a command | `MCGatewayTransport`, `Controls_proofs` |
| `Models` | what the library reads out of the device list (operators only) | `Coordinator` |
| `RefreshContract` | a refresh as one step, to whoever looks at the entry: the abstract specification | instantiated by `Coordinator` |
| `Coordinator` | the probe of a setup and the refreshes, read by read | `MCCoordinator`, `Coordinator_proofs` |
| `Payloads` | how each field of a report is read (operators only) | `Readings` |
| `Readings` | what the entities of a running entry show, and what the status command says | `MCReadings`, `Readings_proofs` |

The `MC` modules define what a `.cfg` cannot write: four device lists for the
coordinator, a gateway and the oddities that last for the readings, and the symmetry set of certificates. Each module states its mutants (the plausible
bugs that its properties must catch) just before the definition they vary; nothing
else uses them.

The modules meet at named facts rather than in one product. `EntryLifecycle`
takes from `GatewayTransport` that every call ends (`EveryCallReturns`, which
justifies fairness of the setup's steps) and that `GwAuthError` is a verdict.
`CertTrust` takes from `EntryLifecycle` that a stored change is followed by a
setup that reads it; there it is the flag `due`, and here the reloads, tasks and
states of `ReadIsDue`. That the two are the same entry is what `EntryContract` says
and both are proved to implement: a flow stores, a setup is due, a setup is given all
of what is stored when it reads. `Entities` takes setup and refresh from both. `Coordinator` takes the outcomes of a read
from `GatewayTransport`, and that each read ends; it opens up what is one step
(`ProbeEnds`, `RefreshEnds`, `Poll`) in `EntryLifecycle`, which in turn has what
a reload and a stored change do to the entry. That one step may stand for a whole
refresh is what `RefreshContract` says and `Coordinator` is shown to implement.
`Readings` takes from `Coordinator` what a refresh asks for and has what becomes
of the answers.

### GatewayTransport

The grain is the await. A call (`Start`) runs to its first exchange; an
exchange is answered by the console (`ConsoleLogin`, `ConsoleRequest`), and the
call goes on (`ReceiveLogin`, `ReceiveAnswer`) to its next exchange or to its
outcome. `LoginFails` and `RequestFails` are a timeout, a broken connection or a
certificate mismatch; they may come at any moment before the answer is read,
and the command may have been carried out by then. The headers are fixed in
`Issue`, when the request goes out, which is why a call can carry a token that
a concurrent login has already replaced. `prepared` is tested in `Start` and
set in `ReceiveLogin`, as around the await in `async_prepare`.

An answer is abstracted to what `_request` and `_call` tell apart: JSON, 401,
403, another error, a redirect, the web UI's page, and a JSON body that does
not parse. The console is external. It answers from `credential` and `live`
(its sessions), and may say anything that a proxy without its application says.

`rejected` and `disturbed` are history variables: what the console refused a
call, and whether anything happened that excuses a failed re-login.

Left out: the CSRF token, which travels with the session and is replaced
together with it, and the first GET of a login, which shares the timeout of its
POST. A web page in answer to a command is taken to mean that the application
never saw it; the code resends the command on that ground.

### Controls

`Controls` extends the transport and adds no step: a press, or a command on the
command line, is a call of `Writes` from `Start` to its outcome, and what follows is
a function of that outcome. Of the five messages three give a reason why the command was not carried out (`Reasons`), two deny it without one (`Denials`). `Classes` gives the exception its classes, for
`action_error` asks for them in an order that matters. `PressEnds` is what
`async_press` does with the exception, `CommandEnds` what `_run` does. Left out: the
presses that Home Assistant queues per platform (`PARALLEL_UPDATES`), and texts.

### EntryLifecycle

`async_setup_entry` is split at its awaits: `ReadData` (client from
`entry.data`), `ProbeEnds` (interval read), `RefreshEnds` (controls read,
buttons pruned), `ForwardEnds` (platforms up, update listener registered). Home
Assistant's part is external: setup and unload of an entry are serialised by
its lock, a reload waits for the lock and cancels a pending retry, a change
calls the listeners registered at that moment. `UpdateEntryAndReload` is the
helper through which reauth, reconfigure and both repairs store data, with its
decision between relying on the listener and scheduling a reload. In `Contract`,
`UpdateEntryAndReload` is `Store`, `ReadData` is `Give`, and the other steps at most
make a setup due.

Not modelled: removal of an entry, an unload that fails, the pruning of
entities of withdrawn kinds. A read of the probe that does not parse escapes
`async_setup_entry` (`SetupCrashes`): Home Assistant logs it and leaves the entry alone, which (section 4) is the one way for an
entry to stop silently, and `NoSilentDetach` and `RecoversByItself` except it.

### CertTrust

`served` is what the gateway presents, `trust` what the entry stores, `used`
what the running setup was given. Every flow is its own state machine
(`reconf`, `reauth`, `repair["mismatch"]`, `repair["insecure"]`), with the
network read a step of its own between the click and what follows from it.
`Exchange` is one talk with the gateway under `used`, with the issue it raises
or withdraws. `confirmed` records the fingerprints accepted on a form. `Contract` (in
`CertTrust_proofs`) maps `StartSetup` to `Give` and each end of a flow to `Store`.

Not modelled: the parsing of fingerprints, and a reconfigure that reaches a
different console (`wrong_device`, which aborts the flow).

### Entities

Per platform: `seen` (the set `add_new_entities` closes over), `adding` (how often a key has been handed to Home Assistant and not yet added), `entities`. A hand-over is a count, so that one made twice before the task of the first has run is seen. `devices` is the device
registry, which outlives unloads. Left out: the hub and what is on it, the
temperature entities (no device of their own, so nothing a user can delete),
and the awaits inside setup, which `EntryLifecycle` has.

### Models and Coordinator

`Models` has the choices that parsing makes. `_find_gateway` takes the first
device of a known type and, failing that, the first that has a `wan1` or `wan2`
key; entries that are no objects are passed over. `Device.from_api` reads the
keys `wan1` to `wan6`, each missing, malformed, standing by or in use, and
`active_wan` is the first in use. Every other field of a payload is in `Payloads`.

In `Coordinator`, `probe` reads the three endpoints one after the other
(`ProbeReads`, `ProbeFails`), the last of which withdraws the certificate issue
(`_async_review_tls`), and `_async_update_data` reads the device
(`DeviceRead`, `DeviceFails`), then those of health and system information that
the probe could read. These two are concurrent: `OptionalReads` ends one of them,
and `GatherEnds` lets `gather` return, which it may do as soon as one read has
failed for good and must not do before both have ended otherwise. The read that
`gather` abandons only ever touches the session, and is dropped. `Finish` is
the rest of the handler: the snapshot, the certificate issue, and what Home
Assistant makes of the exception. `answered`, `listing` and `raised` say what
the refresh in progress has met; the properties compare its result with them.

The console is in one of five conditions, each with the ways a read can end under
it. `rejects` is a console that is there and refuses the credential; one that is
also hard to reach alternates with `gone`.

`View` is the `RefreshContract` of an entry. What is being shown, the latest result,
the issue and the question for a credential map to themselves; the reads in progress
map to nothing, and an entry that is being probed is one that is being set up
(`Stage`); the end of its probe is `Hear`. The contract allows no step in which a refresh has half happened.

Not modelled here: the interval of polls, the listeners of the coordinator
(`Entities` has what they do), and the abandoned read's traffic.

### Payloads and Readings

A report is what a gateway usually sends but for one oddity (`Oddities`): a field
that holds a fraction, zero, a text that only looks like a number, an infinite
number or nothing of use, a block that is missing, or a scalar where
`Device.from_api` iterates without a look. What a reader (`_i`, `_f`, `_epoch`, ...)
makes of it is abstracted to what the readers tell apart: what was reported, zero,
unknown, or an exception; which reader a field gets is a record per block, as in
the `from_api` of that block. `Unread` has the fields of a WAN that are passed over,
according to whether `uptime_stats` has an entry for it.

`Readings` runs such reports through a refresh. The device is asked first and its
uptimes are sampled then (`AskDevice`); `Finish` comes when the rest has been
answered, and fails if a model cannot be built. `value_fn` of the sensors and binary sensors that show a field is an entry of a table by
key, or of `HubReads` where it computes (`FieldShows`). Two entities of the console show no
field of their own: `active_wan` and `failover` depend on the `is_uplink` and the number of
every WAN (`RouteShows`, `ActiveWan`, `FailoverActive`). Which WANs the console says are in
use is the argument `uplinks`, over all values of which the properties quantify. The boot times are state
(`boot`), since an entity computes them when it writes its state: at the end of a
refresh, and whenever Home Assistant has a reason of its own (`Redraw`). `Tick` moves
the clock by a part of a second. `StatusShows`, `StatusWan`, `StatusSfp` and `StatusRoute` are what `status_payload` says, and `StatusParts` what `read_all` had an answer to.

Left out: several oddities at once in one report (two of them meet in one
value for `SfpPort.has_problem` and `usage_percent` only), the fields that identify a volume, a temperature or a port (`mount_point`, `name`, `port_idx`, `media`), more than one volume or temperature, the connectivity sensor, which is `success`, and units.

## 3. What is checked

Every property of a passing run has a mutant, listed in `PROJECT.json`, that
makes the run fail.

| Run | Module, constants | Shows |
|---|---|---|
| `transport` | `Controls`: a read and a command, 2 sessions, a login granted, refused or undecided, fair | types (with at most one execution per command), `NoUnauthenticatedRequest`, `AuthIsVerdict`, `ReloginHeals`; the transport implements `CallContract` (`KeepsContract`); `MessageFollowsCommand`; `CallsAdvance`; `EveryCallReturns` |
| `entry_changes` | `EntryLifecycle`: 2 credentials, 2 intervals, 3 waiting reloads, fair | `NoUpdateLost`, `DataApplied`, `OptionsApplied`, `ButtonsMatchControls`, `NoSilentDetach`, `OneReloadPerChange`, `RecoversByItself`; the entry implements `EntryContract` (`ChangesAreRead`) |
| `trust` | `CertTrust`: one host, 2 certificates, all four flows | `PinWasConfirmed`, `OnlyConfirmedIsHeard`, `MismatchIsReported`, `MismatchIsWithdrawn`, `InsecureIsFlagged` |
| `entities` | `Entities`: 2 WANs, 1 SFP port, fair | `NoEntityTwice`, `OnlyDeletedAreMissing`, `EntitiesArrive` |
| `refresh` | `Coordinator`: slots `wan1` and `wan2`, four device lists, five conditions of the console, fair | `GatewayIsShown`, `OutcomeFollowsReads`, `UnknownWhenDenied`, `RejectionIsNoticed`; the coordinator implements `RefreshContract` (`RefreshIsAtomic`) |
| `readings` | `Readings`: two WANs, one of them in `uptime_stats`, one SFP port; a clock of two half seconds | types, `BootTimeTracks`, `OddFieldDisturbsOne`, `StatusAgrees`, `OnlyUnreadableFails` |
| `login_page`, `entry_options`, `trust_reauth`, `trust_replaced`, `entities_return`, `odd_number` | the same modules | one disagreement each between the code and what the repository says, section 4 |

**Why the bounds are enough.** *Transport:* two calls are the least that race
for `_prepared` and `_token`, and one of each kind gives the contract both its
cases. With two sessions a call can hold one that has been replaced by the other, and
a session may be handed out again once nobody holds it. The login answers that the
run leaves out (a page, a client error) are in `login_page`, and any set of them in the
theorem `TransportKeepsContract`. *Entry:* a property speaks of stored and
used values, so two of each tell equal from different; three waiting reloads
let a change arrive while one runs and another waits (`MaxReloads` is an
artificial bound, a guard of the two actions that add reloads). *Trust:* two
certificates are the pinned and the other; with the four flows open at once a
third would only repeat the second. One host is all that four open flows leave room
for; what several hosts add is in the theorem `RepairsPinTheirHost`. *Entities:* two WANs and a port let one come and go while another stays. *Refresh:* of the lists, one has
no gateway, one has a gateway of an unknown type behind a switch, failed over, and
two have a gateway of a known type behind a modem with a WAN of its own, before and
after its first WAN is taken out; two slots tell the first WAN from the others.
*Readings:* a WAN with an `uptime_stats` entry, one without, and a port; each of the WANs is in use, both are, or none; every oddity of every field occurs. A report
may be late by one step, which rounds to no second, and by two, which are one.
`MaxTime` bounds the clock and `Lasting` says in which reports it moves on: those
whose oddity concerns an uptime, for the others do not look at the clock. Both are
guards of `Tick`, artificial like `MaxReloads`. The proofs below remove all of these
bounds from the safety properties: they hold for any number of calls, any hosts
and certificates, any device lists, any number of WANs and ports, and any clock.

**Symmetry** is used for certificates, which are compared for equality only, and in
runs without liveness properties.

**Fairness.** `GatewayTransport` assumes that asyncio runs what is ready and
that `asyncio.timeout` ends an exchange (`lib/transport.py:155-169`); nothing
is assumed of the console. `EntryLifecycle` assumes the same of the setup's
steps, and that Home Assistant's retry and poll timers fire. No fairness is
assumed of users, of the console or of restarts: `RecoversByItself` states as
hypotheses that the console comes back to stay and that Home Assistant is not
restarted for ever. `Coordinator` assumes that the retry and poll timers fire and
that each read ends; `RejectionIsNoticed` has as its hypothesis that the console
goes on refusing. Its exception is a setup that crashed before. `Entities` assumes that the task Home Assistant makes of a hand-over runs; that polls go on and that the gateway keeps the sub-device are hypotheses of `EntitiesArrive`. Safety needs no fairness.

**Deadlock** is checked in every run; in all modules the world can always move.

## 4. Where the code and its documents disagree

* `login_page`, **`AuthIsVerdict`.** `_login` raises `GwAuthError` for any client error
  (`lib/auth.py:150-155`, where TLC's trace ends) and when the login is answered by a 200
  page that sets no session token (`lib/auth.py:158`). The tests assert both
  (`tests/test_login_failures.py:104-114`, a 400; `tests/test_auth.py:48`), while
  `docs/API.md:36-37` promises
  that a console which is not up is never an authentication failure. The entry
  stops and asks for a password that was right. `LoginPageNeedsNoToken` proves that
  nothing else is to blame: a page does harm only before the first login has
  succeeded, and with an API key the property holds outright (`KeyVerdicts`).
* `entry_options`, **`OptionsApplied`.** Options are read before two awaits, and
  the listener is registered after them (`cc/__init__.py:117-147`). Options
  submitted in between are stored and not applied until something else reloads
  the entry. The passing run and `OptionsAreApplied` therefore assume that options are
  not submitted while a setup runs (`ChangesDuringSetup = FALSE`).
  `WindowLosesOptions` names the window: what is submitted outside it is applied.
* `trust_reauth`, **`ReauthKeepsTrust`.** Reauth stores the copy of `entry.data` it
  took when it opened (`cc/config_flow.py:268,293`) and so undoes a certificate
  pinned while its credential was being validated. Home Assistant aborts an open
  reauth when the entry is reloaded, which closes most of the window; the run
  assumes it does (`ReloadAbortsReauth = TRUE`), and the step that is already
  validating is not interrupted. Another flow that stores meanwhile is all it takes,
  and it takes that: `ReauthAloneKeepsTrust`.
* `trust_replaced`, **`ReplacementShowsBoth`.** The insecure issue is reviewed only
  after a successful probe. After a setup that fails it offers to replace a
  fresh pin on a form that shows the new fingerprint alone, where
  `cc/repairs.py:6-8` requires both. Flows that take turns would not prevent it, for
  the issue outlives the flow that made it wrong. Reconfigure on its own does show
  both: `ReconfigureAloneShowsBoth`.
* `entities_return`, **`EntitiesFollowGateway`.** `seen` forgets nothing, so a WAN
  whose device was deleted while it was away gets no entities when it returns.
  `OnlyDeletedAreMissing` is the form that holds.

* `odd_number`, **`OddFieldNeverFails`.** `_i` is to "Coerce to int or None"
  (`lib/models.py:44`), and raises on a text such as `--5`, which passes its test for
  digits, and on an infinite number (`lib/models.py:49-52`). One such field, of health as
  well as of the device, fails the whole refresh. `OnlyUnreadableFails` is the form that
  holds: nothing else that is odd in a field does.

Three more are stated by a theorem that says how far they go, and have no run:

* `_request` parses a read by `resp.json()` and catches `ContentTypeError` only
  (`lib/transport.py:204`): a read whose JSON does not parse leaves `get_json` as
  `JSONDecodeError`, though `lib/transport.py:83` has "return parsed JSON, or raise a
  typed error". During the probe of a setup it stops the entry without a retry and without
  asking the user. The write path catches the same failure, and
  `CommandFailuresAreTyped` proves that no command ends so.
* `action_error` has two messages for a command of which nothing is known: "Could not
  reach the gateway to perform the action." and "The control action failed."
  (`cc/strings.json:138-139`). Both deny it, and may deny one that was carried out and
  whose answer was lost or was an error; `WrongDenialsAreUnanswered` proves that no
  message does in any other case.
* A repair reads the certificate of the host the entry has when the reading starts, and
  `_async_pin` stores it into `entry.data` as it is afterwards (`cc/repairs.py:61-75`). A
  reconfigure that moves the entry in between leaves it with a pin of the old host, which
  the new one need not serve (`cc/repairs.py:17`: "Never pin what is no longer served").
  `RepairsPinTheirHost` proves `RepairPinsItsHost` where the entry is not moved.

## 5. What is proved

Each `_proofs` module has one inductive invariant `Inv`, a lemma per group of
actions that preserves it, the theorem `Invariance == Spec => []Inv`, and the
properties as consequences. The proofs hold for every value of the constants
under the `ASSUME`s of the modules, which say no more than that the special
values (`NoToken`, `NoPin`) are none of the ordinary ones and that the flags and
subsets are what they are named for.

* **Transport.** `NoUnauthenticatedRequest` is not inductive by itself: a call that
  finds the transport prepared takes the shared token, so `Inv` adds that a
  prepared transport has one (`PreparedInv`), that a granted login carries a
  session, and how `executed` relates to the answer still to be read
  (`ExecutedInv`). From it follow the types, `EveryRequestAuthenticated`, and
  `CallsOnlyAdvance`, the measure (`Left`) by which a call that goes on comes to its
  end, and `TransportKeepsContract`: the refinement maps a running call to `pending`,
  each answer of the console to `Execute` or a stutter, and each end to
  `Return`. `AuthOnlyOnVerdict` and `ReloginAlwaysHeals` need a second invariant
  (`RejectedInv`, `DisturbedInv`) and the assumption `LoginGivesVerdicts`, that
  logins are answered by a session, a refusal or no verdict: without it
  `login_page` refutes them. `LoginPageNeedsNoToken` weakens it, for the first, to a
  temporal hypothesis about the answers that are read (`LoginsAreUnderstood`), of
  which `RejectedInv` needs no more; an API key meets it by never logging in
  (`KeyVerdicts`). `CommandFailuresAreTyped` is proved of `CallContract`
  alone and carried over.
* **Entry.** `NoUpdateLost` and `DataApplied` rest on one idea: when the entry and
  the running setup differ, a reload is waiting or the setup has yet to read.
  `Inv` adds what that takes in each state (the listener is registered exactly
  while loaded or unloading), what the registry holds during a setup, and who
  brings the entry back from each state it can rest in. `WindowLosesOptions`
  needs a further invariant (`OptionsInv`: a setup runs on what is stored of the
  options it has read) and the temporal hypothesis `WindowIsKept`, that nothing else
  is submitted in the meantime; `OptionsAreApplied` meets it by `~ChangesDuringSetup`.
  `EntryKeepsContract` goes through the steps that are neither a `Store` nor a
  `Give`: none of them may forget a setup that is due, which holds because a reload
  that takes the lock becomes a setup or an unload, an unload becomes a setup, and a
  restart is followed by one. `StoredDataIsGiven` is what follows of any entry that
  keeps the contract, and says of every state what `DataApplied` says of a loaded one.
* **Trust.** `PinWasConfirmed` needs to know of each flow what it will store: the
  reconfigure flow's pin is confirmed once credentials are asked for, the pin
  carried by a reauth was the entry's, and a repair that is reading for a second
  time has had confirmed what it shows. The issue properties are inductive
  together with the trust `used` was taken from. `OnlyConfirmedAreHeard` adds that
  `used` is itself such a trust, being one that was stored. `TrustKeepsContract` is
  the refinement of `EntryContract`, and `StoredTrustIsUsed` its consequence.
  Three theorems have a temporal hypothesis about the flows, which the code does not
  enforce and every behaviour with one flow at a time meets: `ReauthAlone` and
  `ReconfigureAlone` (nothing else stores a trust while that flow is open) and
  `AddressIsKept` (the entry is not moved while a repair reads). Their invariants are
  that a reauth still holds the trust of the entry, that reconfigure still knows the
  pin it is about to replace, and that a repair reads the entry's address. The
  first hypothesis excludes what `trust_reauth` shows; the third, what section 4 says of an entry that is moved.
* **Entities.** Per platform, `seen` covers what is added and being added, nothing is
  handed over that has been added or waits already, and what is seen but missing has been
  deleted.

* **Coordinator.** `Inv` says what a refresh in progress knows: nothing before the
  device is read (`BeginInv`); then, while `gather` waits, that the device part
  shows the gateway of the list it was given, that a supplementary part is there
  exactly if its read succeeded, and that `raised` is set exactly if a read failed
  for more than a denial or an API error (`GatherInv`, `ReadInv`). The step that ends a refresh turns these into the three properties. Under them lie
  `GatewayIsFound` and `DeviceIsShown`, the facts about the operators of `Models`
  for every list of devices. `RefreshesAreAtomic` is the refinement of
  `RefreshContract`; it needs `ProbeInv`, that an entry which is being probed has
  not been refreshed since its setup began and shows nothing. Two consequences of
  the contract are drawn from it alone: `StoppedEntriesAsk`, the safety half of
  `RejectionIsNoticed`, and `SetupsShowNothing`.
* **Controls.** `MessagesFollowCommands` and `WrongDenialsAreUnanswered` use of the transport only that it implements
  `CallContract`: `PromiseInv`, what a finished command has returned, is inductive
  in the steps of the contract, and each message is one class of what it allows.
  So they hold for any transport that keeps the contract.
* **Readings.** `BootTimeTracks` follows from what a report knows of the past: no
  clock in it was started after it, and an uptime is short of the truth by less
  than a second; the rest is arithmetic. The other three properties speak of a
  snapshot that is kept, and one invariant serves them: nothing that was read for it
  makes a model fail (`KeptReadable`). `StatusAlwaysAgrees`
  compares the two readers entity by entity, and `ReadingsOnlyUnreadableFails` rests
  on `RaisesOverUnreadable`, which goes through the kinds of oddity.
  `ReadingsOddFieldDisturbsOne` has three parts. That nothing raises
  (`NothingShownRaises`) is about single readings: where a `value_fn` computes, what
  it computes with is there or it is not asked. That one entity at most is disturbed
  is about the tables: the fields of a key are listed (`TablesNameFields`), no two
  keys of a device share one (`FieldsAreOfOneKey`, `FieldsAreOfOneWanKey`), an entity
  that reads none of the odd fields shows what it would have (`HubIsUndisturbed`,
  `WanIsUndisturbed`, `SfpIsUndisturbed`), and so two disturbed entities are the same
  one (`FieldDisturbsOne`). The third is about the route: an oddity takes one WAN at most
  out of those in use (`OddInUse`), and the first of the others is the first of them all
  unless it was that one (`RouteIsUndisturbed`). `GroupsAreDistinct` is assumed throughout: no WAN or port
  is called like one of the other blocks.

`PROJECT.json` lists the theorems with the run that shows each on an instance.

Only model-checked: liveness (`EveryCallReturns`, `RecoversByItself`, `RejectionIsNoticed`, `EntitiesArrive`), which needs fairness and `ENABLED` and is outside the reach of
the prover; and that the code violates the properties of section 4, which are proved
only in the restricted forms named there.

## 6. Plan

Done: the modules above, in the order transport, entry, trust, entities,
coordinator, readings, controls, so that the parts whose failure costs most (a
command carried out twice, a lost credential change, a wrong pin) came first. What
is left to add, in this order:

1. **Coordinator and entry.** `RefreshContract` justifies the one-step refreshes of
   `EntryLifecycle`; a refinement of that module by `Coordinator` itself would
   also carry its reloads over.
2. **Two hosts in `CertTrust`.** A run of two flows at a time, and the `wrong_device`
   abort. With four flows open at once the states are more than a run can visit.
3. **Removal of an entry** in `EntryLifecycle`, and an unload that fails.

## 7. What is not modelled

* *Diagnostics:* one call that copies the snapshot and redacts keys by a fixed list.
* *Development scripts:* batch tools over files, no part of the running system.
* *Command line and MCP server:* environment variables, arguments, the framing of
  MCP, and the layout of the tables.
* *Entry:* removal, an unload that fails, the pruning of entities of withdrawn kinds.
* *Trust:* the parsing of fingerprints, the first-time user flow (its result is the
  initial state), and a second console.
* *Texts*, translations, units, icons, and Home Assistant itself beyond the rules
  named above.
