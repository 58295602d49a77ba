------------------------------ MODULE CertTrust ------------------------------
(* Which certificate a config entry accepts, and how it comes to accept it. *)
(*                                                                          *)
(* The trust is part of entry.data.  Four flows write it: reconfigure,      *)
(* reauth, and the two repairs, each of them asynchronous with the user and *)
(* with the gateway, whose certificate may be reissued or impersonated at   *)
(* any moment.  Setup and polling use it, and raise and withdraw the two    *)
(* repair issues.  That a stored change is followed by a setup that reads   *)
(* it is EntryLifecycle's NoUpdateLost; here it is the flag due.            *)

EXTENDS Naturals

CONSTANTS
    Hosts,              \* addresses the gateway may have
    Certs,              \* certificates that may be served there
    NoPin,              \* no fingerprint stored or shown
    Offered,            \* the TLS modes users choose
    Flows,              \* the flows users open
    ReloadAbortsReauth  \* does Home Assistant abort an open reauth on a reload?

ASSUME NoPinIsNoCert == NoPin \notin Certs
ASSUME FlowsAreKnown == Flows \subseteq {"reconfigure", "reauth", "mismatch", "insecure"}
ASSUME OfferedAreModes == Offered \subseteq {"ca", "insecure", "fingerprint"}
ASSUME ReloadAbortsReauthIsBoolean == ReloadAbortsReauth \in BOOLEAN

VARIABLES
    served,     \* served[h]: the certificate behind address h
    trust,      \* host, TLS mode and fingerprint of entry.data
    used,       \* those the last setup to start was given
    running,    \* "setup", "refreshing" (its first refresh), "up" or "retry"
    due,        \* a reload for a stored change is on its way
    contact,    \* how the last exchange of that setup ended
    mismatch,   \* the certificate issue: the fingerprints it names
    insecure,   \* the tls_insecure issue is raised
    reconf,     \* the reconfigure flow: its step and _data
    reauth,     \* the reauth flow: its step and _data
    repair,     \* repair[k]: the flow of issue k: its step, and what it shows
    confirmed   \* history: the fingerprints a user accepted on a form

entryVars == <<trust, due>>
setupVars == <<used, running, contact>>
issueVars == <<mismatch, insecure>>
vars == <<served, trust, used, running, due, contact, mismatch, insecure, reconf, reauth,
          repair, confirmed>>

Pins == Certs \cup {NoPin}
Modes == {"ca", "insecure", "fingerprint"}
Settings == [host : Hosts, mode : Modes, pin : Pins]
Trust == {t \in Settings : t.mode = "fingerprint" <=> t.pin # NoPin}
Repairs == {"mismatch", "insecure"}

NoIssue == [raised |-> FALSE, expected |-> NoPin, got |-> NoPin]
AnyHost == CHOOSE h \in Hosts : TRUE
NoRepair == [step |-> "none", host |-> AnyHost, expected |-> NoPin, shown |-> NoPin]
NoTrust == [host |-> AnyHost, mode |-> "insecure", pin |-> NoPin]
NoReconf == [step |-> "none", data |-> NoTrust, previous |-> NoPin]
NoReauth == [step |-> "none", data |-> NoTrust]

\* An entry as the flows create it: pinned to what its user confirmed, or not pinned.
Init ==
    /\ served \in [Hosts -> Certs]
    /\ trust \in {t \in Trust : t.mode \in Offered}
    /\ used = trust
    /\ running = "setup"
    /\ due = FALSE
    /\ contact = "none"
    /\ mismatch = NoIssue
    /\ insecure = FALSE
    /\ reconf = NoReconf
    /\ reauth = NoReauth
    /\ repair = [k \in Repairs |-> NoRepair]
    /\ confirmed = {trust.pin} \ {NoPin}

\* Mutant: a fingerprint is asked for, and not compared.
AcceptsAnyCert(t) == t.mode = "fingerprint" => t.pin # NoPin

\* ssl_for_entry hands a pinned connection the one fingerprint it may accept.
Accepts(t) == t.mode = "fingerprint" => served[t.host] = t.pin

-----------------------------------------------------------------------------
(* Setup and polling.                                                       *)

StartSetup ==
    /\ due \/ running = "retry"
    /\ used' = trust
    /\ running' = "setup"
    /\ due' = FALSE
    /\ contact' = "none"
    /\ reauth' = IF ReloadAbortsReauth /\ due /\ reauth.step = "form"
                 THEN NoReauth ELSE reauth
    /\ UNCHANGED <<served, trust, issueVars, reconf, repair, confirmed>>

\* Mutant: the mismatch falls to the branch of its base class GwConnectionError.
RaiseNothing == UNCHANGED mismatch

\* raise_cert_mismatch
Raise == mismatch' = [raised |-> TRUE, expected |-> used.pin, got |-> served[used.host]]

\* Mutant: a repair is left standing once the gateway answers again.
ClearNothing == UNCHANGED mismatch

\* clear_cert_mismatch
Clear == mismatch' = NoIssue

\* How an exchange under the setup's trust can end, and what it says of the pin.
\* "failed" stands for every other failure; it says nothing about certificates.
Exchange ==
    \/ Accepts(used) /\ contact' = "ok" /\ Clear
    \/ ~Accepts(used) /\ contact' = "mismatch" /\ Raise
    \/ contact' = "failed" /\ UNCHANGED mismatch

\* Mutant: the issue of an entry that has meanwhile been pinned stays.
ReviewNeverWithdraws == insecure' = (insecure \/ trust.mode = "insecure")

\* _async_review_tls, for the tls_insecure issue.
ReviewTls == insecure' = (trust.mode = "insecure")

\* async_setup_entry once prepare and probe have answered: the issues are reviewed
\* against the entry as it now is.
SetupEnds ==
    /\ running = "setup"
    /\ Exchange
    /\ IF contact' = "ok" THEN running' = "refreshing" /\ ReviewTls
                          ELSE running' = "retry" /\ UNCHANGED insecure
    /\ UNCHANGED <<served, entryVars, used, reconf, reauth, repair, confirmed>>

\* _async_update_data: the first refresh, which can still fail the setup, and
\* every later one, which cannot.
Poll ==
    /\ running \in {"refreshing", "up"}
    /\ Exchange
    /\ running' = IF running = "up" \/ contact' = "ok" THEN "up" ELSE "retry"
    /\ UNCHANGED <<served, entryVars, used, insecure, reconf, reauth, repair, confirmed>>

\* async_update_entry_and_reload
Store(t) ==
    /\ trust' = t
    /\ due' = TRUE

-----------------------------------------------------------------------------
(* Reconfigure: a connection form; with pinning, the fingerprint read from  *)
(* the gateway, shown and accepted; credentials, tried out under that trust.*)

\* _after_connection
NextStep(m) == IF m = "fingerprint" THEN "reading" ELSE "credentials"

ReconfSubmit(h, m) ==
    /\ "reconfigure" \in Flows
    /\ reconf.step = "none"
    /\ reconf' = [step |-> NextStep(m),
                  data |-> [host |-> h, mode |-> m, pin |-> NoPin],
                  previous |-> NoPin]
    /\ UNCHANGED <<served, entryVars, setupVars, issueVars, reauth, repair, confirmed>>

\* async_probe_fingerprint has answered, or failed: back to the connection form.
ReconfReads ==
    /\ reconf.step = "reading"
    /\ \/ reconf' = [step |-> "shown",
                     data |-> [reconf.data EXCEPT !.pin = served[reconf.data.host]],
                     previous |-> trust.pin]
       \/ reconf' = NoReconf
    /\ UNCHANGED <<served, entryVars, setupVars, issueVars, reauth, repair, confirmed>>

ReconfAccept ==
    /\ reconf.step = "shown"
    /\ reconf' = [reconf EXCEPT !.step = "credentials"]
    /\ confirmed' = confirmed \cup {reconf.data.pin}
    /\ UNCHANGED <<served, entryVars, setupVars, issueVars, reauth, repair>>

\* _auth_step: the credentials are tried out under the trust of _data, and then
\* the whole of it is stored, or the form comes back.  Nothing of the entry is
\* read in between.
ReconfEnds ==
    /\ reconf.step = "credentials"
    /\ Accepts(reconf.data)
    /\ Store(reconf.data)
    /\ reconf' = NoReconf
    /\ UNCHANGED <<served, setupVars, issueVars, reauth, repair, confirmed>>

-----------------------------------------------------------------------------
(* Reauth: the entry's data is copied when the flow opens and stored, with  *)
(* the new credential, when it has been tried out.                          *)

ReauthOpens ==
    /\ "reauth" \in Flows
    /\ reauth.step = "none"
    /\ reauth' = [step |-> "form", data |-> trust]
    /\ UNCHANGED <<served, entryVars, setupVars, issueVars, reconf, repair, confirmed>>

ReauthValidate ==
    /\ reauth.step = "form"
    /\ reauth' = [reauth EXCEPT !.step = "validating"]
    /\ UNCHANGED <<served, entryVars, setupVars, issueVars, reconf, repair, confirmed>>

ReauthEnds ==
    /\ reauth.step = "validating"
    /\ \/ /\ reauth' = [reauth EXCEPT !.step = "form"]
          /\ UNCHANGED entryVars
       \/ /\ Accepts(reauth.data)
          /\ Store(reauth.data)
          /\ reauth' = NoReauth
    /\ UNCHANGED <<served, setupVars, issueVars, reconf, repair, confirmed>>

-----------------------------------------------------------------------------
(* The repairs.  Each shows a fingerprint, and on confirmation reads the    *)
(* gateway again at the address the entry has at that moment.               *)

\* CertMismatchRepairFlow opens on what the issue says.
MismatchOpens ==
    /\ "mismatch" \in Flows
    /\ mismatch.raised
    /\ repair["mismatch"].step = "none"
    /\ repair' = [repair EXCEPT !["mismatch"] =
          [@ EXCEPT !.step = "shown", !.expected = mismatch.expected,
                    !.shown = mismatch.got]]
    /\ UNCHANGED <<served, entryVars, setupVars, issueVars, reconf, reauth, confirmed>>

\* TlsInsecureRepairFlow first reads the fingerprint it is going to show.
InsecureOpens ==
    /\ "insecure" \in Flows
    /\ insecure
    /\ repair["insecure"].step = "none"
    /\ repair' = [repair EXCEPT !["insecure"] =
          [@ EXCEPT !.step = "reading", !.host = trust.host]]
    /\ UNCHANGED <<served, entryVars, setupVars, issueVars, reconf, reauth, confirmed>>

RepairConfirm(k) ==
    /\ repair[k].step = "shown"
    /\ repair' = [repair EXCEPT ![k] =
          [@ EXCEPT !.step = "reading", !.host = trust.host]]
    /\ confirmed' = confirmed \cup {repair[k].shown}
    /\ UNCHANGED <<served, entryVars, setupVars, issueVars, reconf, reauth>>

\* Mutant: the certificate read on confirmation is pinned whatever was shown.
PinsWhateverIsServed(k, current) == repair[k].shown # NoPin

\* The two rules of repairs.py: what is pinned was shown, and is still served.
\* (Before anything is shown, there is nothing to pin.)
MayPin(k, current) == current = repair[k].shown

\* Mutant: the fingerprint a form expected is pinned, not the one it showed.
PinnedAsExpected(k, current) == repair[k].expected

\* The fingerprint handed to _async_pin.
Pinned(k, current) == current

\* async_probe_fingerprint has answered: pin, or show what is served now; or it
\* failed, which ends the flow.  Finishing a flow deletes its issue.
RepairReads(k) ==
    LET current == served[repair[k].host]
    IN  /\ repair[k].step = "reading"
        /\ \/ /\ MayPin(k, current)
              /\ Store([trust EXCEPT !.mode = "fingerprint", !.pin = Pinned(k, current)])
              /\ repair' = [repair EXCEPT ![k] = NoRepair]
              /\ mismatch' = IF k = "mismatch" THEN NoIssue ELSE mismatch
              /\ insecure' = (insecure /\ k # "insecure")
           \/ /\ ~MayPin(k, current)
              /\ repair' = [repair EXCEPT ![k] =
                    [@ EXCEPT !.step = "shown", !.shown = current]]
              /\ UNCHANGED <<entryVars, issueVars>>
           \/ /\ repair' = [repair EXCEPT ![k] = NoRepair]
              /\ UNCHANGED <<entryVars, issueVars>>
        /\ UNCHANGED <<served, setupVars, reconf, reauth, confirmed>>

-----------------------------------------------------------------------------
\* The certificate is reissued, or another machine answers in the gateway's place.
Serve(h, c) ==
    /\ served' = [served EXCEPT ![h] = c]
    /\ UNCHANGED <<entryVars, setupVars, issueVars, reconf, reauth, repair, confirmed>>

Next ==
    \/ StartSetup \/ SetupEnds \/ Poll
    \/ \E h \in Hosts, m \in Offered : ReconfSubmit(h, m)
    \/ ReconfReads \/ ReconfAccept \/ ReconfEnds
    \/ ReauthOpens \/ ReauthValidate \/ ReauthEnds
    \/ MismatchOpens \/ InsecureOpens
    \/ \E k \in Repairs : RepairConfirm(k) \/ RepairReads(k)
    \/ \E h \in Hosts, c \in Certs : Serve(h, c)

Spec == Init /\ [][Next]_vars

-----------------------------------------------------------------------------
(* What is promised.                                                        *)

\* Types; and an entry in fingerprint mode always has a fingerprint, without which
\* ssl_for_entry would raise and setup fail for good.
TypeOK ==
    /\ served \in [Hosts -> Certs]
    /\ trust \in Trust /\ used \in Trust
    /\ running \in {"setup", "refreshing", "up", "retry"}
    /\ due \in BOOLEAN
    /\ contact \in {"none", "ok", "mismatch", "failed"}
    /\ mismatch \in [raised : BOOLEAN, expected : Pins, got : Pins]
    /\ insecure \in BOOLEAN
    /\ reconf \in [step : {"none", "reading", "shown", "credentials"}, data : Settings,
                   previous : Pins]
    /\ reauth \in [step : {"none", "form", "validating"}, data : Trust]
    /\ repair \in [Repairs -> [step : {"none", "shown", "reading"}, host : Hosts,
                               expected : Pins, shown : Pins]]
    /\ confirmed \in SUBSET Certs

\* "Pin only what was shown": the certificate an entry accepts is one its user
\* has accepted on a form, whatever the gateway served between the form, the
\* click and the reading that the click starts.
PinWasConfirmed ==
    trust.mode = "fingerprint" => trust.pin \in confirmed

\* What answers under t is a certificate the user has accepted, if t pins one.
Confirmed(t) == t.mode = "fingerprint" => served[t.host] \in confirmed

\* "the one certificate this entry accepts": a setup, a poll, a reconfigure and a
\* reauth get an answer, and hand over a credential, only where the certificate is
\* one that a user has accepted on a form, also while a flow replaces the pin.
OnlyConfirmedIsHeard ==
    [][/\ (SetupEnds \/ Poll) /\ contact' = "ok" => Confirmed(used)
       /\ ReconfEnds => Confirmed(reconf.data)
       /\ ReauthEnds /\ reauth'.step = "none" => Confirmed(reauth.data)]_vars

\* A certificate mismatch always reaches the user as a repair naming both
\* fingerprints, in setup as well as while polling.
MismatchIsReported ==
    contact = "mismatch" /\ ~due => mismatch.raised /\ mismatch.expected = used.pin

\* The repair does not outlive the condition: the gateway was heard under the
\* entry's trust, so no certificate repair is raised.
MismatchIsWithdrawn ==
    contact = "ok" => ~mismatch.raised

\* An entry set up from what is stored is flagged exactly when it verifies nothing.
InsecureIsFlagged ==
    running \in {"refreshing", "up"} /\ ~due => (insecure <=> trust.mode = "insecure")

\* A reauthentication is about the credential: it leaves the trust of the entry
\* as it finds it, and with it every certificate accepted while it was open.
ReauthKeepsTrust == [][ReauthEnds => trust' = trust]_vars

\* "Never pin what is no longer served": what a repair pins is served at the address it
\* is stored beside.  With several hosts it takes that the entry is not moved while the
\* repair reads, of which CertTrust_proofs has the theorem.
RepairPinsItsHost ==
    [][\A k \in Repairs :
          RepairReads(k) /\ trust' # trust => trust'.pin = served[trust'.host]]_vars

\* What each flow has on the form it was last completed from.
Forms ==
    {{reconf.data.pin, reconf.previous}}
        \cup {{repair[k].expected, repair[k].shown} : k \in Repairs}

\* A pinned certificate is replaced only by a flow that showed both.
ReplacementShowsBoth ==
    [][trust.mode = "fingerprint" /\ trust'.mode = "fingerprint" =>
          \/ trust'.pin = trust.pin
          \/ \E form \in Forms : {trust.pin, trust'.pin} \subseteq form]_vars

=============================================================================
