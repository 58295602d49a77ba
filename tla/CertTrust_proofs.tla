-------------------------- MODULE CertTrust_proofs --------------------------
(* Proofs about CertTrust, for any hosts, certificates, modes and flows.    *)

EXTENDS CertTrust, TLAPS

-----------------------------------------------------------------------------
(* The inductive invariant.  A pin reaches entry.data out of a flow, which  *)
(* it entered long before, so each flow has to be known to carry nothing    *)
(* but what its user accepted: reauth what the entry had when it opened,    *)
(* reconfigure what was accepted two forms ago, a repair what was on the    *)
(* form that was last confirmed.                                            *)

Accepted(t) == t.mode = "fingerprint" => t.pin \in confirmed

ReconfInv ==
    /\ reconf.step \in {"reading", "shown"} => reconf.data.mode = "fingerprint"
    /\ reconf.step = "shown" => reconf.data.pin \in Certs
    /\ reconf.step = "credentials" => reconf.data \in Trust /\ Accepted(reconf.data)

RepairInv(k) ==
    /\ repair[k].step = "none" => repair[k].shown = NoPin
    /\ repair[k].step = "shown" => repair[k].shown \in Certs
    /\ repair[k].step = "reading" /\ repair[k].shown # NoPin =>
          repair[k].shown \in confirmed

PinInv ==
    /\ Accepted(trust)
    /\ Accepted(reauth.data)
    /\ ReconfInv
    /\ \A k \in Repairs : RepairInv(k)

\* What the issues say of the entry that raised them.
IssueInv ==
    /\ mismatch.raised => mismatch.got \in Certs
    /\ MismatchIsReported
    /\ MismatchIsWithdrawn
    /\ InsecureIsFlagged

Inv == TypeOK /\ PinInv /\ IssueInv

-----------------------------------------------------------------------------
\* The records that stand for "no flow" and "no issue" are of their types.
LEMMA EmptyTypes ==
    ASSUME TypeOK
    PROVE  /\ AnyHost \in Hosts
           /\ NoTrust \in Trust
           /\ NoPin \notin Certs
           /\ trust \in Settings
<1>1. trust \in Settings /\ trust.host \in Hosts
    BY DEF TypeOK, Trust, Settings
<1>2. AnyHost \in Hosts
    BY <1>1 DEF AnyHost
<1> QED BY <1>1, <1>2, NoPinIsNoCert DEF NoTrust, Trust, Settings, Modes, Pins

\* A new entry is pinned to what its user accepted while it was created.
LEMMA InitInv == Init => Inv
<1> SUFFICES ASSUME Init PROVE Inv
    OBVIOUS
<1>1. trust \in Trust /\ trust.host \in Hosts /\ trust.pin \in Pins
    BY DEF Init, Trust, Settings
<1>2. AnyHost \in Hosts
    BY <1>1 DEF AnyHost
<1>3. NoTrust \in Trust /\ NoTrust \in Settings /\ NoPin \in Pins
    BY <1>2 DEF NoTrust, Trust, Settings, Modes, Pins
<1>4. TypeOK
    BY <1>1, <1>2, <1>3
       DEF Init, TypeOK, NoIssue, NoReconf, NoReauth, NoRepair, Pins
<1>5. PinInv
    BY <1>1 DEF Init, PinInv, Accepted, ReconfInv, RepairInv, NoReconf, NoReauth,
                NoRepair, NoTrust, Trust, Pins
<1>6. IssueInv
    BY DEF Init, IssueInv, NoIssue, MismatchIsReported, MismatchIsWithdrawn,
           InsecureIsFlagged
<1> QED BY <1>4, <1>5, <1>6 DEF Inv

\* What an exchange leaves behind: a mismatch is reported with the pin that was
\* used, and a success withdraws the report.
LEMMA ExchangeReports ==
    ASSUME Inv, Exchange
    PROVE  /\ contact' \in {"ok", "mismatch", "failed"}
           /\ mismatch' \in [raised : BOOLEAN, expected : Pins, got : Pins]
           /\ mismatch'.raised => mismatch'.got \in Certs
           /\ contact' = "mismatch" => mismatch'.raised /\ mismatch'.expected = used.pin
           /\ contact' = "ok" => ~mismatch'.raised
<1>1. /\ used.pin \in Pins /\ served[used.host] \in Certs /\ NoPin \in Pins
      /\ Certs \subseteq Pins
    BY DEF Inv, TypeOK, Trust, Settings, Pins
<1>2. CASE contact' = "ok" /\ Clear
    BY <1>1, <1>2 DEF Clear, NoIssue
<1>3. CASE contact' = "mismatch" /\ Raise
    BY <1>1, <1>3 DEF Raise
<1>4. CASE contact' = "failed" /\ UNCHANGED mismatch
    BY <1>4 DEF Inv, TypeOK, IssueInv
<1> QED BY <1>2, <1>3, <1>4 DEF Exchange

\* Setups and refreshes use the trust and report on it; they change no pin.
LEMMA SetupInv == Inv /\ (StartSetup \/ SetupEnds \/ Poll) => Inv'
<1> SUFFICES ASSUME Inv, StartSetup \/ SetupEnds \/ Poll PROVE Inv'
    OBVIOUS
<1>1. NoTrust \in Trust /\ NoPin \notin Certs /\ NoPin \in Pins
    BY EmptyTypes DEF Inv, Pins
<1>2. /\ trust' = trust /\ confirmed' = confirmed /\ reconf' = reconf
      /\ repair' = repair /\ reauth' \in {reauth, NoReauth} /\ served' = served
    BY DEF StartSetup, SetupEnds, Poll, entryVars
<1>4. TypeOK'
  <2>1. CASE StartSetup
      BY <1>1, <1>2, <2>1 DEF Inv, TypeOK, StartSetup, NoReauth, issueVars
  <2>2. CASE SetupEnds
      BY <1>2, <2>2, ExchangeReports DEF Inv, TypeOK, SetupEnds, ReviewTls, entryVars
  <2>3. CASE Poll
      BY <1>2, <2>3, ExchangeReports DEF Inv, TypeOK, Poll, entryVars
  <2> QED BY <2>1, <2>2, <2>3
<1>5. PinInv'
    BY <1>2 DEF Inv, PinInv, Accepted, ReconfInv, RepairInv, NoReauth, NoTrust
<1>6. IssueInv'
  <2>1. CASE StartSetup
      BY <2>1 DEF Inv, IssueInv, StartSetup, MismatchIsReported, MismatchIsWithdrawn,
                  InsecureIsFlagged, issueVars
  <2>2. CASE SetupEnds
      BY <1>2, <2>2, ExchangeReports
         DEF IssueInv, SetupEnds, ReviewTls, MismatchIsReported, MismatchIsWithdrawn,
             InsecureIsFlagged, entryVars
  <2>3. CASE Poll
      BY <1>2, <2>3, ExchangeReports
         DEF Inv, IssueInv, Poll, MismatchIsReported, MismatchIsWithdrawn,
             InsecureIsFlagged, entryVars
  <2> QED BY <2>1, <2>2, <2>3
<1> QED BY <1>4, <1>5, <1>6 DEF Inv

\* Reconfigure reads the fingerprint it shows, and what it stores was accepted.
LEMMA ReconfigureInv ==
    Inv /\ (ReconfReads \/ ReconfAccept \/ ReconfEnds) => Inv'
<1> SUFFICES ASSUME Inv, ReconfReads \/ ReconfAccept \/ ReconfEnds PROVE Inv'
    OBVIOUS
<1>1. /\ NoTrust \in Trust /\ NoTrust \in Settings /\ NoPin \notin Certs
      /\ trust.pin \in Pins /\ NoPin \in Pins /\ Certs \subseteq Pins
    BY EmptyTypes DEF Inv, Pins, Trust, Settings
<1>2. CASE ReconfReads
  <2> DEFINE read == [reconf.data EXCEPT !.pin = served[reconf.data.host]]
  <2>1. /\ read \in Settings /\ read.pin \in Certs
        /\ read.mode = reconf.data.mode
      BY <1>1 DEF Inv, TypeOK, Settings
  <2>2. reconf.data.mode = "fingerprint"
      BY <1>2 DEF Inv, PinInv, ReconfInv, ReconfReads
  <2>3. \/ reconf' = NoReconf
        \/ reconf' = [step |-> "shown", data |-> read, previous |-> trust.pin]
      BY <1>2 DEF ReconfReads
  <2> HIDE DEF read
  <2>4. reconf' \in [step : {"none", "reading", "shown", "credentials"}, data : Settings,
                     previous : Pins]
      BY <1>1, <2>1, <2>3 DEF NoReconf
  <2>5. ReconfInv'
      BY <2>1, <2>2, <2>3 DEF ReconfInv, NoReconf
  <2>6. TypeOK'
      BY <1>2, <2>4
         DEF Inv, TypeOK, ReconfReads, entryVars, setupVars, issueVars
  <2>7. PinInv'
      BY <1>2, <2>5
         DEF Inv, PinInv, Accepted, ReconfReads, RepairInv, entryVars
  <2> QED BY <1>2, <2>6, <2>7
          DEF Inv, IssueInv, ReconfReads, MismatchIsReported, MismatchIsWithdrawn,
              InsecureIsFlagged, entryVars, setupVars, issueVars
<1>3. CASE ReconfAccept
  <2>1. reconf.data \in Settings /\ reconf.data.pin \in Certs
        /\ reconf.data.mode = "fingerprint"
      BY <1>3 DEF Inv, TypeOK, PinInv, ReconfInv, ReconfAccept
  <2>2. reconf.data \in Trust
      BY <1>1, <2>1 DEF Trust
  <2>3. /\ reconf' = [reconf EXCEPT !.step = "credentials"]
        /\ reconf'.data = reconf.data /\ reconf'.step = "credentials"
      BY <1>3 DEF Inv, TypeOK, ReconfAccept
  <2>4. TypeOK'
      BY <1>3, <2>1, <2>3
         DEF Inv, TypeOK, ReconfAccept, entryVars, setupVars, issueVars
  <2>5. PinInv'
      BY <1>3, <2>1, <2>2, <2>3
         DEF Inv, PinInv, Accepted, ReconfAccept, ReconfInv, RepairInv, entryVars
  <2> QED BY <1>3, <2>4, <2>5
          DEF Inv, IssueInv, ReconfAccept, MismatchIsReported, MismatchIsWithdrawn,
              InsecureIsFlagged, entryVars, setupVars, issueVars
<1>4. CASE ReconfEnds
  <2>1. /\ reconf.data \in Trust /\ Accepted(reconf.data)
        /\ trust' = reconf.data /\ due' = TRUE /\ reconf' = NoReconf
      BY <1>4 DEF Inv, PinInv, ReconfInv, ReconfEnds, Store
  <2>2. TypeOK'
      BY <1>1, <1>4, <2>1
         DEF Inv, TypeOK, ReconfEnds, NoReconf, setupVars, issueVars
  <2>3. PinInv'
      BY <1>4, <2>1
         DEF Inv, PinInv, Accepted, ReconfEnds, ReconfInv, RepairInv, NoReconf
  <2> QED BY <1>4, <2>1, <2>2, <2>3
          DEF Inv, IssueInv, ReconfEnds, MismatchIsReported, MismatchIsWithdrawn,
              InsecureIsFlagged, setupVars, issueVars
<1> QED BY <1>2, <1>3, <1>4

\* Reconfigure without pinning carries no fingerprint; with pinning, it reads one
\* before it asks for credentials.
LEMMA ReconfSubmitInv ==
    ASSUME Inv, NEW h \in Hosts, NEW m \in Offered, ReconfSubmit(h, m)
    PROVE  Inv'
<1> DEFINE new == [host |-> h, mode |-> m, pin |-> NoPin]
<1>1. /\ m \in Modes /\ NoPin \in Pins
      /\ new \in Settings
      /\ m # "fingerprint" => new \in Trust
    BY OfferedAreModes DEF Modes, Pins, Settings, Trust
<1>2. TypeOK'
    BY <1>1 DEF Inv, TypeOK, ReconfSubmit, NextStep, entryVars, setupVars, issueVars
<1>3. PinInv'
    BY <1>1 DEF Inv, PinInv, Accepted, ReconfSubmit, NextStep, ReconfInv, RepairInv,
                entryVars
<1> QED BY <1>2, <1>3
        DEF Inv, IssueInv, ReconfSubmit, MismatchIsReported, MismatchIsWithdrawn,
            InsecureIsFlagged, entryVars, setupVars, issueVars

\* Reauth stores what the entry had when the flow opened, which its user had
\* accepted before.
LEMMA ReauthInv == Inv /\ (ReauthOpens \/ ReauthValidate \/ ReauthEnds) => Inv'
<1> SUFFICES ASSUME Inv, ReauthOpens \/ ReauthValidate \/ ReauthEnds PROVE Inv'
    OBVIOUS
<1>1. NoTrust \in Trust /\ NoTrust.mode # "fingerprint"
    BY EmptyTypes DEF Inv, NoTrust
<1>2. /\ trust' \in {trust, reauth.data}
      /\ \/ due' = due /\ trust' = trust
         \/ due' = TRUE
      /\ reauth'.data \in {trust, reauth.data, NoTrust}
      /\ reauth' \in [step : {"none", "form", "validating"}, data : Trust]
      /\ UNCHANGED <<served, setupVars, issueVars, reconf, repair, confirmed>>
    BY <1>1 DEF Inv, TypeOK, ReauthOpens, ReauthValidate, ReauthEnds, Store, NoReauth,
                entryVars
<1>3. TypeOK'
    BY <1>2 DEF Inv, TypeOK, setupVars, issueVars
<1>4. PinInv'
    BY <1>1, <1>2 DEF Inv, PinInv, Accepted, ReconfInv, RepairInv
<1> QED BY <1>2, <1>3, <1>4
        DEF Inv, IssueInv, MismatchIsReported, MismatchIsWithdrawn, InsecureIsFlagged,
            setupVars, issueVars

RepairType == [step : {"none", "shown", "reading"}, host : Hosts, expected : Pins,
               shown : Pins]

\* One repair flow moves: what it shows was served, and what it is confirmed with
\* was accepted.
LEMMA RepairMoves ==
    ASSUME Inv, NEW k \in Repairs, NEW r \in RepairType,
           repair' = [repair EXCEPT ![k] = r],
           confirmed \subseteq confirmed',
           r.step = "none" => r.shown = NoPin,
           r.step = "shown" => r.shown \in Certs,
           r.step = "reading" /\ r.shown # NoPin => r.shown \in confirmed'
    PROVE  /\ repair' \in [Repairs -> RepairType]
           /\ \A j \in Repairs : RepairInv(j)'
<1>1. repair \in [Repairs -> RepairType]
    BY DEF Inv, TypeOK, RepairType
<1>2. ASSUME NEW j \in Repairs PROVE RepairInv(j)'
  <2>1. CASE j = k
      BY <1>1, <2>1 DEF RepairInv
  <2>2. CASE j # k
      BY <1>1, <2>2 DEF Inv, PinInv, RepairInv
  <2> QED BY <2>1, <2>2
<1> QED BY <1>1, <1>2

\* A repair opens on a certificate the gateway served, or on none.
LEMMA RepairOpensInv == Inv /\ (MismatchOpens \/ InsecureOpens) => Inv'
<1> SUFFICES ASSUME Inv, MismatchOpens \/ InsecureOpens PROVE Inv'
    OBVIOUS
<1>1. trust.host \in Hosts /\ repair \in [Repairs -> RepairType]
    BY DEF Inv, TypeOK, Trust, Settings, RepairType
<1>2. "mismatch" \in Repairs /\ "insecure" \in Repairs
    BY DEF Repairs
<1>3. repair' \in [Repairs -> RepairType] /\ \A k \in Repairs : RepairInv(k)'
  <2>1. CASE MismatchOpens
    <3> DEFINE r == [repair["mismatch"] EXCEPT !.step = "shown",
                        !.expected = mismatch.expected, !.shown = mismatch.got]
    <3>1. /\ mismatch.got \in Certs /\ mismatch.got \in Pins
          /\ mismatch.expected \in Pins
        BY <2>1 DEF Inv, TypeOK, IssueInv, MismatchOpens, Pins
    <3>2. r \in RepairType /\ r.step = "shown" /\ r.shown \in Certs
        BY <1>1, <1>2, <3>1 DEF RepairType
    <3>3. repair' = [repair EXCEPT !["mismatch"] = r] /\ confirmed' = confirmed
        BY <2>1 DEF MismatchOpens
    <3> HIDE DEF r
    <3> QED BY <1>2, <3>2, <3>3, RepairMoves
  <2>2. CASE InsecureOpens
    <3> DEFINE r == [repair["insecure"] EXCEPT !.step = "reading", !.host = trust.host]
    <3>1. r \in RepairType /\ r.step = "reading" /\ r.shown = repair["insecure"].shown
        BY <1>1, <1>2 DEF RepairType
    <3>2. repair["insecure"].shown = NoPin
        BY <1>2, <2>2 DEF Inv, PinInv, RepairInv, InsecureOpens
    <3>3. repair' = [repair EXCEPT !["insecure"] = r] /\ confirmed' = confirmed
        BY <2>2 DEF InsecureOpens
    <3> HIDE DEF r
    <3> QED BY <1>2, <3>1, <3>2, <3>3, RepairMoves
  <2> QED BY <2>1, <2>2
<1>4. UNCHANGED <<served, entryVars, setupVars, issueVars, reconf, reauth, confirmed>>
    BY DEF MismatchOpens, InsecureOpens
<1>5. TypeOK'
    BY <1>3, <1>4 DEF Inv, TypeOK, RepairType, entryVars, setupVars, issueVars
<1>6. PinInv'
    BY <1>3, <1>4 DEF Inv, PinInv, Accepted, ReconfInv, entryVars
<1> QED BY <1>4, <1>5, <1>6
        DEF Inv, IssueInv, MismatchIsReported, MismatchIsWithdrawn,
            InsecureIsFlagged, entryVars, setupVars, issueVars

\* The user accepts what the form shows, and the gateway is read again.
LEMMA RepairConfirmInv ==
    ASSUME Inv, NEW k \in Repairs, RepairConfirm(k)
    PROVE  Inv'
<1> DEFINE r == [repair[k] EXCEPT !.step = "reading", !.host = trust.host]
<1>1. trust.host \in Hosts /\ repair \in [Repairs -> RepairType]
    BY DEF Inv, TypeOK, Trust, Settings, RepairType
<1>2. repair[k].shown \in Certs /\ repair[k].shown \in confirmed'
    BY DEF Inv, PinInv, RepairInv, RepairConfirm
<1>3. r \in RepairType /\ r.step = "reading" /\ r.shown = repair[k].shown
    BY <1>1 DEF RepairType
<1>4. /\ repair' = [repair EXCEPT ![k] = r]
      /\ confirmed \subseteq confirmed' /\ confirmed' \subseteq confirmed \cup Certs
      /\ UNCHANGED <<served, entryVars, setupVars, issueVars, reconf, reauth>>
    BY <1>2 DEF RepairConfirm
<1> HIDE DEF r
<1>5. repair' \in [Repairs -> RepairType] /\ \A j \in Repairs : RepairInv(j)'
    BY <1>2, <1>3, <1>4, RepairMoves
<1>6. TypeOK'
    BY <1>4, <1>5 DEF Inv, TypeOK, RepairType, entryVars, setupVars, issueVars
<1>7. PinInv'
    BY <1>4, <1>5 DEF Inv, PinInv, Accepted, ReconfInv, entryVars
<1> QED BY <1>4, <1>6, <1>7
        DEF Inv, IssueInv, MismatchIsReported, MismatchIsWithdrawn, InsecureIsFlagged,
            entryVars, setupVars, issueVars

\* What is pinned was shown, accepted, and is still served.
LEMMA RepairReadsInv ==
    ASSUME Inv, NEW k \in Repairs, RepairReads(k)
    PROVE  Inv'
<1> DEFINE current == served[repair[k].host]
           pinned == [trust EXCEPT !.mode = "fingerprint", !.pin = current]
           r == [repair[k] EXCEPT !.step = "shown", !.shown = current]
<1>1. /\ repair \in [Repairs -> RepairType] /\ trust \in Settings
      /\ NoPin \notin Certs /\ NoPin \in Pins /\ Certs \subseteq Pins
    BY EmptyTypes DEF Inv, TypeOK, RepairType, Pins
<1>2. current \in Certs
    BY <1>1 DEF Inv, TypeOK, RepairType
<1>3. /\ NoRepair \in RepairType /\ NoRepair.step = "none" /\ NoRepair.shown = NoPin
      /\ r \in RepairType /\ r.step = "shown" /\ r.shown = current
    BY <1>1, <1>2, EmptyTypes DEF Inv, NoRepair, RepairType
<1>4. /\ UNCHANGED <<served, setupVars, reconf, reauth, confirmed>>
      /\ repair[k].step = "reading"
      /\ repair' \in {[repair EXCEPT ![k] = NoRepair], [repair EXCEPT ![k] = r]}
      /\ \/ /\ current = repair[k].shown
            /\ trust' = pinned /\ due' = TRUE
            /\ mismatch' \in {mismatch, NoIssue}
            /\ insecure' \in BOOLEAN
         \/ UNCHANGED <<entryVars, issueVars>>
    BY DEF RepairReads, MayPin, Store, Pinned, Inv, TypeOK
<1>5. pinned \in Trust /\ pinned.mode = "fingerprint" /\ pinned.pin = current
    BY <1>1, <1>2 DEF Trust, Settings, Modes
<1> HIDE DEF current, pinned, r
<1>6. repair' \in [Repairs -> RepairType] /\ \A j \in Repairs : RepairInv(j)'
    BY <1>2, <1>3, <1>4, RepairMoves
<1>7. TypeOK'
  <2>1. NoIssue \in [raised : BOOLEAN, expected : Pins, got : Pins]
      BY <1>1 DEF NoIssue
  <2>2. CASE /\ trust' = pinned /\ due' = TRUE
             /\ mismatch' \in {mismatch, NoIssue}
             /\ insecure' \in BOOLEAN
      BY <1>4, <1>5, <1>6, <2>1, <2>2 DEF Inv, TypeOK, RepairType, setupVars
  <2>3. CASE UNCHANGED <<entryVars, issueVars>>
      BY <1>4, <1>6, <2>3
         DEF Inv, TypeOK, RepairType, entryVars, setupVars, issueVars
  <2> QED BY <1>4, <2>2, <2>3
<1>8. Accepted(trust)'
    BY <1>1, <1>2, <1>4, <1>5 DEF Inv, PinInv, RepairInv, Accepted, entryVars
<1>9. PinInv'
    BY <1>4, <1>6, <1>8 DEF Inv, PinInv, Accepted, ReconfInv
<1> QED BY <1>4, <1>7, <1>9
        DEF Inv, IssueInv, NoIssue, MismatchIsReported, MismatchIsWithdrawn,
            InsecureIsFlagged, entryVars, setupVars, issueVars

\* Every step keeps the invariant.
LEMMA StepInv == Inv /\ [Next]_vars => Inv'
<1> SUFFICES ASSUME Inv, [Next]_vars PROVE Inv'
    OBVIOUS
<1>1. CASE StartSetup \/ SetupEnds \/ Poll BY <1>1, SetupInv
<1>2. ASSUME NEW h \in Hosts, NEW m \in Offered, ReconfSubmit(h, m) PROVE Inv'
    BY <1>2, ReconfSubmitInv
<1>3. CASE ReconfReads \/ ReconfAccept \/ ReconfEnds BY <1>3, ReconfigureInv
<1>4. CASE ReauthOpens \/ ReauthValidate \/ ReauthEnds BY <1>4, ReauthInv
<1>5. CASE MismatchOpens \/ InsecureOpens BY <1>5, RepairOpensInv
<1>6. ASSUME NEW k \in Repairs, RepairConfirm(k) \/ RepairReads(k) PROVE Inv'
    BY <1>6, RepairConfirmInv, RepairReadsInv
<1>7. ASSUME NEW h \in Hosts, NEW c \in Certs, Serve(h, c) PROVE Inv'
    BY <1>7 DEF Serve, Inv, TypeOK, PinInv, Accepted, ReconfInv, RepairInv, IssueInv,
                MismatchIsReported, MismatchIsWithdrawn, InsecureIsFlagged, entryVars,
                setupVars, issueVars
<1>8. CASE UNCHANGED vars
    BY <1>8 DEF vars, Inv, TypeOK, PinInv, Accepted, ReconfInv, RepairInv, IssueInv,
                MismatchIsReported, MismatchIsWithdrawn, InsecureIsFlagged
<1> QED BY <1>1, <1>2, <1>3, <1>4, <1>5, <1>6, <1>7, <1>8 DEF Next

\* The inductive invariant behind the theorems about certificate trust.
THEOREM Invariance == Spec => []Inv
BY InitInv, StepInv, PTL DEF Spec

\* The types hold, and an entry in fingerprint mode always has a fingerprint.
THEOREM TypeCorrect == Spec => []TypeOK
BY Invariance, PTL DEF Inv

\* An entry never accepts a certificate that no user has accepted on a form.
THEOREM PinsAreConfirmed == Spec => []PinWasConfirmed
<1>1. Inv => PinWasConfirmed
    BY DEF Inv, PinInv, Accepted, PinWasConfirmed
<1> QED BY <1>1, Invariance, PTL

\* A mismatch is always reported, with the pin that was used.
THEOREM MismatchesAreReported == Spec => []MismatchIsReported
BY Invariance, PTL DEF Inv, IssueInv

\* The report is withdrawn when the gateway is heard again.
THEOREM ReportsAreWithdrawn == Spec => []MismatchIsWithdrawn
BY Invariance, PTL DEF Inv, IssueInv

\* An entry set up from what is stored is flagged exactly when it verifies nothing.
THEOREM InsecureEntriesAreFlagged == Spec => []InsecureIsFlagged
BY Invariance, PTL DEF Inv, IssueInv

\* What is confirmed stays confirmed, and a setup uses what it had or what is stored.
LEMMA ConfirmedOnlyGrows ==
    ASSUME Inv, [Next]_vars
    PROVE  confirmed \subseteq confirmed' /\ used' \in {used, trust}
<1>1. CASE \/ StartSetup \/ SetupEnds \/ Poll \/ ReconfReads \/ ReconfAccept \/ ReconfEnds
           \/ ReauthOpens \/ ReauthValidate \/ ReauthEnds \/ MismatchOpens \/ InsecureOpens
           \/ UNCHANGED vars
    BY <1>1 DEF StartSetup, SetupEnds, Poll, ReconfReads, ReconfAccept, ReconfEnds,
                ReauthOpens, ReauthValidate, ReauthEnds, MismatchOpens, InsecureOpens,
                vars, setupVars
<1>2. CASE \/ \E h \in Hosts, m \in Offered : ReconfSubmit(h, m)
           \/ \E k \in Repairs : RepairConfirm(k) \/ RepairReads(k)
           \/ \E h \in Hosts, c \in Certs : Serve(h, c)
    BY <1>2 DEF ReconfSubmit, RepairConfirm, RepairReads, Serve, setupVars
<1> QED BY <1>1, <1>2 DEF Next

\* An exchange under a trust whose pin was accepted meets an accepted certificate.
LEMMA AcceptedIsConfirmed ==
    ASSUME NEW t, Accepted(t), Accepts(t)
    PROVE  Confirmed(t)
BY DEF Accepted, Accepts, Confirmed

\* No setup, poll, reconfigure or reauth gets an answer from, or hands a credential
\* to, a gateway whose certificate no user has accepted, unless the entry pins none.
THEOREM OnlyConfirmedAreHeard == Spec => OnlyConfirmedIsHeard
<1>1. Init => Accepted(used)
    BY DEF Init, Accepted, Trust
<1>2. Inv /\ Accepted(used) /\ [Next]_vars => Accepted(used)'
    BY ConfirmedOnlyGrows DEF Accepted, Inv, PinInv
<1>3. Inv /\ Accepted(used) /\ [Next]_vars =>
         [/\ (SetupEnds \/ Poll) /\ contact' = "ok" => Confirmed(used)
          /\ ReconfEnds => Confirmed(reconf.data)
          /\ ReauthEnds /\ reauth'.step = "none" => Confirmed(reauth.data)]_vars
  <2> SUFFICES ASSUME Inv, Accepted(used)
               PROVE  /\ (SetupEnds \/ Poll) /\ contact' = "ok" => Confirmed(used)
                      /\ ReconfEnds => Confirmed(reconf.data)
                      /\ ReauthEnds /\ reauth'.step = "none" => Confirmed(reauth.data)
      OBVIOUS
  <2>1. ASSUME SetupEnds \/ Poll, contact' = "ok"
        PROVE  Accepts(used)
      BY <2>1 DEF SetupEnds, Poll, Exchange
  <2>2. ASSUME ReconfEnds
        PROVE  Accepts(reconf.data) /\ Accepted(reconf.data)
      BY <2>2 DEF ReconfEnds, Inv, PinInv, ReconfInv
  <2>3. ASSUME ReauthEnds, reauth'.step = "none"
        PROVE  Accepts(reauth.data) /\ Accepted(reauth.data)
      BY <2>3 DEF ReauthEnds, Inv, TypeOK, PinInv
  <2> QED BY <2>1, <2>2, <2>3, AcceptedIsConfirmed
<1> QED BY <1>1, <1>2, <1>3, Invariance, PTL DEF Spec, OnlyConfirmedIsHeard

-----------------------------------------------------------------------------
(* The entry as EntryLifecycle knows it: what is stored is the trust, what  *)
(* a setup is given is the trust it uses, and due is the reload on its way. *)

Contract == INSTANCE EntryContract WITH
    Stored <- Trust, stored <- trust, given <- used, due <- due

\* Whatever a flow stores is a trust, and a reload for it is due.
LEMMA FlowsStore ==
    ASSUME Inv, Inv', ReconfEnds \/ ReauthEnds \/ \E k \in Repairs : RepairReads(k)
    PROVE  UNCHANGED <<trust, used, due>> \/ \E t \in Trust : Contract!Store(t)
<1>1. trust' \in Trust
    BY DEF Inv, TypeOK
<1>2. UNCHANGED used /\ (due' = TRUE \/ UNCHANGED <<trust, due>>)
    BY DEF ReconfEnds, ReauthEnds, RepairReads, Store, setupVars, entryVars
<1> QED BY <1>1, <1>2 DEF Contract!Store

\* Every step that touches the stored or the used trust is one the contract allows.
LEMMA NextContract ==
    ASSUME Inv, Inv', [Next]_vars
    PROVE  [Contract!ContractNext]_(Contract!contractVars)
<1>1. CASE StartSetup
  <2>1. used' = trust /\ trust' = trust /\ due' = FALSE
      BY <1>1 DEF StartSetup
  <2> QED BY <2>1 DEF Contract!ContractNext, Contract!Give
<1>2. CASE ReconfEnds \/ ReauthEnds \/ \E k \in Repairs : RepairReads(k)
  <2> QED BY <1>2, FlowsStore DEF Contract!ContractNext, Contract!contractVars
<1>3. CASE \/ SetupEnds \/ Poll \/ ReconfReads \/ ReconfAccept
           \/ ReauthOpens \/ ReauthValidate \/ MismatchOpens \/ InsecureOpens
           \/ UNCHANGED vars
  <2>1. UNCHANGED <<trust, used, due>>
      BY <1>3 DEF SetupEnds, Poll, ReconfReads, ReconfAccept, ReauthOpens, ReauthValidate,
                  MismatchOpens, InsecureOpens, vars, entryVars, setupVars
  <2> QED BY <2>1 DEF Contract!contractVars
<1>4. CASE \/ \E h \in Hosts, m \in Offered : ReconfSubmit(h, m)
           \/ \E k \in Repairs : RepairConfirm(k)
           \/ \E h \in Hosts, c \in Certs : Serve(h, c)
  <2>1. UNCHANGED <<trust, used, due>>
      BY <1>4 DEF ReconfSubmit, RepairConfirm, Serve, entryVars, setupVars
  <2> QED BY <2>1 DEF Contract!contractVars
<1> QED BY <1>1, <1>2, <1>3, <1>4 DEF Next

\* The four flows and the setups keep the contract of an entry, the one
\* EntryLifecycle is proved to keep with all its reloads, tasks and options:
\* the flag due is not an assumption of this module about the other.
THEOREM TrustKeepsContract == Spec => Contract!ContractSpec
<1>1. Init /\ Inv => Contract!ContractInit
    BY DEF Init, Inv, TypeOK, Contract!ContractInit
<1>2. Inv /\ Inv' /\ [Next]_vars => [Contract!ContractNext]_(Contract!contractVars)
    BY NextContract
<1> QED BY <1>1, <1>2, InitInv, Invariance, PTL DEF Spec, Contract!ContractSpec

\* A setup that no reload is due for uses the trust that is stored: no certificate
\* is accepted under a trust that a flow has since replaced, but for that moment.
THEOREM StoredTrustIsUsed == Spec => []Contract!UpToDateOrDue
<1>1. Contract!ContractInit => Contract!UpToDateOrDue
    BY DEF Contract!ContractInit, Contract!UpToDateOrDue
<1>2. Contract!UpToDateOrDue /\ [Contract!ContractNext]_(Contract!contractVars)
         => Contract!UpToDateOrDue'
    BY DEF Contract!ContractNext, Contract!contractVars, Contract!Give, Contract!Store,
           Contract!ComesDue, Contract!UpToDateOrDue
<1>3. Contract!ContractSpec => []Contract!UpToDateOrDue
    BY <1>1, <1>2, PTL DEF Contract!ContractSpec
<1> QED BY <1>3, TrustKeepsContract

-----------------------------------------------------------------------------
(* The two promises the runs find broken, and what it takes to break them:  *)
(* another flow that stores while reauth, or reconfigure, is open.  Home    *)
(* Assistant lets users open several flows of an entry at once.             *)

\* Nothing else stores a trust while reauth is open.
ReauthAlone == [][reauth.step # "none" /\ trust' # trust => ReauthEnds]_vars

\* Nothing else stores a trust while reconfigure is open.
ReconfigureAlone == [][reconf.step # "none" /\ trust' # trust => ReconfEnds]_vars

\* What reconfigure has on its last form, when it replaces one pin by another.
ReconfigureShowsBoth ==
    [][ReconfEnds /\ trust.mode = "fingerprint" /\ trust'.mode = "fingerprint" =>
          {trust.pin, trust'.pin} = {reconf.previous, reconf.data.pin}]_vars

\* A reauth in which nothing else stores still has the trust of the entry.
ReauthCopyIsTrust == reauth.step # "none" => reauth.data = trust

\* A reconfigure in which nothing else stores still knows what it replaces.
ReconfPreviousIsPin ==
    /\ reconf.step = "shown" => reconf.previous = trust.pin
    /\ reconf.step = "credentials" /\ reconf.data.mode = "fingerprint" =>
          reconf.previous = trust.pin

\* Apart from its own opening and ending, a step leaves the reauth that is open
\* what it had, or closes it.
LEMMA ReauthStep ==
    ASSUME Inv, [Next]_vars
    PROVE  \/ reauth' \in {reauth, NoReauth}
           \/ ReauthOpens
           \/ ReauthEnds
           \/ ReauthValidate
<1>1. CASE \/ StartSetup \/ SetupEnds \/ Poll \/ ReconfReads \/ ReconfAccept \/ ReconfEnds
           \/ ReauthOpens \/ ReauthValidate \/ ReauthEnds \/ MismatchOpens \/ InsecureOpens
           \/ UNCHANGED vars
    BY <1>1 DEF StartSetup, SetupEnds, Poll, ReconfReads, ReconfAccept, ReconfEnds,
                MismatchOpens, InsecureOpens, vars
<1>2. CASE \/ \E h \in Hosts, m \in Offered : ReconfSubmit(h, m)
           \/ \E k \in Repairs : RepairConfirm(k) \/ RepairReads(k)
           \/ \E h \in Hosts, c \in Certs : Serve(h, c)
    BY <1>2 DEF ReconfSubmit, RepairConfirm, RepairReads, Serve
<1> QED BY <1>1, <1>2 DEF Next

\* Reauth restores an old trust only if another flow stored while it was open.
THEOREM ReauthAloneKeepsTrust == Spec /\ ReauthAlone => ReauthKeepsTrust
<1> DEFINE Alone == [reauth.step # "none" /\ trust' # trust => ReauthEnds]_vars
<1>1. Init => ReauthCopyIsTrust
    BY DEF Init, NoReauth, ReauthCopyIsTrust
<1>2. Inv /\ ReauthCopyIsTrust /\ [Next]_vars /\ Alone => ReauthCopyIsTrust'
  <2> SUFFICES ASSUME Inv, ReauthCopyIsTrust, [Next]_vars, Alone
               PROVE  ReauthCopyIsTrust'
      OBVIOUS
  <2>1. CASE ReauthOpens
      BY <2>1 DEF ReauthOpens, ReauthCopyIsTrust, entryVars
  <2>2. CASE ReauthEnds
      BY <2>2 DEF ReauthEnds, ReauthCopyIsTrust, NoReauth, entryVars, Store, Inv, TypeOK
  <2>3. CASE ReauthValidate
      BY <2>3 DEF ReauthValidate, ReauthCopyIsTrust, Inv, TypeOK, entryVars
  <2>4. CASE reauth' \in {reauth, NoReauth} /\ ~ReauthEnds
    <3>1. reauth'.step # "none" => reauth' = reauth
        BY <2>4 DEF NoReauth
    <3>2. reauth.step # "none" => trust' = trust
        BY <2>4 DEF vars
    <3> QED BY <3>1, <3>2 DEF ReauthCopyIsTrust
  <2> QED BY <2>1, <2>2, <2>3, <2>4, ReauthStep
<1>3. Inv /\ ReauthCopyIsTrust => [ReauthEnds => trust' = trust]_vars
    BY DEF Inv, TypeOK, ReauthCopyIsTrust, ReauthEnds, Store, entryVars
<1> QED BY <1>1, <1>2, <1>3, Invariance, PTL DEF Spec, ReauthAlone, ReauthKeepsTrust

\* Reconfigure keeps what it has read until it stores it.
LEMMA ReconfStep ==
    ASSUME Inv, [Next]_vars
    PROVE  \/ reconf' = reconf
           \/ reconf' = NoReconf
           \/ ReconfReads
           \/ ReconfAccept
           \/ \E h \in Hosts, m \in Offered : ReconfSubmit(h, m)
<1>1. CASE \/ StartSetup \/ SetupEnds \/ Poll \/ ReconfReads \/ ReconfAccept \/ ReconfEnds
           \/ ReauthOpens \/ ReauthValidate \/ ReauthEnds \/ MismatchOpens \/ InsecureOpens
           \/ UNCHANGED vars
    BY <1>1 DEF StartSetup, SetupEnds, Poll, ReauthOpens, ReauthValidate, ReauthEnds,
                ReconfEnds, MismatchOpens, InsecureOpens, vars
<1>2. CASE \/ \E h \in Hosts, m \in Offered : ReconfSubmit(h, m)
           \/ \E k \in Repairs : RepairConfirm(k) \/ RepairReads(k)
           \/ \E h \in Hosts, c \in Certs : Serve(h, c)
    BY <1>2 DEF RepairConfirm, RepairReads, Serve
<1> QED BY <1>1, <1>2 DEF Next

\* Reconfigure replaces a pin its user was not shown only if another flow stored
\* between its form and its end.
THEOREM ReconfigureAloneShowsBoth == Spec /\ ReconfigureAlone => ReconfigureShowsBoth
<1> DEFINE Alone == [reconf.step # "none" /\ trust' # trust => ReconfEnds]_vars
<1>1. Init => ReconfPreviousIsPin
    BY DEF Init, NoReconf, ReconfPreviousIsPin
<1>2. Inv /\ ReconfPreviousIsPin /\ [Next]_vars /\ Alone => ReconfPreviousIsPin'
  <2> SUFFICES ASSUME Inv, ReconfPreviousIsPin, [Next]_vars, Alone
               PROVE  ReconfPreviousIsPin'
      OBVIOUS
  <2>1. CASE reconf' = NoReconf
      BY <2>1 DEF ReconfPreviousIsPin, NoReconf
  <2>2. CASE ReconfReads
      BY <2>2 DEF ReconfReads, ReconfPreviousIsPin, NoReconf, entryVars
  <2>3. CASE ReconfAccept
      BY <2>3 DEF ReconfAccept, ReconfPreviousIsPin, entryVars, Inv, TypeOK
  <2>4. ASSUME NEW h \in Hosts, NEW m \in Offered, ReconfSubmit(h, m)
        PROVE  ReconfPreviousIsPin'
      BY <2>4 DEF ReconfSubmit, NextStep, ReconfPreviousIsPin
  <2>5. CASE reconf' = reconf /\ ~ReconfEnds
    <3>1. reconf.step # "none" => trust' = trust
        BY <2>5 DEF vars
    <3> QED BY <2>5, <3>1 DEF ReconfPreviousIsPin
  <2>6. CASE ReconfEnds
      BY <2>6, <2>1 DEF ReconfEnds
  <2> QED BY <2>1, <2>2, <2>3, <2>4, <2>5, <2>6, ReconfStep
<1>3. Inv /\ ReconfPreviousIsPin =>
         [ReconfEnds /\ trust.mode = "fingerprint" /\ trust'.mode = "fingerprint" =>
             {trust.pin, trust'.pin} = {reconf.previous, reconf.data.pin}]_vars
    BY DEF ReconfPreviousIsPin, ReconfEnds, Store
<1> QED BY <1>1, <1>2, <1>3, Invariance, PTL
        DEF Spec, ReconfigureAlone, ReconfigureShowsBoth

-----------------------------------------------------------------------------
(* Several hosts, which the runs have no room for: a repair reads the       *)
(* gateway at the address the entry has when it begins to read, and stores  *)
(* the pin beside the address the entry has when the answer comes.          *)

\* The entry is not moved to another address while a repair reads.
AddressIsKept ==
    [][(\E k \in Repairs : repair[k].step = "reading") => trust'.host = trust.host]_vars

\* A repair that reads reads the address of the entry.
ReadsItsHost == \A k \in Repairs : repair[k].step = "reading" => repair[k].host = trust.host

\* A step leaves a repair that reads as it is, ends it, shows what it has read, or
\* starts it at the address the entry has at that moment.
LEMMA RepairStep ==
    ASSUME Inv, [Next]_vars, NEW k \in Repairs, repair'[k].step = "reading"
    PROVE  \/ repair'[k] = repair[k]
           \/ repair'[k].host = trust.host /\ trust' = trust
<1>1. repair \in [Repairs -> RepairType]
    BY DEF Inv, TypeOK, RepairType
<1>2. CASE UNCHANGED repair
    BY <1>2
<1>3. CASE MismatchOpens
    BY <1>1, <1>3 DEF MismatchOpens, RepairType
<1>4. CASE InsecureOpens
    BY <1>1, <1>4 DEF InsecureOpens, RepairType, entryVars
<1>5. ASSUME NEW j \in Repairs, RepairConfirm(j)
      PROVE  \/ repair'[k] = repair[k]
             \/ repair'[k].host = trust.host /\ trust' = trust
    BY <1>1, <1>5 DEF RepairConfirm, RepairType, entryVars
<1>6. ASSUME NEW j \in Repairs, RepairReads(j)
      PROVE  repair'[k] = repair[k]
  <2> DEFINE r == [repair[j] EXCEPT !.step = "shown", !.shown = served[repair[j].host]]
  <2>1. r.step = "shown" /\ NoRepair.step = "none"
      BY <1>1 DEF RepairType, NoRepair
  <2>2. repair' \in {[repair EXCEPT ![j] = NoRepair], [repair EXCEPT ![j] = r]}
      BY <1>6 DEF RepairReads
  <2> HIDE DEF r
  <2>3. j # k
      BY <1>1, <2>1, <2>2
  <2> QED BY <1>1, <2>2, <2>3
<1>7. CASE \/ StartSetup \/ SetupEnds \/ Poll \/ ReconfReads \/ ReconfAccept \/ ReconfEnds
           \/ ReauthOpens \/ ReauthValidate \/ ReauthEnds \/ UNCHANGED vars
    BY <1>2, <1>7 DEF StartSetup, SetupEnds, Poll, ReconfReads, ReconfAccept, ReconfEnds,
                      ReauthOpens, ReauthValidate, ReauthEnds, vars
<1>8. CASE \/ \E h \in Hosts, m \in Offered : ReconfSubmit(h, m)
           \/ \E h \in Hosts, c \in Certs : Serve(h, c)
    BY <1>2, <1>8 DEF ReconfSubmit, Serve
<1> QED BY <1>3, <1>4, <1>5, <1>6, <1>7, <1>8 DEF Next

\* The certificate of one console is pinned for another only if the entry was moved
\* while a repair was reading.
THEOREM RepairsPinTheirHost == Spec /\ AddressIsKept => RepairPinsItsHost
<1> DEFINE Kept == [(\E k \in Repairs : repair[k].step = "reading") =>
                       trust'.host = trust.host]_vars
<1>1. Init => ReadsItsHost
    BY DEF Init, NoRepair, ReadsItsHost
<1>2. Inv /\ ReadsItsHost /\ [Next]_vars /\ Kept => ReadsItsHost'
  <2> SUFFICES ASSUME Inv, ReadsItsHost, [Next]_vars, Kept,
                      NEW k \in Repairs, repair'[k].step = "reading"
               PROVE  repair'[k].host = trust'.host
      BY DEF ReadsItsHost
  <2>1. CASE repair'[k] = repair[k]
    <3>1. repair[k].step = "reading" /\ repair[k].host = trust.host
        BY <2>1 DEF ReadsItsHost
    <3>2. trust'.host = trust.host
        BY <3>1 DEF vars
    <3> QED BY <2>1, <3>1, <3>2
  <2> QED BY <2>1, RepairStep
<1>3. Inv /\ ReadsItsHost /\ [Next]_vars =>
         [\A k \in Repairs :
             RepairReads(k) /\ trust' # trust => trust'.pin = served[trust'.host]]_vars
  <2> SUFFICES ASSUME Inv, ReadsItsHost, NEW k \in Repairs, RepairReads(k), trust' # trust
               PROVE  trust'.pin = served[trust'.host]
      OBVIOUS
  <2>1. repair[k].host = trust.host /\ trust \in Settings
      BY EmptyTypes DEF ReadsItsHost, RepairReads, Inv
  <2>2. trust' = [trust EXCEPT !.mode = "fingerprint", !.pin = served[repair[k].host]]
      BY DEF RepairReads, Store, Pinned, entryVars
  <2> QED BY <2>1, <2>2 DEF Settings
<1> QED BY <1>1, <1>2, <1>3, Invariance, PTL DEF Spec, AddressIsKept, RepairPinsItsHost

=============================================================================
