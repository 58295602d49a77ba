-------------------------- MODULE RefreshContract ---------------------------
(* What whoever looks at an entry may rely on: a refresh happens at once.   *)
(* It succeeds and all of what is shown is replaced, or it fails and        *)
(* nothing of it is; a setup is given up at a failure, an entry that is up  *)
(* only where the credential is refused.  The other modules take setups and *)
(* refreshes for such steps.                                                *)

CONSTANTS Views,   \* the snapshots entities may be shown
          Blank    \* what there is to show before the first

VARIABLES stage,    \* "retry", "setup", "up", "asking" for a credential, or "crashed"
          shown,    \* the snapshot the entities show
          latest,   \* how the latest refresh ended, if there was one
          issue,    \* the certificate repair is raised
          asked     \* the user is being asked for a credential

contractVars == <<stage, shown, latest, issue, asked>>

ContractInit ==
    /\ stage = "retry"
    /\ shown = Blank
    /\ latest = "none"
    /\ issue = FALSE
    /\ asked = FALSE

\* A retry, a reload, or the end of a reauth.
TrySetup ==
    /\ stage # "setup"
    /\ stage' = "setup"
    /\ shown' = Blank
    /\ latest' = "none"
    /\ asked' \in {asked, FALSE}
    /\ UNCHANGED issue

\* A setup that has got its answers withdraws the repair before it refreshes.
Hear ==
    /\ stage = "setup"
    /\ issue' = FALSE
    /\ UNCHANGED <<stage, shown, latest, asked>>

Succeed ==
    /\ stage \in {"setup", "up"}
    /\ stage' = "up"
    /\ shown' \in Views
    /\ latest' = "ok"
    /\ issue' = FALSE
    /\ UNCHANGED asked

\* A setup may fail before it has refreshed anything, and only then by a crash.
Fail(kind) ==
    /\ \/ /\ stage = "up"
          /\ stage' = IF kind = "auth" THEN "asking" ELSE "up"
          /\ latest' = kind
       \/ /\ stage = "setup"
          /\ stage' = IF kind = "auth" THEN "asking" ELSE "retry"
          /\ latest' \in {"none", kind}
       \/ /\ stage = "setup"
          /\ kind = "untyped"
          /\ stage' = "crashed"
          /\ UNCHANGED latest
    /\ issue' = (issue \/ kind = "mismatch")
    /\ asked' = (asked \/ kind = "auth")
    /\ UNCHANGED shown

Failures == {"auth", "capability", "api", "connection", "mismatch", "untyped"}

ContractNext == TrySetup \/ Hear \/ Succeed \/ \E kind \in Failures : Fail(kind)

ContractSpec == ContractInit /\ [][ContractNext]_contractVars

=============================================================================
