------------------------------ MODULE Controls ------------------------------
(* The control buttons and the commands of the command line, as clients of  *)
(* one transport: what the user is told about a command once its call has   *)
(* ended.  A press and `unifi-gateway speedtest` are calls in Writes, begun *)
(* by Start; everything else on the command line is a read.                 *)

EXTENDS GatewayTransport

\* The exception classes a failed call is an instance of; what a body that does not
\* parse raises is none of the library's.
Classes(outcome) ==
    CASE outcome = "auth"       -> {"GwAuthError", "GwError"}
      [] outcome = "capability" -> {"GwCapabilityError", "GwError"}
      [] outcome = "connection" -> {"GwConnectionError", "GwError"}
      [] outcome = "mismatch"   -> {"GwCertificateMismatch", "GwConnectionError", "GwError"}
      [] outcome = "api"        -> {"GwApiError", "GwError"}
      [] outcome = "untyped"    -> {"ValueError"}

\* Mutant: the base class is asked for before its subclass.
ActionErrorBaseFirst(classes) ==
    IF "GwConnectionError" \in classes THEN "action_cannot_connect"
    ELSE IF "GwCertificateMismatch" \in classes THEN "action_cert_mismatch"
    ELSE IF "GwAuthError" \in classes THEN "action_auth_failed"
    ELSE IF "GwCapabilityError" \in classes THEN "action_not_permitted"
    ELSE "action_failed"

\* action_error: the first class that fits
ActionError(classes) ==
    IF "GwCertificateMismatch" \in classes THEN "action_cert_mismatch"
    ELSE IF "GwAuthError" \in classes THEN "action_auth_failed"
    ELSE IF "GwCapabilityError" \in classes THEN "action_not_permitted"
    ELSE IF "GwConnectionError" \in classes THEN "action_cannot_connect"
    ELSE "action_failed"

\* async_press: silence, a translated error, or whatever else was raised
PressEnds(c) ==
    IF result[c] = "ok" THEN "pressed"
    ELSE IF "GwError" \in Classes(result[c]) THEN ActionError(Classes(result[c]))
    ELSE "traceback"

\* _run and what a command does after it
CommandEnds(c) ==
    IF result[c] = "ok" THEN "printed"
    ELSE IF Classes(result[c]) \cap {"GwError", "ValueError"} # {} THEN "exit_1"
    ELSE "traceback"

-----------------------------------------------------------------------------

\* The messages that say why the console has not carried the command out
Reasons == {"action_cert_mismatch", "action_auth_failed", "action_not_permitted"}

\* All five deny it: "Could not reach the gateway to perform the action." and "The
\* control action failed." do so without a reason of the console's, and may be wrong.
Denials == Reasons \cup {"action_cannot_connect", "action_failed"}

\* What the user is told of a command follows what happened on the console, whatever
\* logins, re-logins and lost answers lay in between: "pressed" and "triggered" if it
\* was carried out, a reason why not only if it was not, and never a traceback.  A
\* foreign certificate is not an unreachable gateway, though its exception is one of a
\* lost connection: the user has a repair to confirm, not a cable to check.
MessageFollowsCommand ==
    \A c \in Writes : pc[c] = "done" =>
        /\ PressEnds(c) \in {"pressed"} \cup Denials
        /\ PressEnds(c) = "pressed" \/ CommandEnds(c) = "printed" => executed[c] = 1
        /\ PressEnds(c) \in Reasons => executed[c] = 0
        /\ PressEnds(c) = "action_cannot_connect" => result[c] = "connection"

=============================================================================
