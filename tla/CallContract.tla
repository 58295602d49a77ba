--------------------------- MODULE CallContract ----------------------------
(* What a caller of the gateway library is promised about one call.         *)
(*                                                                          *)
(* A call is begun, the console may carry out the command it stands for,    *)
(* and the call returns one typed outcome.  The promise is about how the    *)
(* outcome relates to what happened on the console: success is never        *)
(* claimed for a command that was not carried out, a refusal leaves the     *)
(* console untouched, and no call has its command carried out twice.        *)

EXTENDS Naturals

CONSTANTS Calls,   \* concurrent users of one client object
          Writes   \* those whose call is a command (GatewayTransport.send)

VARIABLES phase,     \* phase[c]: "idle", "pending" or "done"
          executed,  \* executed[c]: how often the console ran c's command
          result     \* result[c]: the outcome of c's last call

contractVars == <<phase, executed, result>>

\* The exceptions of exceptions.py and tls.py, "ok" for a normal return, and
\* "untyped" for any exception that is none of them.
Outcomes == {"ok", "auth", "capability", "api", "connection", "mismatch", "untyped"}

\* The console refused the caller, or was never spoken to.
Refusals == {"auth", "capability", "mismatch"}

\* A failure that does not tell whether the command got through.
Ambiguous == {"api", "connection"}

ContractInit ==
    /\ phase = [c \in Calls |-> "idle"]
    /\ executed = [c \in Calls |-> 0]
    /\ result = [c \in Calls |-> "none"]

Begin(c) ==
    /\ phase[c] # "pending"
    /\ phase' = [phase EXCEPT ![c] = "pending"]
    /\ executed' = [executed EXCEPT ![c] = 0]
    /\ result' = [result EXCEPT ![c] = "none"]

Execute(c) ==
    /\ c \in Writes
    /\ phase[c] = "pending"
    /\ executed[c] = 0
    /\ executed' = [executed EXCEPT ![c] = 1]
    /\ UNCHANGED <<phase, result>>

\* A call that fails ambiguously may have had its command carried out at the
\* very moment the caller gave up on it.
Return(c, r) ==
    /\ phase[c] = "pending"
    /\ c \in Writes /\ r = "ok" => executed[c] = 1
    /\ r \in Refusals => executed[c] = 0
    /\ r = "untyped" => c \notin Writes
    /\ \/ UNCHANGED executed
       \/ /\ c \in Writes
          /\ r \in Ambiguous
          /\ executed[c] = 0
          /\ executed' = [executed EXCEPT ![c] = 1]
    /\ phase' = [phase EXCEPT ![c] = "done"]
    /\ result' = [result EXCEPT ![c] = r]

ContractNext ==
    \E c \in Calls :
        \/ Begin(c)
        \/ Execute(c)
        \/ \E r \in Outcomes : Return(c, r)

ContractSpec == ContractInit /\ [][ContractNext]_contractVars

=============================================================================
