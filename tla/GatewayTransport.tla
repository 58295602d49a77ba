-------------------------- MODULE GatewayTransport --------------------------
(* The request path of the aiounifigw library: GatewayTransport with its    *)
(* two authentication strategies, and the console as src/ uses it.          *)
(*                                                                          *)
(* Any number of calls (get_json, send) may be under way on one transport:  *)
(* the coordinator gathers health and sysinfo on the client that also polls *)
(* the device.  They share the strategy's session token and the transport's *)
(* _prepared flag, and yield to each other at every await, that is while an *)
(* exchange with the console is outstanding.  One exchange is a login (GET /*)
(* and POST /api/auth/login under one timeout) or one request.              *)

EXTENDS Naturals

CONSTANTS
    Calls,         \* concurrent users of one transport
    Writes,        \* those that send a command; the others read
    Sessions,      \* the TOKEN cookies the console hands out
    NoToken,       \* _token is None
    CanReauth,     \* TRUE: SessionAuth; FALSE: ApiKeyAuth
    LoginAnswers   \* what the console may say to POST /api/auth/login

ASSUME WritesAreCalls == Writes \subseteq Calls
ASSUME NoTokenIsNoSession == NoToken \notin Sessions
ASSUME CanReauthIsBoolean == CanReauth \in BOOLEAN
ASSUME LoginAnswersAreKnown ==
    LoginAnswers \subseteq {"granted", "refused", "no_verdict", "other_4xx", "page"}

VARIABLES
    prepared,    \* GatewayTransport._prepared
    token,       \* SessionAuth._token
    pc,          \* pc[c]: "idle", "login", "request" (exchange outstanding) or "done"
    relogin,     \* relogin[c]: c has used its one re-login
    sent,        \* sent[c]: the cookie of c's outstanding request
    answer,      \* answer[c]: what the console answered to c's exchange
    result,      \* result[c]: how c's call ended
    credential,  \* the console accepts the configured credential
    live,        \* sessions the console still honours
    executed,    \* executed[c]: how often the console carried out c's command
    rejected,    \* history: the console refused c's credential or session
    disturbed    \* history: while c ran, the credential was bad or the session
                 \* its own re-login obtained was revoked

clientVars == <<prepared, token, pc, relogin, sent, result>>
historyVars == <<rejected, disturbed>>
vars == <<prepared, token, pc, relogin, sent, answer, result, credential, live,
          executed, rejected, disturbed>>

Tokens == Sessions \cup {NoToken}

\* How a call can end: normally, or with one of the exceptions of exceptions.py
\* and tls.py; "untyped" is an exception that is none of them.
WireFailures == {"connection", "mismatch"}
Outcomes == {"ok", "auth", "capability", "api", "untyped"} \cup WireFailures

NoAnswer == [kind |-> "none", session |-> NoToken]
RequestAnswers ==
    {"json", "forbidden", "error", "unauthorized", "redirect", "shell", "garbled"}
Answers == [kind : {"none"} \cup LoginAnswers \cup RequestAnswers, session : Tokens]

Running(c) == pc[c] \in {"login", "request"}

-----------------------------------------------------------------------------
(* The library.                                                             *)

Init ==
    /\ prepared = FALSE
    /\ token = NoToken
    /\ pc = [c \in Calls |-> "idle"]
    /\ relogin = [c \in Calls |-> FALSE]
    /\ sent = [c \in Calls |-> NoToken]
    /\ answer = [c \in Calls |-> NoAnswer]
    /\ result = [c \in Calls |-> "none"]
    /\ credential \in BOOLEAN
    /\ live = {}
    /\ executed = [c \in Calls |-> 0]
    /\ rejected = [c \in Calls |-> FALSE]
    /\ disturbed = [c \in Calls |-> FALSE]

\* Mutant: the retry goes out with the headers of the first attempt.
IssueWithFirstHeaders(c, cookie) ==
    /\ pc' = [pc EXCEPT ![c] = "request"]
    /\ sent' = [sent EXCEPT ![c] = IF sent[c] # NoToken THEN sent[c] ELSE cookie]

\* _request up to its first await: the headers are read from the strategy now,
\* and a login that completes later no longer reaches this request.
Issue(c, cookie) ==
    /\ pc' = [pc EXCEPT ![c] = "request"]
    /\ sent' = [sent EXCEPT ![c] = cookie]

LogIn(c) ==
    /\ pc' = [pc EXCEPT ![c] = "login"]
    /\ UNCHANGED sent

Return(c, outcome) ==
    /\ pc' = [pc EXCEPT ![c] = "done"]
    /\ sent' = [sent EXCEPT ![c] = NoToken]
    /\ result' = [result EXCEPT ![c] = outcome]

NeedsLogin == CanReauth /\ ~prepared

\* Mutant: _prepared is set before the handshake it guards.
StartPreparedEarly(c) ==
    /\ ~Running(c)
    /\ IF NeedsLogin THEN LogIn(c) ELSE Issue(c, token)
    /\ prepared' = TRUE
    /\ relogin' = [relogin EXCEPT ![c] = FALSE]
    /\ answer' = [answer EXCEPT ![c] = NoAnswer]
    /\ result' = [result EXCEPT ![c] = "none"]
    /\ executed' = [executed EXCEPT ![c] = 0]
    /\ rejected' = [rejected EXCEPT ![c] = FALSE]
    /\ disturbed' = [disturbed EXCEPT ![c] = ~credential]
    /\ UNCHANGED <<token, credential, live>>

\* get_json / send up to the first await.  ApiKeyAuth's handshake is empty, so
\* with it the transport is prepared on the spot.
Start(c) ==
    /\ ~Running(c)
    /\ IF NeedsLogin THEN LogIn(c) /\ UNCHANGED prepared
                     ELSE Issue(c, token) /\ prepared' = TRUE
    /\ relogin' = [relogin EXCEPT ![c] = FALSE]
    /\ answer' = [answer EXCEPT ![c] = NoAnswer]
    /\ result' = [result EXCEPT ![c] = "none"]
    /\ executed' = [executed EXCEPT ![c] = 0]
    /\ rejected' = [rejected EXCEPT ![c] = FALSE]
    /\ disturbed' = [disturbed EXCEPT ![c] = ~credential]
    /\ UNCHANGED <<token, credential, live>>

\* _capture keeps the old token when the answer sets none.
Captured(c) == IF answer[c].kind = "granted" THEN answer[c].session ELSE token

LoginNoVerdict == {"no_verdict"}
LoginVerdicts == {"refused", "other_4xx"}

\* The end of _login, back in async_prepare or in _reauth: either the call goes
\* on with its request, without another await in between, or it ends here.
ReceiveLogin(c) ==
    /\ pc[c] = "login"
    /\ answer[c].kind # "none"
    /\ answer' = [answer EXCEPT ![c] = NoAnswer]
    /\ \/ /\ answer[c].kind \in LoginNoVerdict
          /\ Return(c, "connection")
          /\ UNCHANGED <<prepared, token>>
       \/ /\ answer[c].kind \in LoginVerdicts
          /\ Return(c, "auth")
          /\ UNCHANGED <<prepared, token>>
       \/ /\ answer[c].kind \notin LoginNoVerdict \cup LoginVerdicts
          /\ token' = Captured(c)
          /\ IF token' = NoToken
             THEN Return(c, "auth") /\ UNCHANGED prepared
             ELSE /\ Issue(c, token')
                  /\ prepared' = (prepared \/ ~relogin[c])
                  /\ UNCHANGED result
    /\ UNCHANGED <<relogin, credential, live, executed, historyVars>>

\* Mutants: a server error is retried as well; the one re-login is not counted.
RetriesAfterError(c, kind) ==
    kind \in {"unauthorized", "shell", "error"} /\ CanReauth /\ ~relogin[c]
RetriesForever(c, kind) == kind \in {"unauthorized", "shell"} /\ CanReauth

\* A 401 or a login page where the API should be may mean an expired session.
RetriesAfter(c, kind) == kind \in {"unauthorized", "shell"} /\ CanReauth /\ ~relogin[c]

\* Mutants: a login page is taken for a refused credential; a redirect followed
\* to the web UI passes for success.
OutcomeShellIsAuth(kind) ==
    CASE kind = "json"                      -> "ok"
      [] kind \in {"unauthorized", "shell"} -> "auth"
      [] kind = "forbidden"                 -> "capability"
      [] kind = "garbled"                   -> "untyped"
      [] OTHER                              -> "api"
OutcomeRedirectIsOk(kind) ==
    CASE kind \in {"json", "redirect"} -> "ok"
      [] kind = "unauthorized"         -> "auth"
      [] kind = "forbidden"            -> "capability"
      [] kind = "garbled"              -> "untyped"
      [] OTHER                         -> "api"

\* The classification at the end of _call.
OutcomeOf(kind) ==
    CASE kind = "json"         -> "ok"
      [] kind = "unauthorized" -> "auth"
      [] kind = "forbidden"    -> "capability"
      [] kind = "garbled"      -> "untyped"
      [] OTHER                 -> "api"

\* _call once _request has returned.
ReceiveAnswer(c) ==
    /\ pc[c] = "request"
    /\ answer[c].kind # "none"
    /\ answer' = [answer EXCEPT ![c] = NoAnswer]
    /\ IF RetriesAfter(c, answer[c].kind)
       THEN /\ LogIn(c)
            /\ relogin' = [relogin EXCEPT ![c] = TRUE]
            /\ UNCHANGED result
       ELSE Return(c, OutcomeOf(answer[c].kind)) /\ UNCHANGED relogin
    /\ UNCHANGED <<prepared, token, credential, live, executed, historyVars>>

\* _exchange: the timeout expires or the connection fails, at any moment before
\* the answer is read; a certificate mismatch fails the TLS handshake, before
\* anything is sent.
FailExchange(c, failure) ==
    /\ failure = "mismatch" => answer[c].kind = "none"
    /\ answer' = [answer EXCEPT ![c] = NoAnswer]
    /\ Return(c, failure)
    /\ UNCHANGED <<prepared, token, relogin, credential, live, historyVars>>

LoginFails(c, failure) ==
    /\ pc[c] = "login"
    /\ FailExchange(c, failure)
    /\ UNCHANGED executed

-----------------------------------------------------------------------------
(* The console (external): it answers from its own state, and owes no       *)
(* answer at all.                                                           *)

Answer(c, kind, session) ==
    answer' = [answer EXCEPT ![c] = [kind |-> kind, session |-> session]]

\* The session c has been granted, or the one its request carries.
Own(c) == IF pc[c] = "login" THEN {answer[c].session} ELSE {sent[c]}

Held == {token} \cup UNION {Own(d) : d \in Calls}

\* POST /api/auth/login: a session for a good credential, a refusal for a bad
\* one; or an answer about neither, from a proxy whose application is not up.
ConsoleLogin(c) ==
    /\ pc[c] = "login"
    /\ answer[c].kind = "none"
    /\ \/ /\ "granted" \in LoginAnswers
          /\ credential
          /\ \E s \in Sessions \ Held :
                Answer(c, "granted", s) /\ live' = live \cup {s}
          /\ UNCHANGED rejected
       \/ /\ "refused" \in LoginAnswers
          /\ ~credential
          /\ Answer(c, "refused", NoToken)
          /\ rejected' = [rejected EXCEPT ![c] = TRUE]
          /\ UNCHANGED live
       \/ /\ \E kind \in LoginAnswers \ {"granted", "refused"} :
                Answer(c, kind, NoToken)
          /\ UNCHANGED <<live, rejected>>
    /\ UNCHANGED <<clientVars, credential, executed, disturbed>>

Authorised(c) == IF CanReauth THEN sent[c] \in live ELSE credential

\* A command is carried out when the application answers with JSON (or with an
\* empty body), and possibly when it answers with an error.
MayExecute(c, kind) ==
    \/ ~(c \in Writes /\ kind = "json") /\ UNCHANGED executed
    \/ /\ c \in Writes
       /\ kind \in {"json", "error"}
       /\ executed' = [executed EXCEPT ![c] = @ + 1]

\* "garbled": an application/json body that does not parse, read by resp.json().
ApplicationAnswers(c) ==
    {"json", "forbidden", "error"} \cup (IF c \in Writes THEN {} ELSE {"garbled"})

ConsoleRequest(c) ==
    /\ pc[c] = "request"
    /\ answer[c].kind = "none"
    /\ \/ /\ Authorised(c)
          /\ \E kind \in ApplicationAnswers(c) :
                Answer(c, kind, NoToken) /\ MayExecute(c, kind)
          /\ UNCHANGED rejected
       \/ /\ ~Authorised(c)
          /\ Answer(c, "unauthorized", NoToken)
          /\ rejected' = [rejected EXCEPT ![c] = TRUE]
          /\ UNCHANGED executed
       \/ /\ \E kind \in {"redirect", "shell", "error"} : Answer(c, kind, NoToken)
          /\ UNCHANGED <<executed, rejected>>
    /\ UNCHANGED <<clientVars, credential, live, disturbed>>

\* A request given up on may already have reached the console, or reach it yet.
RequestFails(c, failure) ==
    /\ pc[c] = "request"
    /\ FailExchange(c, failure)
    /\ \/ UNCHANGED executed
       \/ /\ failure = "connection"
          /\ answer[c].kind = "none"
          /\ Authorised(c)
          /\ MayExecute(c, "error")

\* The password is changed or the key revoked, or the configured one is right again.
ChangeCredential ==
    /\ credential' = ~credential
    /\ disturbed' = [c \in Calls |-> disturbed[c] \/ Running(c)]
    /\ UNCHANGED <<clientVars, answer, live, executed, rejected>>

\* A session expires, or is lost when the console restarts.
RevokeSession(s) ==
    /\ s \in live
    /\ live' = live \ {s}
    /\ disturbed' = [c \in Calls |-> disturbed[c] \/ (relogin[c] /\ s \in Own(c))]
    /\ UNCHANGED <<clientVars, answer, credential, executed, rejected>>

-----------------------------------------------------------------------------
CallStep(c) ==
    \/ Start(c)
    \/ ReceiveLogin(c)
    \/ ReceiveAnswer(c)
    \/ \E failure \in WireFailures : LoginFails(c, failure) \/ RequestFails(c, failure)
    \/ ConsoleLogin(c)
    \/ ConsoleRequest(c)

Next ==
    \/ \E c \in Calls : CallStep(c)
    \/ ChangeCredential
    \/ \E s \in Sessions : RevokeSession(s)

Spec == Init /\ [][Next]_vars

\* asyncio runs what is ready, and asyncio.timeout ends every exchange.  Nothing
\* is assumed of the console or of the users.
Fairness ==
    \A c \in Calls :
        /\ WF_vars(ReceiveLogin(c))
        /\ WF_vars(ReceiveAnswer(c))
        /\ WF_vars(LoginFails(c, "connection"))
        /\ WF_vars(RequestFails(c, "connection"))

FairSpec == Spec /\ Fairness

-----------------------------------------------------------------------------
(* What is promised.                                                        *)

\* Types; and no call has its command carried out more than once, though a write
\* is sent again after a 401 or a login page.
TypeOK ==
    /\ prepared \in BOOLEAN
    /\ token \in Tokens
    /\ pc \in [Calls -> {"idle", "login", "request", "done"}]
    /\ relogin \in [Calls -> BOOLEAN]
    /\ sent \in [Calls -> Tokens]
    /\ answer \in [Calls -> Answers]
    /\ result \in [Calls -> Outcomes \cup {"none"}]
    /\ credential \in BOOLEAN
    /\ live \in SUBSET Sessions
    /\ executed \in [Calls -> 0 .. 1]
    /\ rejected \in [Calls -> BOOLEAN]
    /\ disturbed \in [Calls -> BOOLEAN]

\* _prepared is tested and set around an await (transport.py async_prepare): in
\* spite of that, no call ever sends its request before a login has captured a
\* session token, whatever other calls do to _prepared and _token meanwhile.
NoUnauthenticatedRequest ==
    CanReauth => \A c \in Calls : pc[c] = "request" => sent[c] # NoToken

\* "Only a 401 is an authorization failure": a call ends with GwAuthError, which
\* stops the entry and asks for a password, only if the console itself refused
\* its session or its credential, never for a console that is booting, gone, or
\* answering with its web UI.
AuthIsVerdict ==
    \A c \in Calls : result[c] = "auth" => rejected[c]

\* An expired session is healed silently: a call ends with GwAuthError only if
\* the credential was bad while it ran, or the console revoked the very session
\* its re-login had just obtained.  Concurrent re-logins that overwrite _token
\* under one another are no reason.
ReloginHeals ==
    \A c \in Calls : result[c] = "auth" => disturbed[c]

\* What holds of c's exchange at every moment; the invariants above follow.
ExchangeInv(c) ==
    /\ answer[c].kind = "granted" => answer[c].session \in Sessions
    /\ pc[c] = "login" => /\ CanReauth
                          /\ answer[c].kind \in {"none"} \cup LoginAnswers
                          /\ executed[c] = 0
    /\ pc[c] = "request" => answer[c].kind \in {"none"} \cup RequestAnswers
    /\ ~Running(c) => answer[c].kind = "none"
    /\ pc[c] = "request" /\ CanReauth => sent[c] # NoToken

\* What the console carried out, by what it answered.
ExecutedInv(c) ==
    /\ pc[c] = "request" /\ answer[c].kind \notin {"json", "error"} => executed[c] = 0
    /\ pc[c] = "request" /\ answer[c].kind = "json" /\ c \in Writes => executed[c] = 1
    /\ answer[c].kind = "garbled" => c \notin Writes

\* Why the console refused c.
RejectedInv(c) ==
    /\ answer[c].kind \in {"unauthorized", "refused"} => rejected[c]
    /\ result[c] = "auth" => rejected[c]

\* Why c's re-login may not have helped.
DisturbedInv(c) ==
    /\ Running(c) /\ ~credential => disturbed[c]
    /\ answer[c].kind = "refused" => disturbed[c]
    /\ CanReauth /\ relogin[c] /\ ~disturbed[c] =>
          /\ pc[c] = "request" => sent[c] \in live
          /\ answer[c].kind = "granted" => answer[c].session \in live
          /\ answer[c].kind # "unauthorized"
    /\ ~CanReauth /\ ~disturbed[c] => answer[c].kind # "unauthorized"
    /\ result[c] = "auth" => disturbed[c]

PreparedInv == CanReauth /\ prepared => token # NoToken

\* Each call keeps the promise of CallContract about the command it carries.
Contract == INSTANCE CallContract WITH
    phase <- [c \in Calls |-> IF Running(c) THEN "pending" ELSE pc[c]]

KeepsContract == Contract!ContractSpec

\* The exchanges a call may still make, the one under way included.
Left(c) ==
    CASE pc[c] = "login" /\ ~relogin[c]   -> 4
      [] pc[c] = "request" /\ ~relogin[c] -> 3
      [] pc[c] = "login" /\ relogin[c]    -> 2
      [] pc[c] = "request" /\ relogin[c]  -> 1
      [] OTHER                            -> 0

\* A call logs in, sends its request, and does each once more at most ("retry
\* exactly once", transport.py _call), whatever the other calls do to _prepared
\* and to the token it shares with them: it never goes back to an earlier exchange.
CallsAdvance ==
    [][\A c \in Calls :
          Running(c) => Left(c)' < Left(c) \/ UNCHANGED <<pc[c], relogin[c]>>]_vars

\* A call that has begun ends: every exchange is bounded by the timeout, the
\* login as well as the request, and a call makes at most four of them.
EveryCallReturns == \A c \in Calls : Running(c) ~> ~Running(c)

=============================================================================
