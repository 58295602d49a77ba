---------------------- MODULE GatewayTransport_proofs -----------------------
(* Proofs about GatewayTransport, for any sets of calls, commands and       *)
(* sessions.                                                                *)

EXTENDS GatewayTransport, TLAPS

USE DEF Tokens, WireFailures, Outcomes, RequestAnswers, Answers, NoAnswer

\* The named facts about the constants, in one place.
LEMMA ConstantFacts ==
    /\ Writes \subseteq Calls
    /\ NoToken \notin Sessions
    /\ CanReauth \in BOOLEAN
    /\ LoginAnswers \subseteq {"granted", "refused", "no_verdict", "other_4xx", "page"}
BY WritesAreCalls, NoTokenIsNoSession, CanReauthIsBoolean, LoginAnswersAreKnown

-----------------------------------------------------------------------------
(* One inductive invariant carries every safety property: the types, the    *)
(* token a prepared transport holds, and for each call what its exchange    *)
(* and its history say.                                                     *)

CallInv == \A c \in Calls : ExchangeInv(c) /\ ExecutedInv(c)

Inv == TypeOK /\ PreparedInv /\ CallInv

\* The first states: nothing is prepared and no call has begun.
LEMMA InitInv == Init => Inv
<1> SUFFICES ASSUME Init PROVE Inv
  OBVIOUS
<1> USE ConstantFacts DEF Init
<1>1. TypeOK
  <2>1. answer \in [Calls -> Answers]
    OBVIOUS
  <2>2. executed \in [Calls -> 0 .. 1]
    OBVIOUS
  <2> QED BY <2>1, <2>2 DEF TypeOK
<1>2. PreparedInv
  BY DEF PreparedInv
<1>3. CallInv
  BY DEF CallInv, ExchangeInv, ExecutedInv, Running
<1> QED BY <1>1, <1>2, <1>3 DEF Inv

\* A call that begins, with or without a login, begins cleanly.
LEMMA StartInv ==
    ASSUME Inv, NEW c \in Calls, Start(c)
    PROVE  Inv'
<1> USE ConstantFacts DEF Inv, Start, NeedsLogin, Issue, LogIn
<1>1. TypeOK'
  <2>1. answer' \in [Calls -> Answers]
    BY DEF TypeOK
  <2>2. executed' \in [Calls -> 0 .. 1]
    BY DEF TypeOK
  <2>3. (pc \in [Calls -> {"idle", "login", "request", "done"}] /\ sent \in [Calls -> Tokens])'
    <3>1. CASE NeedsLogin
      BY <3>1 DEF TypeOK
    <3>2. CASE ~NeedsLogin
      <4>1. pc' = [pc EXCEPT ![c] = "request"] /\ sent' = [sent EXCEPT ![c] = token]
        BY <3>2
      <4> QED BY <4>1 DEF TypeOK
    <3> QED BY <3>1, <3>2
  <2> QED BY <2>1, <2>2, <2>3 DEF TypeOK
<1>2. PreparedInv'
  BY DEF PreparedInv, TypeOK
<1>3. CallInv'
  <2> SUFFICES ASSUME NEW d \in Calls
               PROVE  (ExchangeInv(d) /\ ExecutedInv(d))'
    BY DEF CallInv
  <2>1. ExchangeInv(d)'
    BY DEF CallInv, ExchangeInv, Running, TypeOK, PreparedInv
  <2>2. ExecutedInv(d)'
    BY DEF CallInv, ExecutedInv, ExchangeInv, Running, TypeOK
  <2> QED BY <2>1, <2>2
<1> QED BY <1>1, <1>2, <1>3

\* The end of a login: the request that follows carries a token.
LEMMA ReceiveLoginInv ==
    ASSUME Inv, NEW c \in Calls, ReceiveLogin(c)
    PROVE  Inv'
<1> USE ConstantFacts DEF Inv, historyVars
<1>1. /\ pc[c] = "login"
      /\ answer' = [answer EXCEPT ![c] = NoAnswer]
      /\ UNCHANGED <<relogin, credential, live, executed, rejected, disturbed>>
      /\ \/ /\ \E outcome \in {"connection", "auth"} : Return(c, outcome)
            /\ UNCHANGED <<prepared, token>>
         \/ /\ token' \in Sessions
            /\ Issue(c, token')
            /\ prepared' \in BOOLEAN
            /\ UNCHANGED result
  <2>1. CASE answer[c].kind \in LoginNoVerdict \/ answer[c].kind \in LoginVerdicts
    BY <2>1 DEF ReceiveLogin, LoginNoVerdict, LoginVerdicts
  <2>2. CASE answer[c].kind \notin LoginNoVerdict \cup LoginVerdicts
    <3>1. CASE token' = NoToken
      <4>1. answer[c].kind # "granted"
        BY <2>2, <3>1 DEF ReceiveLogin, Captured, CallInv, ExchangeInv
      <4> QED BY <4>1, <2>2, <3>1 DEF ReceiveLogin, Captured
    <3>2. CASE token' # NoToken
      <4>1. token' \in Sessions
        BY <2>2, <3>2 DEF ReceiveLogin, Captured, CallInv, ExchangeInv, TypeOK
      <4>2. Issue(c, token') /\ prepared' = (prepared \/ ~relogin[c]) /\ UNCHANGED result
        BY <2>2, <3>2 DEF ReceiveLogin
      <4> QED BY <4>1, <4>2 DEF ReceiveLogin
    <3> QED BY <3>1, <3>2
  <2> QED BY <2>1, <2>2
<1>2. CASE /\ \E outcome \in {"connection", "auth"} : Return(c, outcome)
           /\ UNCHANGED <<prepared, token>>
  <2> USE <1>1, <1>2 DEF Return
  <2>1. TypeOK'
    <3>1. answer' \in [Calls -> Answers]
      BY DEF TypeOK
    <3> QED BY <3>1 DEF TypeOK
  <2>2. PreparedInv'
    BY DEF PreparedInv
  <2>3. CallInv'
    BY DEF CallInv, ExchangeInv, ExecutedInv, Running, TypeOK
  <2> QED BY <2>1, <2>2, <2>3
<1>3. CASE /\ token' \in Sessions
           /\ Issue(c, token')
           /\ prepared' \in BOOLEAN
           /\ UNCHANGED result
  <2> USE <1>1, <1>3 DEF Issue
  <2>1. TypeOK'
    <3>1. answer' \in [Calls -> Answers]
      BY DEF TypeOK
    <3> QED BY <3>1 DEF TypeOK
  <2>2. PreparedInv'
    BY DEF PreparedInv
  <2>3. CallInv'
    BY DEF CallInv, ExchangeInv, ExecutedInv, Running, TypeOK
  <2> QED BY <2>1, <2>2, <2>3
<1> QED BY <1>1, <1>2, <1>3

\* An answer to a request ends the call or starts its one re-login, which
\* only an answer that carried nothing out can do.
LEMMA ReceiveAnswerInv ==
    ASSUME Inv, NEW c \in Calls, ReceiveAnswer(c)
    PROVE  Inv'
<1> USE ConstantFacts DEF Inv, ReceiveAnswer, RetriesAfter, OutcomeOf, LogIn, Return,
        historyVars
<1>1. TypeOK'
  BY DEF TypeOK
<1>2. PreparedInv'
  BY DEF PreparedInv
<1>3. CallInv'
  <2> SUFFICES ASSUME NEW d \in Calls
               PROVE  (ExchangeInv(d) /\ ExecutedInv(d))'
    BY DEF CallInv
  <2>1. ExchangeInv(d)'
    BY DEF CallInv, ExchangeInv, ExecutedInv, Running, TypeOK
  <2>2. ExecutedInv(d)'
    BY DEF CallInv, ExecutedInv, ExchangeInv, TypeOK
  <2> QED BY <2>1, <2>2
<1> QED BY <1>1, <1>2, <1>3

\* A failed exchange ends the call.
LEMMA FailsInv ==
    ASSUME Inv, NEW c \in Calls, NEW failure \in WireFailures,
           LoginFails(c, failure) \/ RequestFails(c, failure)
    PROVE  Inv'
<1> USE ConstantFacts DEF Inv, LoginFails, RequestFails, FailExchange, Return, MayExecute,
        historyVars
<1>1. TypeOK'
  <2>1. answer' \in [Calls -> Answers]
    BY DEF TypeOK
  <2>2. executed' \in [Calls -> 0 .. 1]
    BY DEF TypeOK, CallInv, ExecutedInv
  <2>3. (pc \in [Calls -> {"idle", "login", "request", "done"}] /\ sent \in [Calls -> Tokens])'
    BY DEF TypeOK
  <2>4. result' \in [Calls -> Outcomes \cup {"none"}]
    BY DEF TypeOK
  <2> QED BY <2>1, <2>2, <2>3, <2>4 DEF TypeOK
<1>2. PreparedInv'
  BY DEF PreparedInv
<1>3. CallInv'
  <2> SUFFICES ASSUME NEW d \in Calls
               PROVE  (ExchangeInv(d) /\ ExecutedInv(d))'
    BY DEF CallInv
  <2>1. ExchangeInv(d)'
    <3>1. CASE d = c
      BY <3>1 DEF CallInv, ExchangeInv, Running, TypeOK
    <3>2. CASE d # c
      BY <3>2 DEF CallInv, ExchangeInv, Running, TypeOK
    <3> QED BY <3>1, <3>2
  <2>2. ExecutedInv(d)'
    BY DEF CallInv, ExecutedInv, TypeOK
  <2> QED BY <2>1, <2>2
<1> QED BY <1>1, <1>2, <1>3

\* The console answers one outstanding exchange, and nothing else changes hands.
LEMMA ConsoleInv ==
    ASSUME Inv, NEW c \in Calls, ConsoleLogin(c) \/ ConsoleRequest(c)
    PROVE  Inv'
<1> USE ConstantFacts DEF Inv, ConsoleLogin, ConsoleRequest, Answer, MayExecute,
        ApplicationAnswers, clientVars
<1>1. TypeOK'
  <2>1. answer' \in [Calls -> Answers]
    <3>1. ASSUME NEW kind \in LoginAnswers \cup RequestAnswers, NEW session \in Tokens,
                 Answer(c, kind, session)
          PROVE  answer' \in [Calls -> Answers]
      BY <3>1 DEF TypeOK
    <3> QED BY <3>1
  <2>2. executed' \in [Calls -> 0 .. 1]
    BY DEF TypeOK, CallInv, ExecutedInv
  <2>3. live' \in SUBSET Sessions /\ rejected' \in [Calls -> BOOLEAN]
    BY DEF TypeOK
  <2> QED BY <2>1, <2>2, <2>3 DEF TypeOK
<1>2. PreparedInv'
  BY DEF PreparedInv
<1>3. CallInv'
  <2> SUFFICES ASSUME NEW d \in Calls
               PROVE  (ExchangeInv(d) /\ ExecutedInv(d))'
    BY DEF CallInv
  <2>1. ExchangeInv(d)'
    <3>1. CASE d = c
      BY <3>1 DEF CallInv, ExchangeInv, Running, TypeOK
    <3>2. CASE d # c
      BY <3>2 DEF CallInv, ExchangeInv, Running, TypeOK
    <3> QED BY <3>1, <3>2
  <2>2. ExecutedInv(d)'
    BY DEF CallInv, ExecutedInv, TypeOK
  <2> QED BY <2>1, <2>2
<1> QED BY <1>1, <1>2, <1>3

\* The world changes the credential or revokes a session.
LEMMA WorldInv ==
    ASSUME Inv, ChangeCredential \/ (\E s \in Sessions : RevokeSession(s))
    PROVE  Inv'
<1>1. /\ credential' \in BOOLEAN
      /\ live' \in SUBSET Sessions
      /\ disturbed' \in [Calls -> BOOLEAN]
      /\ UNCHANGED <<prepared, token, pc, relogin, sent, answer, result, executed, rejected>>
  <2>1. CASE ChangeCredential
    BY <2>1 DEF ChangeCredential, Inv, TypeOK, Running, clientVars
  <2>2. CASE \E s \in Sessions : RevokeSession(s)
    BY <2>2 DEF RevokeSession, Inv, TypeOK, clientVars
  <2> QED BY <2>1, <2>2
<1>2. TypeOK'
  BY <1>1 DEF Inv, TypeOK
<1>3. PreparedInv' /\ CallInv'
  BY <1>1 DEF Inv, PreparedInv, CallInv, ExchangeInv, ExecutedInv, Running
<1> QED BY <1>2, <1>3 DEF Inv

\* Every step keeps the exchange invariants.
LEMMA NextInv == Inv /\ [Next]_vars => Inv'
<1> SUFFICES ASSUME Inv, [Next]_vars PROVE Inv'
  OBVIOUS
<1>1. CASE UNCHANGED vars
  BY <1>1 DEF vars, Inv, TypeOK, PreparedInv, CallInv, ExchangeInv, ExecutedInv, Running
<1>2. CASE Next
  BY <1>2, StartInv, ReceiveLoginInv, ReceiveAnswerInv, FailsInv, ConsoleInv, WorldInv
     DEF Next, CallStep
<1> QED BY <1>1, <1>2

\* The inductive invariant behind the theorems about one transport: what holds of
\* each call at every moment of its exchange.
THEOREM Invariance == Spec => []Inv
BY InitInv, NextInv, PTL DEF Spec

-----------------------------------------------------------------------------
(* The theorems that need no more than Inv.                                 *)

\* The types hold, and no command is carried out more than once per call.
THEOREM TypeCorrect == Spec => []TypeOK
BY Invariance, PTL DEF Inv

\* With a session, every request that goes out carries a token, however the
\* handshakes of concurrent calls interleave.
THEOREM EveryRequestAuthenticated == Spec => []NoUnauthenticatedRequest
<1>1. Inv => NoUnauthenticatedRequest
  BY DEF Inv, CallInv, ExchangeInv, NoUnauthenticatedRequest
<1> QED BY <1>1, Invariance, PTL

-----------------------------------------------------------------------------
(* When the login endpoint only ever grants, refuses, or says that it has   *)
(* no verdict, GwAuthError is always the console's own doing.               *)

LoginGivesVerdicts == LoginAnswers \subseteq {"granted", "refused", "no_verdict"}

VerdictInv == \A c \in Calls : RejectedInv(c) /\ DisturbedInv(c)

\* Nothing has been refused before the first call.
LEMMA InitVerdict == Init => VerdictInv
<1> SUFFICES ASSUME Init, NEW c \in Calls
             PROVE  RejectedInv(c) /\ DisturbedInv(c)
  BY DEF VerdictInv
<1>1. /\ pc[c] = "idle"
      /\ answer[c] = NoAnswer
      /\ result[c] = "none"
      /\ relogin[c] = FALSE
  BY DEF Init
<1>2. answer[c].kind = "none"
  BY <1>1
<1> QED BY <1>1, <1>2 DEF RejectedInv, DisturbedInv, Running

\* A call that begins has been refused nothing yet.
LEMMA StartVerdict ==
    ASSUME Inv, VerdictInv, NEW c \in Calls, Start(c)
    PROVE  VerdictInv'
<1> SUFFICES ASSUME NEW d \in Calls
             PROVE  (RejectedInv(d) /\ DisturbedInv(d))'
  BY DEF VerdictInv
<1> USE ConstantFacts DEF Inv, TypeOK, VerdictInv, Start
<1>1. RejectedInv(d)'
  BY DEF RejectedInv
<1>2. DisturbedInv(d)'
  <2>1. CASE d = c
    BY <2>1 DEF DisturbedInv
  <2>2. CASE d # c
    BY <2>2 DEF DisturbedInv, Running, LogIn, Issue
  <2> QED BY <2>1, <2>2
<1> QED BY <1>1, <1>2

\* A login ends the call with GwAuthError only on a refusal by the console.
LEMMA ReceiveLoginVerdict ==
    ASSUME LoginGivesVerdicts, Inv, VerdictInv, NEW c \in Calls, ReceiveLogin(c)
    PROVE  VerdictInv'
<1> SUFFICES ASSUME NEW d \in Calls
             PROVE  (RejectedInv(d) /\ DisturbedInv(d))'
  BY DEF VerdictInv
<1>1. CASE d # c
  BY <1>1 DEF Inv, TypeOK, VerdictInv, RejectedInv, DisturbedInv, Running, ReceiveLogin,
     Return, Issue, historyVars
<1>2. CASE d = c
  <2> USE <1>2, ConstantFacts DEF Inv, TypeOK, VerdictInv, ReceiveLogin, historyVars,
          LoginNoVerdict, LoginVerdicts
  <2>1. CASE answer[c].kind = "no_verdict"
    BY <2>1 DEF Return, RejectedInv, DisturbedInv, Running
  <2>2. CASE answer[c].kind = "refused"
    BY <2>2 DEF Return, RejectedInv, DisturbedInv, Running
  <2>3. CASE answer[c].kind = "granted"
    <3>1. /\ token' = answer[c].session
          /\ token' # NoToken
      BY <2>3 DEF Captured, CallInv, ExchangeInv
    <3>2. Issue(c, answer[c].session) /\ UNCHANGED result
      BY <2>3, <3>1
    <3> QED BY <2>3, <3>2 DEF Issue, RejectedInv, DisturbedInv, Running
  <2> QED BY <2>1, <2>2, <2>3 DEF LoginGivesVerdicts, CallInv, ExchangeInv
<1> QED BY <1>1, <1>2

\* A 401 ends the call only when a re-login is impossible or has been made.
LEMMA ReceiveAnswerVerdict ==
    ASSUME Inv, VerdictInv, NEW c \in Calls, ReceiveAnswer(c)
    PROVE  VerdictInv'
<1> SUFFICES ASSUME NEW d \in Calls
             PROVE  (RejectedInv(d) /\ DisturbedInv(d))'
  BY DEF VerdictInv
<1> USE ConstantFacts DEF Inv, TypeOK, VerdictInv, ReceiveAnswer, historyVars
<1>1. CASE d # c
  BY <1>1 DEF RejectedInv, DisturbedInv, Running, Return, LogIn
<1>2. CASE d = c /\ RetriesAfter(c, answer[c].kind)
  BY <1>2 DEF RejectedInv, DisturbedInv, Running, LogIn, RetriesAfter
<1>3. CASE d = c /\ ~RetriesAfter(c, answer[c].kind)
  <2>1. answer[c].kind = "unauthorized" => rejected[c] /\ disturbed[c]
    BY <1>3 DEF RejectedInv, DisturbedInv, RetriesAfter
  <2>2. OutcomeOf(answer[c].kind) = "auth" => answer[c].kind = "unauthorized"
    BY DEF OutcomeOf
  <2> QED BY <1>3, <2>1, <2>2 DEF RejectedInv, DisturbedInv, Running, Return
<1> QED BY <1>1, <1>2, <1>3

\* A failure on the wire is no verdict.
LEMMA FailsVerdict ==
    ASSUME Inv, VerdictInv, NEW c \in Calls, NEW failure \in WireFailures,
           LoginFails(c, failure) \/ RequestFails(c, failure)
    PROVE  VerdictInv'
<1>1. FailExchange(c, failure)
  BY DEF LoginFails, RequestFails
<1> SUFFICES ASSUME NEW d \in Calls
             PROVE  (RejectedInv(d) /\ DisturbedInv(d))'
  BY DEF VerdictInv
<1> USE <1>1, ConstantFacts DEF Inv, TypeOK, VerdictInv, FailExchange, Return, historyVars
<1>2. RejectedInv(d)'
  BY DEF RejectedInv
<1>3. DisturbedInv(d)'
  BY DEF DisturbedInv, Running
<1> QED BY <1>2, <1>3

\* The console refuses only a bad credential or a session it does not honour.
LEMMA ConsoleVerdict ==
    ASSUME Inv, VerdictInv, NEW c \in Calls, ConsoleLogin(c) \/ ConsoleRequest(c)
    PROVE  VerdictInv'
<1> SUFFICES ASSUME NEW d \in Calls
             PROVE  (RejectedInv(d) /\ DisturbedInv(d))'
  BY DEF VerdictInv
<1> USE ConstantFacts DEF Inv, TypeOK, VerdictInv, clientVars, Answer
<1>1. CASE d # c
  BY <1>1 DEF RejectedInv, DisturbedInv, Running, ConsoleLogin, ConsoleRequest
<1>2. CASE d = c /\ ConsoleLogin(c)
  <2>1. RejectedInv(d)'
    BY <1>2 DEF RejectedInv, ConsoleLogin
  <2>2. DisturbedInv(d)'
    BY <1>2 DEF DisturbedInv, Running, ConsoleLogin
  <2> QED BY <2>1, <2>2
<1>3. CASE d = c /\ ConsoleRequest(c)
  <2>1. RejectedInv(d)'
    BY <1>3 DEF RejectedInv, ConsoleRequest, ApplicationAnswers
  <2>2. DisturbedInv(d)'
    BY <1>3 DEF DisturbedInv, Running, ConsoleRequest, ApplicationAnswers, Authorised
  <2> QED BY <2>1, <2>2
<1> QED BY <1>1, <1>2, <1>3

\* What changes under a running call is recorded as having disturbed it.
LEMMA WorldVerdict ==
    ASSUME Inv, VerdictInv, ChangeCredential \/ (\E s \in Sessions : RevokeSession(s))
    PROVE  VerdictInv'
<1> SUFFICES ASSUME NEW d \in Calls
             PROVE  (RejectedInv(d) /\ DisturbedInv(d))'
  BY DEF VerdictInv
<1> USE ConstantFacts DEF Inv, TypeOK, VerdictInv, clientVars, CallInv, ExchangeInv
<1>1. CASE ChangeCredential
  BY <1>1 DEF ChangeCredential, RejectedInv, DisturbedInv, Running
<1>2. ASSUME NEW s \in Sessions, RevokeSession(s)
      PROVE  (RejectedInv(d) /\ DisturbedInv(d))'
  BY <1>2 DEF RevokeSession, RejectedInv, DisturbedInv, Running, Own
<1> QED BY <1>1, <1>2

\* Every step keeps the reasons for an authorization failure.
LEMMA NextVerdict ==
    ASSUME LoginGivesVerdicts
    PROVE  Inv /\ VerdictInv /\ [Next]_vars => VerdictInv'
<1> SUFFICES ASSUME Inv, VerdictInv, [Next]_vars PROVE VerdictInv'
  OBVIOUS
<1>1. CASE UNCHANGED vars
  BY <1>1 DEF vars, VerdictInv, RejectedInv, DisturbedInv, Running
<1>2. CASE Next
  BY <1>2, StartVerdict, ReceiveLoginVerdict, ReceiveAnswerVerdict, FailsVerdict,
     ConsoleVerdict, WorldVerdict DEF Next, CallStep
<1> QED BY <1>1, <1>2

\* A call ends with GwAuthError only if the console refused its session or its
\* credential.
THEOREM AuthOnlyOnVerdict ==
    ASSUME LoginGivesVerdicts
    PROVE  Spec => []AuthIsVerdict
<1>1. VerdictInv => AuthIsVerdict
  BY DEF VerdictInv, RejectedInv, AuthIsVerdict
<1> QED BY <1>1, Invariance, InitVerdict, NextVerdict, PTL DEF Spec

\* A call ends with GwAuthError only if the credential was bad while it ran, or
\* the session its own re-login obtained was revoked.
THEOREM ReloginAlwaysHeals ==
    ASSUME LoginGivesVerdicts
    PROVE  Spec => []ReloginHeals
<1>1. VerdictInv => ReloginHeals
  BY DEF VerdictInv, DisturbedInv, ReloginHeals
<1> QED BY <1>1, Invariance, InitVerdict, NextVerdict, PTL DEF Spec

-----------------------------------------------------------------------------
(* What the run about login pages shows, and the two answers it takes.      *)

\* No login is answered by a client error that is no refusal, and none by a page
\* while the strategy has no token yet.
LoginsAreUnderstood ==
    \A c \in Calls :
        ReceiveLogin(c) => /\ answer[c].kind # "other_4xx"
                           /\ answer[c].kind = "page" => token # NoToken

RejectedAll == \A c \in Calls : RejectedInv(c)

\* A login that is understood ends its call with GwAuthError only on a refusal.
LEMMA UnderstoodLogin ==
    ASSUME Inv, RejectedAll, LoginsAreUnderstood, NEW c \in Calls, ReceiveLogin(c)
    PROVE  RejectedAll'
<1> SUFFICES ASSUME NEW d \in Calls PROVE RejectedInv(d)'
  BY DEF RejectedAll
<1> USE ConstantFacts DEF Inv, TypeOK, RejectedAll, ReceiveLogin, historyVars
<1>1. CASE d # c
  BY <1>1 DEF RejectedInv, Return, Issue
<1>2. CASE d = c /\ answer[c].kind = "refused"
  BY <1>2 DEF RejectedInv
<1>3. CASE d = c /\ answer[c].kind = "no_verdict"
  BY <1>3 DEF RejectedInv, Return, LoginNoVerdict, LoginVerdicts
<1>4. CASE d = c /\ answer[c].kind \in {"granted", "page"}
  <2>1. token' # NoToken
    <3>1. token' = Captured(c)
      BY <1>4 DEF LoginNoVerdict, LoginVerdicts
    <3>2. answer[c].kind = "granted" => answer[c].session \in Sessions
      BY DEF CallInv, ExchangeInv
    <3>3. answer[c].kind = "page" => token # NoToken
      BY DEF LoginsAreUnderstood
    <3> QED BY <1>4, <3>1, <3>2, <3>3 DEF Captured
  <2>2. UNCHANGED result
    BY <1>4, <2>1 DEF LoginNoVerdict, LoginVerdicts
  <2> QED BY <1>4, <2>2 DEF RejectedInv
<1>5. d = c => answer[c].kind \in {"granted", "refused", "no_verdict", "page"}
  BY DEF LoginsAreUnderstood, CallInv, ExchangeInv
<1> QED BY <1>1, <1>2, <1>3, <1>4, <1>5

\* A refusal is the only answer to a request that counts as one.
LEMMA AnsweredRequest ==
    ASSUME Inv, RejectedAll, NEW c \in Calls, ReceiveAnswer(c)
    PROVE  RejectedAll'
<1> SUFFICES ASSUME NEW d \in Calls PROVE RejectedInv(d)'
  BY DEF RejectedAll
<1> USE ConstantFacts DEF Inv, TypeOK, RejectedAll, ReceiveAnswer, historyVars
<1>1. CASE d # c
  BY <1>1 DEF RejectedInv, Return
<1>2. CASE d = c /\ RetriesAfter(c, answer[c].kind)
  BY <1>2 DEF RejectedInv
<1>3. CASE d = c /\ ~RetriesAfter(c, answer[c].kind)
  <2>1. OutcomeOf(answer[c].kind) = "auth" => answer[c].kind = "unauthorized"
    BY DEF OutcomeOf
  <2> QED BY <1>3, <2>1 DEF RejectedInv, Return
<1> QED BY <1>1, <1>2, <1>3

\* Every other step leaves the verdicts as they are, or adds one to be read.
LEMMA OtherVerdicts ==
    ASSUME Inv, RejectedAll, NEW c \in Calls,
           \/ Start(c)
           \/ \E failure \in WireFailures : LoginFails(c, failure) \/ RequestFails(c, failure)
           \/ ConsoleLogin(c)
           \/ ConsoleRequest(c)
    PROVE  RejectedAll'
<1> SUFFICES ASSUME NEW d \in Calls PROVE RejectedInv(d)'
  BY DEF RejectedAll
<1> USE ConstantFacts DEF Inv, TypeOK, RejectedAll, RejectedInv
<1>1. CASE Start(c)
  BY <1>1 DEF Start
<1>2. ASSUME NEW failure \in WireFailures, LoginFails(c, failure) \/ RequestFails(c, failure)
      PROVE  RejectedInv(d)'
  BY <1>2 DEF LoginFails, RequestFails, FailExchange, Return, historyVars
<1>3. CASE ConsoleLogin(c)
  BY <1>3 DEF ConsoleLogin, Answer, clientVars
<1>4. CASE ConsoleRequest(c)
  BY <1>4 DEF ConsoleRequest, Answer, ApplicationAnswers, clientVars
<1> QED BY <1>1, <1>2, <1>3, <1>4

\* Whatever the login endpoint may answer: where GwAuthError is not the console's own
\* verdict, a login was answered by a client error that is no refusal, or by a page
\* before any login had succeeded.  A page in answer to a later login does no harm.
THEOREM LoginPageNeedsNoToken == Spec /\ [][LoginsAreUnderstood]_vars => []AuthIsVerdict
<1>1. Init => RejectedAll
  BY InitVerdict DEF VerdictInv, RejectedAll
<1>2. Inv /\ RejectedAll /\ [Next]_vars /\ [LoginsAreUnderstood]_vars => RejectedAll'
  <2> SUFFICES ASSUME Inv, RejectedAll, [Next]_vars, [LoginsAreUnderstood]_vars
               PROVE  RejectedAll'
    OBVIOUS
  <2>1. CASE UNCHANGED vars
    BY <2>1 DEF vars, RejectedAll, RejectedInv
  <2>2. CASE ChangeCredential \/ (\E s \in Sessions : RevokeSession(s))
    BY <2>2 DEF ChangeCredential, RevokeSession, clientVars, RejectedAll, RejectedInv
  <2>3. ASSUME NEW c \in Calls, CallStep(c), LoginsAreUnderstood
        PROVE  RejectedAll'
    BY <2>3, UnderstoodLogin, AnsweredRequest, OtherVerdicts DEF CallStep
  <2> QED BY <2>1, <2>2, <2>3 DEF Next
<1>3. RejectedAll => AuthIsVerdict
  BY DEF RejectedAll, RejectedInv, AuthIsVerdict
<1> QED BY <1>1, <1>2, <1>3, Invariance, PTL DEF Spec

\* With an API key there is no login to misread: its GwAuthError is always a verdict.
THEOREM KeyVerdicts ==
    ASSUME ~CanReauth
    PROVE  Spec => []AuthIsVerdict
<1>1. Inv => [LoginsAreUnderstood]_vars
  BY DEF Inv, CallInv, ExchangeInv, LoginsAreUnderstood, ReceiveLogin
<1> QED BY <1>1, Invariance, LoginPageNeedsNoToken, PTL

-----------------------------------------------------------------------------
(* Refinement: every step of the transport is a step of CallContract, or    *)
(* leaves its variables alone.                                              *)

phaseOf == [c \in Calls |-> IF Running(c) THEN "pending" ELSE pc[c]]

\* Before the first call the contract is in its initial state.
LEMMA InitContract == Init => Contract!ContractInit
BY DEF Init, Contract!ContractInit, Running

\* Beginning a call is beginning it in the contract.
LEMMA BeginStep ==
    ASSUME Inv, NEW c \in Calls, Start(c)
    PROVE  Contract!Begin(c)
<1>1. pc' = [pc EXCEPT ![c] = "login"] \/ pc' = [pc EXCEPT ![c] = "request"]
  BY DEF Start, LogIn, Issue
<1>2. phaseOf' = [phaseOf EXCEPT ![c] = "pending"]
  BY <1>1 DEF phaseOf, Running, Inv, TypeOK
<1>3. phaseOf[c] # "pending"
  BY DEF phaseOf, Start, Running, Inv, TypeOK
<1> QED BY <1>2, <1>3 DEF phaseOf, Contract!Begin, Start

\* The end of an exchange that does not end the call is invisible to the caller.
LEMMA GoOnStep ==
    ASSUME Inv, NEW c \in Calls, Running(c),
           pc' = [pc EXCEPT ![c] = "login"] \/ pc' = [pc EXCEPT ![c] = "request"],
           UNCHANGED <<executed, result>>
    PROVE  UNCHANGED <<phaseOf, executed, result>>
BY DEF phaseOf, Running, Inv, TypeOK

\* The end of a call, given what its outcome says of the command.
LEMMA ReturnStep ==
    ASSUME Inv, NEW c \in Calls, NEW outcome \in Outcomes, Running(c), Return(c, outcome),
           c \in Writes /\ outcome = "ok" => executed[c] = 1,
           outcome \in {"auth", "capability", "mismatch"} => executed[c] = 0,
           outcome = "untyped" => c \notin Writes,
           \/ UNCHANGED executed
           \/ /\ c \in Writes
              /\ outcome = "connection"
              /\ executed[c] = 0
              /\ executed' = [executed EXCEPT ![c] = 1]
    PROVE  Contract!ContractNext
<1>1. phaseOf' = [phaseOf EXCEPT ![c] = "done"]
  BY DEF Return, phaseOf, Running, Inv, TypeOK
<1>2. phaseOf[c] = "pending"
  BY DEF phaseOf
<1>3. Contract!Return(c, outcome)
  BY <1>1, <1>2 DEF phaseOf, Return, Contract!Return, Contract!Refusals, Contract!Ambiguous
<1>4. outcome \in Contract!Outcomes
  BY DEF Contract!Outcomes
<1> QED BY <1>3, <1>4 DEF Contract!ContractNext

\* The end of a login returns with nothing carried out, or is invisible.
LEMMA ReceiveLoginStep ==
    ASSUME Inv, NEW c \in Calls, ReceiveLogin(c)
    PROVE  Contract!ContractNext \/ UNCHANGED <<phaseOf, executed, result>>
<1>1. Running(c) /\ executed[c] = 0 /\ UNCHANGED executed
  BY DEF ReceiveLogin, Running, Inv, CallInv, ExchangeInv
<1>2. \/ \E outcome \in {"connection", "auth"} : Return(c, outcome)
      \/ pc' = [pc EXCEPT ![c] = "request"] /\ UNCHANGED result
  BY DEF ReceiveLogin, Issue
<1>3. ASSUME NEW outcome \in {"connection", "auth"}, Return(c, outcome)
      PROVE  Contract!ContractNext
  BY <1>1, <1>3, ReturnStep
<1>4. CASE pc' = [pc EXCEPT ![c] = "request"] /\ UNCHANGED result
  BY <1>1, <1>4, GoOnStep
<1> QED BY <1>2, <1>3, <1>4

\* An answer ends the call with an outcome that fits what was carried out, or
\* starts a re-login that the caller does not see.
LEMMA ReceiveAnswerStep ==
    ASSUME Inv, NEW c \in Calls, ReceiveAnswer(c)
    PROVE  Contract!ContractNext \/ UNCHANGED <<phaseOf, executed, result>>
<1>1. Running(c) /\ UNCHANGED executed
  BY DEF ReceiveAnswer, Running
<1>2. CASE RetriesAfter(c, answer[c].kind)
  <2>1. pc' = [pc EXCEPT ![c] = "login"] /\ UNCHANGED result
    BY <1>2 DEF ReceiveAnswer, LogIn
  <2> QED BY <1>1, <2>1, GoOnStep
<1>3. CASE ~RetriesAfter(c, answer[c].kind)
  <2> DEFINE outcome == OutcomeOf(answer[c].kind)
  <2>1. Return(c, outcome)
    BY <1>3 DEF ReceiveAnswer
  <2>2. /\ pc[c] = "request"
        /\ answer[c].kind \in RequestAnswers
        /\ ExecutedInv(c)
    BY DEF ReceiveAnswer, Inv, CallInv, ExchangeInv
  <2>3. /\ outcome \in Outcomes \ {"connection", "mismatch"}
        /\ outcome = "ok" => answer[c].kind = "json"
        /\ outcome \in {"auth", "capability"} =>
              answer[c].kind \in {"unauthorized", "forbidden"}
        /\ outcome = "untyped" => answer[c].kind = "garbled"
    BY <2>2 DEF OutcomeOf
  <2>4. /\ c \in Writes /\ outcome = "ok" => executed[c] = 1
        /\ outcome \in {"auth", "capability", "mismatch"} => executed[c] = 0
        /\ outcome = "untyped" => c \notin Writes
    BY <2>2, <2>3 DEF ExecutedInv
  <2> HIDE DEF outcome
  <2> QED BY <1>1, <2>1, <2>3, <2>4, ReturnStep
<1> QED BY <1>2, <1>3

\* A failed exchange ends the call with an outcome that leaves open whether the
\* command got through, or, for a mismatch, with nothing sent.
LEMMA FailsStep ==
    ASSUME Inv, NEW c \in Calls, NEW failure \in WireFailures,
           LoginFails(c, failure) \/ RequestFails(c, failure)
    PROVE  Contract!ContractNext
<1>1. Running(c) /\ Return(c, failure)
  BY DEF LoginFails, RequestFails, FailExchange, Running
<1>2. /\ failure = "mismatch" => executed[c] = 0
      /\ \/ UNCHANGED executed
         \/ /\ c \in Writes
            /\ failure = "connection"
            /\ executed[c] = 0
            /\ executed' = [executed EXCEPT ![c] = 1]
  <2>1. CASE LoginFails(c, failure)
    BY <2>1 DEF LoginFails, Inv, CallInv, ExchangeInv
  <2>2. CASE RequestFails(c, failure)
    BY <2>2 DEF RequestFails, FailExchange, MayExecute, Inv, CallInv, ExecutedInv
  <2> QED BY <2>1, <2>2
<1>3. c \in Writes /\ failure = "ok" => executed[c] = 1
  OBVIOUS
<1> QED BY <1>1, <1>2, <1>3, ReturnStep

\* The console carries out a command at most once while its call is pending.
LEMMA ConsoleStep ==
    ASSUME Inv, NEW c \in Calls, ConsoleLogin(c) \/ ConsoleRequest(c)
    PROVE  Contract!ContractNext \/ UNCHANGED <<phaseOf, executed, result>>
<1>1. UNCHANGED <<phaseOf, result>>
  BY DEF ConsoleLogin, ConsoleRequest, clientVars, phaseOf, Running
<1>2. CASE UNCHANGED executed
  BY <1>1, <1>2
<1>3. CASE ~UNCHANGED executed
  <2>1. /\ c \in Writes
        /\ pc[c] = "request"
        /\ executed[c] = 0
        /\ executed' = [executed EXCEPT ![c] = 1]
    BY <1>3 DEF ConsoleLogin, ConsoleRequest, MayExecute, Inv, CallInv, ExecutedInv
  <2>2. Contract!Execute(c)
    BY <2>1, <1>1 DEF Contract!Execute, phaseOf, Running
  <2> QED BY <2>2 DEF Contract!ContractNext
<1> QED BY <1>2, <1>3

\* Every step of the transport is a step of the contract or invisible to it.
LEMMA NextContract ==
    Inv /\ [Next]_vars => [Contract!ContractNext]_(Contract!contractVars)
<1> SUFFICES ASSUME Inv, [Next]_vars
             PROVE  Contract!ContractNext \/ UNCHANGED <<phaseOf, executed, result>>
  BY DEF Contract!contractVars, phaseOf
<1>1. CASE UNCHANGED vars
  BY <1>1 DEF vars, phaseOf, Running
<1>2. CASE ChangeCredential \/ (\E s \in Sessions : RevokeSession(s))
  BY <1>2 DEF ChangeCredential, RevokeSession, clientVars, phaseOf, Running
<1>3. ASSUME NEW c \in Calls, CallStep(c)
      PROVE  Contract!ContractNext \/ UNCHANGED <<phaseOf, executed, result>>
  <2>1. CASE Start(c)
    BY <2>1, BeginStep DEF Contract!ContractNext
  <2> QED BY <1>3, <2>1, ReceiveLoginStep, ReceiveAnswerStep, FailsStep, ConsoleStep
          DEF CallStep
<1> QED BY <1>1, <1>2, <1>3 DEF Next

\* Success is never claimed for a command the console did not carry out, a
\* refusal leaves the console untouched, and no command is carried out twice.
THEOREM TransportKeepsContract == Spec => KeepsContract
<1>1. Spec => Contract!ContractSpec
  BY InitContract, NextContract, Invariance, PTL DEF Spec, Contract!ContractSpec
<1> QED BY <1>1 DEF KeepsContract

\* A command never ends with an exception outside the hierarchy of exceptions.py, as a
\* read does whose JSON does not parse.
THEOREM CommandFailuresAreTyped == Spec => [](\A c \in Writes : result[c] # "untyped")
<1> DEFINE Typed == \A c \in Writes : result[c] # "untyped"
           Results == result \in [Calls -> Outcomes \cup {"none"}]
<1>1. Contract!ContractInit => Results /\ Typed
  BY ConstantFacts DEF Contract!ContractInit
<1>2. Results /\ Typed /\ [Contract!ContractNext]_(Contract!contractVars)
         => Results' /\ Typed'
  <2> SUFFICES ASSUME Results, Typed, [Contract!ContractNext]_(Contract!contractVars)
               PROVE  Results' /\ Typed'
    OBVIOUS
  <2>1. CASE UNCHANGED Contract!contractVars
    BY <2>1 DEF Contract!contractVars
  <2>2. ASSUME NEW c \in Calls, NEW r \in Outcomes \cup {"none"},
               result' = [result EXCEPT ![c] = r], r = "untyped" => c \notin Writes
        PROVE  Results' /\ Typed'
    BY <2>2, ConstantFacts
  <2>3. ASSUME NEW c \in Calls, Contract!Execute(c)
        PROVE  result' = result
    BY <2>3 DEF Contract!Execute
  <2>4. ASSUME NEW c \in Calls, Contract!Begin(c)
        PROVE  result' = [result EXCEPT ![c] = "none"]
    BY <2>4 DEF Contract!Begin
  <2>5. ASSUME NEW c \in Calls, NEW r \in Contract!Outcomes, Contract!Return(c, r)
        PROVE  /\ result' = [result EXCEPT ![c] = r]
               /\ r \in Outcomes
               /\ r = "untyped" => c \notin Writes
    BY <2>5 DEF Contract!Return, Contract!Outcomes
  <2> QED BY <2>1, <2>2, <2>3, <2>4, <2>5 DEF Contract!ContractNext
<1> HIDE DEF Typed, Results
<1>3. Contract!ContractSpec => []Typed
  BY <1>1, <1>2, PTL DEF Contract!ContractSpec
<1>4. Spec => []Typed
  BY <1>3, TransportKeepsContract DEF KeepsContract
<1> QED BY <1>4 DEF Typed

-----------------------------------------------------------------------------
(* The four exchanges of a call.                                            *)

\* A step of one call takes that call forward and leaves the others alone.
LEMMA CallAdvances ==
    ASSUME Inv, NEW c \in Calls, CallStep(c), NEW d \in Calls, Running(d)
    PROVE  Left(d)' < Left(d) \/ UNCHANGED <<pc[d], relogin[d]>>
<1>1. CASE d # c
  <2>1. UNCHANGED <<pc[d], relogin[d]>>
    BY <1>1 DEF Inv, TypeOK, CallStep, Start, ReceiveLogin, ReceiveAnswer, LoginFails,
                RequestFails, FailExchange, ConsoleLogin, ConsoleRequest, clientVars,
                Issue, LogIn, Return
  <2> QED BY <2>1
<1>2. CASE d = c /\ pc'[c] = "done" /\ c \in DOMAIN pc
  BY <1>2 DEF Left, Running
<1>3. CASE d = c /\ ReceiveLogin(c)
  <2>1. \/ pc' = [pc EXCEPT ![c] = "done"]
        \/ pc' = [pc EXCEPT ![c] = "request"] /\ relogin' = relogin
    BY <1>3 DEF ReceiveLogin, Return, Issue
  <2> QED BY <1>2, <1>3, <2>1 DEF Left, ReceiveLogin, Inv, TypeOK
<1>4. CASE d = c /\ ReceiveAnswer(c)
  <2>1. \/ pc' = [pc EXCEPT ![c] = "done"]
        \/ /\ pc' = [pc EXCEPT ![c] = "login"]
           /\ ~relogin[c] /\ relogin' = [relogin EXCEPT ![c] = TRUE]
    BY <1>4 DEF ReceiveAnswer, Return, LogIn, RetriesAfter
  <2> QED BY <1>2, <1>4, <2>1 DEF Left, ReceiveAnswer, Inv, TypeOK
<1>5. ASSUME d = c, NEW failure \in WireFailures,
             LoginFails(c, failure) \/ RequestFails(c, failure)
      PROVE  Left(d)' < Left(d)
  BY <1>2, <1>5 DEF LoginFails, RequestFails, FailExchange, Return, Inv, TypeOK
<1>6. CASE d = c /\ (ConsoleLogin(c) \/ ConsoleRequest(c))
  BY <1>6 DEF ConsoleLogin, ConsoleRequest, clientVars
<1> QED BY <1>1, <1>3, <1>4, <1>5, <1>6 DEF CallStep, Start

\* No call makes more than four exchanges, however many calls run beside it.
THEOREM CallsOnlyAdvance == Spec => CallsAdvance
<1>1. Inv /\ [Next]_vars =>
         [\A c \in Calls :
             Running(c) => Left(c)' < Left(c) \/ UNCHANGED <<pc[c], relogin[c]>>]_vars
  <2> SUFFICES ASSUME Inv, Next, NEW d \in Calls, Running(d)
               PROVE  Left(d)' < Left(d) \/ UNCHANGED <<pc[d], relogin[d]>>
    OBVIOUS
  <2>1. CASE ChangeCredential \/ (\E s \in Sessions : RevokeSession(s))
    BY <2>1 DEF ChangeCredential, RevokeSession, clientVars
  <2> QED BY <2>1, CallAdvances DEF Next
<1> QED BY <1>1, Invariance, PTL DEF Spec, CallsAdvance

=============================================================================
