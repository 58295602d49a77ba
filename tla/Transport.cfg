SPECIFICATION FairSpec
CONSTANTS
    Calls = {poll, command}
    Writes = {command}
    Sessions = {s1, s2}
    NoToken = NoToken
    CanReauth = TRUE
    LoginAnswers = {"granted", "refused", "no_verdict"}
INVARIANTS
    TypeOK
    NoUnauthenticatedRequest
    AuthIsVerdict
    ReloginHeals
    MessageFollowsCommand
PROPERTIES
    KeepsContract
    CallsAdvance
    EveryCallReturns
