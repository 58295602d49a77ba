SPECIFICATION Spec
CONSTANTS
    Calls = {poll}
    Writes = {}
    Sessions = {s1, s2}
    NoToken = NoToken
    CanReauth = TRUE
    LoginAnswers = {"granted", "refused", "no_verdict", "other_4xx", "page"}
INVARIANT AuthIsVerdict
