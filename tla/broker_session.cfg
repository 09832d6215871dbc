CONSTANTS
    Threads = {t1, t2}
    Unit = 3
    Rate = 1
    Capacity = 4
    MaxOversleep = 1
    MaxTime = 6
    MaxRequests = 3
    Nobody = Nobody
    Writers = {w1}
    Names = {token, secret}
    TokenName = token
    ApiSecret = secret
    EnvTokens = {None, 0}
    MaxTokens = 2
    None = None
SPECIFICATION SessionSpec
INVARIANTS RateBounded HeldBriefly SecretsSurvive LoneCallIsFresh
CHECK_DEADLOCK FALSE
