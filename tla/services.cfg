SPECIFICATION MCSpec
CONSTANTS
    Workers = {w1, w2}
    Limits = {2, 4}
    MaxIdle = 2
    MaxRetries = 2
    Processes = {p1, p2}
    Last = 2
    MaxFailures = 2
    Clients = {a, b}
    Users = {a}
    Headers = {n1, n2}
    Names <- MCNames
    Secrets <- MCSecrets
    Keys <- MCKeys
    ForeignTokens <- MCForeignTokens
    Lifetime = 4
    MaxTime = 5
    MaxTokens = 1
    None = None
INVARIANTS
    NoneLost
    EnoughForAll
    ServesMigrated
    DetailsAgree
    TokensTypeOK
    ValidOnlyIfFresh
    IssuedTokensJudgedByAge
PROPERTIES
    RequestsAnswered
    EveryStartEnds
    SomeoneListens
    NameStays
CHECK_DEADLOCK FALSE
