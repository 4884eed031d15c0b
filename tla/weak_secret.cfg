SPECIFICATION MCSpec
CONSTANTS
    Workers = {w1}
    Limits = {2}
    MaxIdle = 2
    MaxRetries = 1
    Processes = {p1}
    Last = 1
    MaxFailures = 0
    Clients = {a}
    Users = {a}
    Headers = {n1}
    Names <- MCNames
    Secrets <- MCSecrets
    Keys <- MCKeys
    ForeignTokens <- MCForeignTokens
    Lifetime = 4
    MaxTime = 5
    MaxTokens = 1
    None = None
INVARIANTS
    WeakSecretsFail
CHECK_DEADLOCK FALSE
