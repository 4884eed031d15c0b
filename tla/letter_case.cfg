SPECIFICATION Spec
CONSTANTS
    Code = C
    LowerCode = c
    Workers = {w1}
    Users = {u1, u2}
    LobbyIDs = {l1}
    PlayerIDs = {r1, r2}
    JoinCodes <- MCJoinCodes
    Spellings <- MCSpellings
    MaxPlayers = 2
    MaxRetries = 1
    Ops = {"create", "join"}
    None = None
PROPERTIES
    CaseInsensitiveJoin
