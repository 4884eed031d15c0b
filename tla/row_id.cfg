SPECIFICATION Spec
CONSTANTS
    Workers = {w1, w2}
    Users = {u1, u2}
    LobbyIDs = {l1}
    PlayerIDs = {r1, r2}
    JoinCodes = {c1}
    Spellings = {c1}
    MaxPlayers = 2
    MaxRetries = 1
    Ops = {"create", "update"}
    None = None
SYMMETRY Symmetry
PROPERTIES
    UpdateFindsPlayer
