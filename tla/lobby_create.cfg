SPECIFICATION Spec
CONSTANTS
    Workers = {w1, w2, w3}
    Users = {u1, u2}
    LobbyIDs = {l1, l2, l3}
    PlayerIDs = {r1, r2, r3}
    JoinCodes = {c1, c2}
    Spellings = {c1, c2}
    MaxPlayers = 2
    MaxRetries = 2
    Ops = {"create"}
    None = None
SYMMETRY Symmetry
INVARIANTS
    ReferentialIntegrity
    UniqueJoinCodes
    CreatedCodeWorks
    NoLockCycle
