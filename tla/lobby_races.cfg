SPECIFICATION Spec
CONSTANTS
    Scenarios <- Races
    Workers = {w1, w2}
    Users = {u1, u2, u3}
    LobbyIDs = {l1, l2}
    PlayerIDs = {r1, r2, r3, r4}
    JoinCodes = {c1, c2}
    Spellings = {c1, c2}
    MaxPlayers = 2
    MaxRetries = 1
    Ops = {"create", "join", "kick", "get"}
    None = None
SYMMETRY Symmetry
CONSTRAINT InScenario
INVARIANTS
    TypeOK
    LeaderIsMember
    CapacityBound
    DuplicateBound
    GetOnlyForMembers
PROPERTIES
    OnlyLeaderRemoves
    StatementsBounded
