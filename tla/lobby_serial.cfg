SPECIFICATION Spec
CONSTANTS
    Workers = {w1}
    Users = {u1, u2, u3}
    LobbyIDs = {l1, l2}
    PlayerIDs = {r1, r2, r3, r4}
    JoinCodes = {c1, c2}
    Spellings = {c1, c2, x1}
    MaxPlayers = 2
    MaxRetries = 1
    Ops = {"create", "join", "kick", "get", "malformed"}
    None = None
SYMMETRY Symmetry
INVARIANTS
    LobbyNeverOverfull
    NoDuplicateMember
PROPERTIES
    SerialMembershipImplemented
