SPECIFICATION FairSpec
CONSTANTS
    Scenarios <- Waits
    Workers = {w1, w2}
    Users = {a, b}
    LobbyIDs = {l1, l2}
    PlayerIDs = {b, r}
    JoinCodes = {c1}
    Spellings = {c1}
    MaxPlayers = 2
    MaxRetries = 2
    Ops = {"create", "join", "kick", "update"}
    None = None
CONSTRAINT InScenario
INVARIANTS
    MembershipInv
PROPERTIES
    KickedRowsAreGone
    EveryRequestAnswered
    MembershipImplemented
