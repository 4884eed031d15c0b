------------------------- MODULE LobbyBoundsProofs -------------------------
(***************************************************************************)
(* How far concurrent joins overrun a lobby: the seats of a lobby, and of  *)
(* a user in a lobby, are bounded by the number of concurrent requests.    *)
(* One request at a time keeps the bounds exactly, and the stricter        *)
(* specification of membership.                                            *)
(***************************************************************************)
EXTENDS MembershipProofs, FiniteSetTheorems

EnteringPCs == {"join_user", "join_player", "join_commit"}
CountedPCs == EnteringPCs \cup {"join_member"}

\* The requests past the membership check for user u in lobby l, ...
Entering(l, u) ==
    {p \in Workers : /\ pc[p] \in EnteringPCs
                     /\ loc[p].lobby = l
                     /\ req[p].user = u}

\* ... and those past the check of its capacity.
Counted(l) == {p \in Workers : pc[p] \in CountedPCs /\ loc[p].lobby = l}

\* Each of them may still take a seat.
SeatsOfUserBounded ==
    \A lobby \in lobbies, u \in Users :
        Cardinality(RowsOf(lobby.id, u)) + Cardinality(Entering(lobby.id, u))
            <= Cardinality(Workers)

SeatsBounded ==
    \A lobby \in lobbies :
        Cardinality(ActiveRows(lobby.id)) + Cardinality(Counted(lobby.id))
            <= MaxPlayers + Cardinality(Workers) - 1

\* Nobody calls the update endpoint, or no UUID is both a user's and a row's.
IdsApart == "update" \notin Ops \/ Users \cap PlayerIDs = {}

\* What passes the check of an update as a user's id is no row's id.
UpdatesFutile ==
    \A p \in Workers : pc[p] \in UpdatePCs =>
        /\ "update" \in Ops
        /\ pc[p] \in {"update_scan", "update_write"} => req[p].player_id \in Users
        /\ pc[p] # "update_commit"

-----------------------------------------------------------------------------
(* Sums of cardinalities.                                                  *)

\* One more element of one set, or of the other.
LEMMA Adds ==
    ASSUME NEW S, IsFiniteSet(S), NEW x
    PROVE  IsFiniteSet(S \cup {x}) /\ Cardinality(S \cup {x}) <= Cardinality(S) + 1
<1>1. Cardinality(S) \in Nat
    BY FS_CardinalityType
<1>2. /\ IsFiniteSet(S \cup {x})
      /\ Cardinality(S \cup {x}) = IF x \in S THEN Cardinality(S) ELSE Cardinality(S) + 1
    BY FS_AddElement
<1> QED
    BY <1>1, <1>2

\* Smaller sets keep the bound.
LEMMA Shrinks ==
    ASSUME NEW S, IsFiniteSet(S), NEW T, IsFiniteSet(T), NEW n \in Int,
           Cardinality(S) + Cardinality(T) <= n,
           NEW S2, S2 \subseteq S, NEW T2, T2 \subseteq T
    PROVE  Cardinality(S2) + Cardinality(T2) <= n
<1>1. /\ IsFiniteSet(S2) /\ Cardinality(S2) <= Cardinality(S)
      /\ IsFiniteSet(T2) /\ Cardinality(T2) <= Cardinality(T)
    BY FS_Subset
<1>2. /\ Cardinality(S) \in Nat /\ Cardinality(T) \in Nat
      /\ Cardinality(S2) \in Nat /\ Cardinality(T2) \in Nat
    BY <1>1, FS_CardinalityType
<1> QED
    BY <1>1, <1>2

\* One element of T makes room for one of S.
LEMMA Moves ==
    ASSUME NEW S, IsFiniteSet(S), NEW T, IsFiniteSet(T), NEW n \in Int,
           Cardinality(S) + Cardinality(T) <= n, NEW x, NEW y \in T
    PROVE  /\ IsFiniteSet(S \cup {x}) /\ IsFiniteSet(T \ {y})
           /\ Cardinality(S \cup {x}) + Cardinality(T \ {y}) <= n
<1>1. /\ IsFiniteSet(S \cup {x}) /\ Cardinality(S \cup {x}) <= Cardinality(S) + 1
      /\ IsFiniteSet(T \ {y}) /\ Cardinality(T \ {y}) = Cardinality(T) - 1
    BY Adds, FS_RemoveElement
<1>2. /\ Cardinality(S) \in Nat /\ Cardinality(T) \in Nat
      /\ Cardinality(S \cup {x}) \in Nat
    BY <1>1, FS_CardinalityType
<1> QED
    BY <1>1, <1>2

\* One element of S gives way to another.
LEMMA Replaces ==
    ASSUME NEW S, IsFiniteSet(S), NEW T, IsFiniteSet(T), NEW n \in Int,
           Cardinality(S) + Cardinality(T) <= n, NEW x \in S, NEW y,
           NEW S2, S2 \subseteq (S \ {x}) \cup {y}, NEW T2, T2 \subseteq T
    PROVE  Cardinality(S2) + Cardinality(T2) <= n
<1>1. IsFiniteSet(S \ {x}) /\ Cardinality(S \ {x}) = Cardinality(S) - 1
    BY FS_RemoveElement
<1>2. /\ IsFiniteSet((S \ {x}) \cup {y})
      /\ Cardinality((S \ {x}) \cup {y}) <= Cardinality(S \ {x}) + 1
    BY <1>1, Adds
<1>3. /\ Cardinality(S) \in Nat /\ Cardinality(T) \in Nat
      /\ Cardinality((S \ {x}) \cup {y}) \in Nat
    BY <1>2, FS_CardinalityType
<1>4. Cardinality((S \ {x}) \cup {y}) + Cardinality(T) <= n
    BY <1>1, <1>2, <1>3
<1> QED
    BY <1>2, <1>4, Shrinks

\* One element of S alone.
LEMMA Begins ==
    ASSUME NEW x, NEW S, S \subseteq {x}, NEW T, T = {}, NEW n \in Int, n >= 1
    PROVE  Cardinality(S) + Cardinality(T) <= n
<1>1. /\ IsFiniteSet({x}) /\ Cardinality({x}) = 1
      /\ IsFiniteSet({}) /\ Cardinality({}) = 0
    BY FS_Singleton, FS_EmptySet
<1> QED
    BY <1>1, Shrinks

-----------------------------------------------------------------------------
(* What steps and commits do to the sets that are counted.                 *)

\* A request passes each check once, at the statement that makes it.
LEMMA StepPasses ==
    ASSUME TypeInv, NEW p \in Workers, Step(p)
    PROVE  /\ pc'[p] \in EnteringPCs =>
                /\ loc'[p] = loc[p] /\ req'[p] = req[p]
                /\ \/ pc[p] \in EnteringPCs
                   \/ ~IsMember(loc[p].lobby, req[p].user)
           /\ pc'[p] \in CountedPCs =>
                /\ loc'[p] = loc[p]
                /\ pc[p] \in CountedPCs \/ ~LobbyFull(loc[p].lobby)
<1> USE DEF EnteringPCs, CountedPCs
<1>1. CASE Endpoint(p)
    BY <1>1, EndpointLocal DEF Endpoint
<1>2. CASE Create(p)
    BY <1>2, CreateLocal DEF Continues, CreatePCs
<1>3. CASE Join(p)
    <2>1. CASE JoinLookup(p)
        BY <2>1, AdvanceLocal, RefuseLocal DEF JoinLookup
    <2>2. CASE JoinCount(p)
        BY <2>2, AdvanceLocal, RefuseLocal DEF JoinCount
    <2>3. CASE JoinMember(p)
        BY <2>3, AdvanceLocal, RefuseLocal DEF JoinMember, AlreadyInLobby
    <2>4. CASE JoinUser(p)
        BY <2>4, AdvanceLocal DEF JoinUser
    <2>5. CASE JoinPlayer(p)
        BY <2>5, AdvanceLocal DEF JoinPlayer
    <2>6. CASE JoinCommit(p)
        BY <2>6, AdvanceLocal DEF JoinCommit
    <2>7. CASE JoinDetail(p)
        BY <2>7, ReplyLocal DEF JoinDetail
    <2> QED
        BY <1>3, <2>1, <2>2, <2>3, <2>4, <2>5, <2>6, <2>7 DEF Join
<1>4. CASE Kick(p)
    BY <1>4, KickLocal DEF Continues, KickPCs
<1>5. CASE Get(p)
    BY <1>5, GetLocal DEF Continues, GetPCs
<1>6. CASE Update(p)
    BY <1>6, UpdateLocal DEF Continues, UpdatePCs
<1>7. CASE Fault(p)
    BY <1>7, FaultLocal DEF Fault
<1> QED
    BY <1>1, <1>2, <1>3, <1>4, <1>5, <1>6, <1>7 DEF Step, Handle

\* The kinds of commits, by their effect on lobbies and seats.
CommitsCreate(p) ==
    /\ pc[p] = "create_commit"
    /\ lobbies' = lobbies \cup {NewLobby(p)}
    /\ \E id : players' = players \cup {NewSeat(p, id)}
    /\ \A lobby \in lobbies : lobby.id # loc[p].lobby
    /\ \A row \in players : row.lobby_id # loc[p].lobby

CommitsJoin(p) ==
    /\ pc[p] = "join_commit"
    /\ UNCHANGED lobbies
    /\ \E id : players' = players \cup {NewSeat(p, id)}

CommitsKick(p) ==
    /\ UNCHANGED lobbies
    /\ players' \subseteq players

CommitsUpdate(p) ==
    /\ pc[p] = "update_commit"
    /\ UNCHANGED lobbies
    /\ \E row \in players : \E new : /\ SameRow(row, new)
                                      /\ players' = (players \ {row}) \cup {new}

\* What the commit of each kind of request does to the rows of players.
LEMMA CommitKinds ==
    ASSUME MembershipInv, NEW p \in Workers, Commits(p)
    PROVE  CommitsCreate(p) \/ CommitsJoin(p) \/ CommitsKick(p) \/ CommitsUpdate(p)
<1>0. ChangesInv /\ SafetyInv
    BY DEF MembershipInv, ChangesInv
<1>1. /\ lobbies' = lobbies \cup tx[p].lobbies
      /\ players' = (players \ tx[p].removed) \cup tx[p].added
    BY DEF Commits, CommitTx
<1>2. CASE pc[p] = "create_commit"
    <2>1. Creates(p) /\ Inserts(p)
        BY <1>0, <1>2, Committed DEF InsertPCs
    <2>2. \A lobby \in lobbies : lobby.id # loc[p].lobby
        <3>1. /\ NewLobby(p) \in KnownLobbies /\ NewLobby(p) \notin lobbies
              /\ lobbies \subseteq KnownLobbies
            BY <1>0, <2>1 DEF Creates, KnownLobbies, ChangesInv, LobbiesUnique
        <3>2. NewLobby(p).id = loc[p].lobby
            BY DEF NewLobby
        <3> HIDE DEF NewLobby
        <3> QED
            BY <1>0, <3>1, <3>2 DEF SafetyInv, LeaderInv, LobbyIdentity
    <2>3. \A row \in players : row.lobby_id # loc[p].lobby
        BY <1>0, <2>2 DEF SafetyInv, ReferentialIntegrity, LobbyExists
    <2> QED
        BY <1>1, <1>2, <2>1, <2>2, <2>3 DEF CommitsCreate, Creates, Inserts
<1>3. CASE pc[p] = "join_commit"
    BY <1>0, <1>1, <1>3, Committed DEF CommitsJoin, Inserts, InsertPCs
<1>4. CASE pc[p] = "kick_commit"
    BY <1>0, <1>1, <1>4, Committed DEF CommitsKick, InsertPCs
<1>5. CASE pc[p] = "update_commit"
    <2>1. tx[p].lobbies = {} /\ Rewrites(p)
        BY <1>0, <1>5, Committed DEF InsertPCs
    <2>2. PICK row \in PlayerRow :
             /\ tx[p].removed = {row}
             /\ tx[p].added = {[row EXCEPT !.is_active = req[p].is_active]}
        BY <2>1 DEF Rewrites
    <2>3. row \in players
        BY <1>0, <2>2 DEF ChangesInv, RowsLocked
    <2>4. SameRow(row, [row EXCEPT !.is_active = req[p].is_active])
        BY DEF SameRow, PlayerRow
    <2> QED
        BY <1>1, <1>5, <2>1, <2>2, <2>3, <2>4 DEF CommitsUpdate
<1> QED
    BY <1>2, <1>3, <1>4, <1>5 DEF Commits, CommitPCs

\* The table of players stays finite.
LEMMA FinitePlayers ==
    ASSUME MembershipInv, IsFiniteSet(players), NEW p \in Workers, Step(p)
    PROVE  IsFiniteSet(players')
<1>1. CASE UNCHANGED <<lobbies, players>>
    BY <1>1
<1>2. CASE Commits(p)
    <2>1. \/ players' \subseteq players
          \/ \E new : players' \subseteq players \cup {new}
        BY <1>2, CommitKinds DEF CommitsCreate, CommitsJoin, CommitsKick, CommitsUpdate
    <2> QED
        BY <2>1, FS_Subset, FS_AddElement
<1> QED
    BY <1>1, <1>2, StepCommits DEF MembershipInv, SafetyInv, LeaderInv

-----------------------------------------------------------------------------
(* The seats of a user.                                                    *)

\* A step of any worker keeps the rows of a user in a lobby, with the requests
\* about to insert another one, within the number of workers.
LEMMA StepSeatsOfUser ==
    ASSUME IsFiniteSet(Workers), MembershipInv, IsFiniteSet(players),
           SeatsOfUserBounded, NEW p \in Workers, Step(p)
    PROVE  SeatsOfUserBounded'
<1> DEFINE n == Cardinality(Workers)
<1>0. TypeInv /\ SafetyInv /\ n \in Int /\ n >= 1
    BY FS_EmptySet, FS_CardinalityType DEF MembershipInv, SafetyInv, LeaderInv
<1> SUFFICES ASSUME NEW lobby \in lobbies', NEW u \in Users
             PROVE  Cardinality(RowsOf(lobby.id, u)') + Cardinality(Entering(lobby.id, u)') <= n
    BY DEF SeatsOfUserBounded
<1> DEFINE R == RowsOf(lobby.id, u)
           E == Entering(lobby.id, u)
<1>1. \A q \in Workers \ {p} : q \in E' => q \in E
    BY <1>0, StepLocal DEF LocalTo, Entering
<1>2. IsFiniteSet(R) /\ IsFiniteSet(E) /\ E' \subseteq Workers
    <2>1. R \subseteq players /\ E \subseteq Workers /\ E' \subseteq Workers
        BY DEF RowsOf, PlayersOf, Entering
    <2> QED
        BY <2>1, FS_Subset
<1>3. /\ \A row : row \in R <=> /\ row \in players
                                /\ row.lobby_id = lobby.id /\ row.user_id = u
      /\ \A row : row \in R' <=> /\ row \in players'
                                 /\ row.lobby_id = lobby.id /\ row.user_id = u
    BY DEF RowsOf, PlayersOf
<1>4. /\ p \in E <=> pc[p] \in EnteringPCs /\ loc[p].lobby = lobby.id /\ req[p].user = u
      /\ p \in E' <=> pc'[p] \in EnteringPCs /\ loc'[p].lobby = lobby.id /\ req'[p].user = u
    BY DEF Entering
<1>5. E # {} => LobbyExists(lobby.id)
    BY <1>0 DEF Entering, EnteringPCs, SafetyInv, LobbyFound, JoinPCs
<1>6. lobby \in lobbies => Cardinality(R) + Cardinality(E) <= n
    BY DEF SeatsOfUserBounded
<1> SUFFICES Cardinality(R') + Cardinality(E') <= n
    OBVIOUS
<1> HIDE DEF R, E, n
<1>7. CASE UNCHANGED <<lobbies, players>>
    <2>1. R' = R /\ lobby \in lobbies
        BY <1>3, <1>7
    <2>2. CASE E' \subseteq E
        BY <1>0, <1>2, <1>6, <2>1, <2>2, Shrinks
    <2>3. CASE ~(E' \subseteq E)
        <3>1. p \in E' /\ p \notin E
            BY <1>1, <1>2, <2>3
        <3>2. ~IsMember(lobby.id, u)
            BY <1>0, <1>4, <3>1, StepPasses
        <3>3. R' = {}
            BY <1>3, <2>1, <3>2 DEF IsMember, PlayersOf
        <3>4. Cardinality({}) + Cardinality(Workers) <= n
            BY <1>0, FS_EmptySet DEF n
        <3> QED
            BY <1>0, <1>2, <3>3, <3>4, FS_EmptySet, Shrinks
    <2> QED
        BY <2>2, <2>3
<1>8. CASE Commits(p)
    <2>1. E' \subseteq E \ {p}
        BY <1>1, <1>2, <1>4, <1>8 DEF Commits, EnteringPCs
    <2>2. ASSUME lobby \in lobbies, R' \subseteq R PROVE Cardinality(R') + Cardinality(E') <= n
        BY <1>0, <1>2, <1>6, <2>1, <2>2, Shrinks
    <2>3. CASE CommitsCreate(p)
        <3>1. PICK id : players' = players \cup {NewSeat(p, id)}
            BY <2>3 DEF CommitsCreate
        <3>2. CASE lobby \in lobbies
            <4>1. lobby.id # NewSeat(p, id).lobby_id
                BY <2>3, <3>2 DEF CommitsCreate, NewSeat
            <4> QED
                BY <1>3, <2>2, <3>1, <3>2, <4>1
        <3>3. CASE lobby = NewLobby(p)
            <4>1. lobby.id = loc[p].lobby
                BY <3>3 DEF NewLobby
            <4>2. R' \subseteq {NewSeat(p, id)}
                BY <1>3, <2>3, <3>1, <4>1 DEF CommitsCreate
            <4>3. E' = {}
                BY <1>5, <2>1, <2>3, <4>1 DEF CommitsCreate, LobbyExists
            <4> QED
                BY <1>0, <4>2, <4>3, Begins
        <3> QED
            BY <2>3, <3>2, <3>3 DEF CommitsCreate
    <2>4. CASE CommitsJoin(p)
        <3>1. PICK id : players' = players \cup {NewSeat(p, id)}
            BY <2>4 DEF CommitsJoin
        <3>2. lobby \in lobbies /\ pc[p] = "join_commit"
            BY <2>4 DEF CommitsJoin
        <3>3. CASE p \in E
            <4>1. PICK new : R' \subseteq R \cup {new}
                BY <1>3, <3>1
            <4>2. Cardinality(R) + Cardinality(E) <= n /\ E' \subseteq E \ {p}
                BY <1>6, <2>1, <3>2
            <4>3. n \in Int /\ IsFiniteSet(R) /\ IsFiniteSet(E)
                BY <1>0, <1>2
            <4>4. /\ IsFiniteSet(R \cup {new}) /\ IsFiniteSet(E \ {p})
                  /\ Cardinality(R \cup {new}) + Cardinality(E \ {p}) <= n
                BY <3>3, <4>2, <4>3, Moves
            <4> QED
                BY <4>1, <4>2, <4>3, <4>4, Shrinks
        <3>4. CASE p \notin E
            BY <1>3, <1>4, <2>2, <3>1, <3>2, <3>4 DEF EnteringPCs, NewSeat
        <3> QED
            BY <3>3, <3>4
    <2>5. CASE CommitsKick(p)
        BY <1>3, <2>2, <2>5 DEF CommitsKick
    <2>6. CASE CommitsUpdate(p)
        <3>0. PICK row \in players :
                 \E new : /\ SameRow(row, new)
                          /\ players' = (players \ {row}) \cup {new}
            BY <2>6 DEF CommitsUpdate
        <3>1. PICK new : /\ SameRow(row, new)
                         /\ players' = (players \ {row}) \cup {new}
            BY <3>0
        <3>2. lobby \in lobbies
            BY <2>6 DEF CommitsUpdate
        <3>3. CASE row \in R
            <4>1. R' \subseteq (R \ {row}) \cup {new}
                BY <1>3, <3>1
            <4>2. Cardinality(R) + Cardinality(E) <= n /\ E' \subseteq E
                BY <1>6, <2>1, <3>2
            <4>3. n \in Int /\ IsFiniteSet(R) /\ IsFiniteSet(E)
                BY <1>0, <1>2
            <4> QED
                BY <3>3, <4>1, <4>2, <4>3, Replaces
        <3>4. CASE row \notin R
            BY <1>3, <2>2, <3>1, <3>2, <3>4 DEF SameRow
        <3> QED
            BY <3>3, <3>4
    <2> QED
        BY <1>8, <2>3, <2>4, <2>5, <2>6, CommitKinds
<1> QED
    BY <1>0, <1>7, <1>8, StepCommits

-----------------------------------------------------------------------------
(* The seats of a lobby, where is_active is not updated.                   *)

\* The handler compares a path's UUID with user ids (IsMemberTx) and then with
\* row ids (UpdatePlayerActiveStatusTx): it finds nothing to update.
LEMMA StepFutile ==
    ASSUME IdsApart, TypeInv, OneChange, UpdatesFutile, NEW p \in Workers, Step(p)
    PROVE  UpdatesFutile'
<1>1. SUFFICES ASSUME pc'[p] \in UpdatePCs
               PROVE  /\ "update" \in Ops
                      /\ pc'[p] \in {"update_scan", "update_write"} =>
                           req'[p].player_id \in Users
                      /\ pc'[p] # "update_commit"
    BY <1>1, StepLocal DEF UpdatesFutile, LocalTo
<1>2. CASE Receive(p)
    <2>1. PICK r \in ValidRequests : /\ r.op \in Ops
                                     /\ pc' = [pc EXCEPT ![p] = Entry(r.op)]
        BY <1>2 DEF Receive
    <2>2. r.op \in {"create", "join", "kick", "get", "update"}
        BY <2>1
        DEF ValidRequests, CreateRequest, JoinRequest, KickRequest, GetRequest, UpdateRequest
    <2>3. r.op = "update" /\ pc'[p] = "update_lobby"
        BY <1>1, <2>1, <2>2 DEF Entry, UpdatePCs, TypeInv, TypeOK
    <2> QED
        BY <2>1, <2>3
<1>3. CASE ReceiveMalformed(p) \/ Deliver(p)
    BY <1>1, <1>3 DEF ReceiveMalformed, Deliver, UpdatePCs, TypeInv, TypeOK
<1>4. CASE Create(p) \/ Join(p) \/ Kick(p) \/ Get(p)
    BY <1>1, <1>4, CreateLocal, JoinLocal, KickLocal, GetLocal
    DEF Continues, CreatePCs, JoinPCs, KickPCs, GetPCs, UpdatePCs
<1>5. CASE Update(p)
    <2>1. pc[p] \in UpdatePCs /\ "update" \in Ops
        BY <1>1, <1>5, UpdateLocal DEF UpdatesFutile, Continues
    <2>2. CASE UpdateLobby(p)
        BY <1>1, <2>1, <2>2, AdvanceLocal, RefuseLocal DEF UpdateLobby, UpdatePCs
    <2>3. CASE UpdateMember(p)
        <3>1. Advance(p, "update_member", "update_scan")
              /\ IsMember(req[p].lobby_id, req[p].player_id)
            BY <1>1, <2>3, RefuseLocal DEF UpdateMember, UpdatePCs
        <3>2. req[p].player_id \in Users
            BY <3>1 DEF IsMember, PlayersOf, TypeInv, TypeOK, RepositoryTypeOK, PlayerRow
        <3> QED
            BY <2>1, <3>1, <3>2, AdvanceLocal
    <2>4. CASE UpdateScan(p)
        BY <2>1, <2>4, AdvanceLocal DEF UpdateScan, UpdatesFutile, Advance
    <2>5. CASE UpdateWrite(p)
        <3>1. pc[p] = "update_write" /\ Surviving(loc[p].rows) # {}
            BY <1>1, <2>5, RefuseLocal DEF UpdateWrite, UpdatePCs, Advance
        <3>2. loc[p].rows \subseteq {req[p].player_id} /\ req[p].player_id \in Users
            BY <3>1 DEF OneChange, ChangeOf, UpdatesFutile, UpdatePCs
        <3>3. PICK row \in players : row.id = req[p].player_id
            BY <3>1, <3>2 DEF Surviving
        <3>4. row.id \in PlayerIDs
            BY DEF TypeInv, TypeOK, RepositoryTypeOK, PlayerRow
        <3> QED
            BY <2>1, <3>2, <3>3, <3>4 DEF IdsApart
    <2>6. CASE UpdateCommit(p)
        BY <2>1, <2>6 DEF UpdateCommit, UpdatesFutile
    <2> QED
        BY <1>5, <2>2, <2>3, <2>4, <2>5, <2>6 DEF Update
<1>6. CASE Fault(p)
    BY <1>1, <1>6, FaultLocal DEF Fault, UpdatePCs
<1> QED
    BY <1>2, <1>3, <1>4, <1>5, <1>6 DEF Step, Endpoint, Handle

\* So it does with all active rows of a lobby and maxPlayers.
LEMMA StepSeats ==
    ASSUME IsFiniteSet(Workers), MembershipInv, IsFiniteSet(players), UpdatesFutile,
           SeatsBounded, NEW p \in Workers, Step(p)
    PROVE  SeatsBounded'
<1> DEFINE n == MaxPlayers + Cardinality(Workers) - 1
<1>0. /\ TypeInv /\ SafetyInv /\ n \in Int /\ n >= 1
      /\ Cardinality(Workers) \in Nat /\ MaxPlayers \in Nat
    BY FS_EmptySet, FS_CardinalityType, MaxPlayersAssumption
    DEF MembershipInv, SafetyInv, LeaderInv
<1> SUFFICES ASSUME NEW lobby \in lobbies'
             PROVE  Cardinality(ActiveRows(lobby.id)') + Cardinality(Counted(lobby.id)') <= n
    BY DEF SeatsBounded
<1> DEFINE R == ActiveRows(lobby.id)
           E == Counted(lobby.id)
<1>1. \A q \in Workers \ {p} : q \in E' => q \in E
    BY <1>0, StepLocal DEF LocalTo, Counted
<1>2. IsFiniteSet(R) /\ IsFiniteSet(E) /\ E' \subseteq Workers
    <2>1. R \subseteq players /\ E \subseteq Workers /\ E' \subseteq Workers
        BY DEF ActiveRows, PlayersOf, Counted
    <2> QED
        BY <2>1, FS_Subset
<1>3. /\ \A row : row \in R <=> row \in players /\ row.lobby_id = lobby.id /\ row.is_active
      /\ \A row : row \in R' <=> row \in players' /\ row.lobby_id = lobby.id /\ row.is_active
    BY DEF ActiveRows, PlayersOf
<1>4. /\ p \in E <=> pc[p] \in CountedPCs /\ loc[p].lobby = lobby.id
      /\ p \in E' <=> pc'[p] \in CountedPCs /\ loc'[p].lobby = lobby.id
    BY DEF Counted
<1>5. E # {} => LobbyExists(lobby.id)
    BY <1>0 DEF Counted, CountedPCs, EnteringPCs, SafetyInv, LobbyFound, JoinPCs
<1>6. lobby \in lobbies => Cardinality(R) + Cardinality(E) <= n
    BY DEF SeatsBounded
<1>f. LobbyFull(lobby.id) <=> Cardinality(R) >= MaxPlayers
    BY DEF LobbyFull, GetLobbyPlayerCountTx, ActiveRows
<1> SUFFICES Cardinality(R') + Cardinality(E') <= n
    OBVIOUS
<1> HIDE DEF R, E, n
<1>7. CASE UNCHANGED <<lobbies, players>>
    <2>1. R' = R /\ lobby \in lobbies
        BY <1>3, <1>7
    <2>2. CASE E' \subseteq E
        BY <1>0, <1>2, <1>6, <2>1, <2>2, Shrinks
    <2>3. CASE ~(E' \subseteq E)
        <3>1. p \in E' /\ p \notin E
            BY <1>1, <1>2, <2>3
        <3>2. ~LobbyFull(lobby.id)
            BY <1>0, <1>4, <3>1, StepPasses
        <3>3. Cardinality(R) \in Nat
            BY <1>2, FS_CardinalityType
        <3>4. Cardinality(R) + Cardinality(Workers) <= n
            BY <1>0, <1>f, <3>2, <3>3 DEF n
        <3> QED
            BY <1>0, <1>2, <2>1, <3>4, Shrinks
    <2> QED
        BY <2>2, <2>3
<1>8. CASE Commits(p)
    <2>1. E' \subseteq E \ {p}
        BY <1>1, <1>2, <1>4, <1>8 DEF Commits, CountedPCs, EnteringPCs
    <2>2. ASSUME lobby \in lobbies, R' \subseteq R PROVE Cardinality(R') + Cardinality(E') <= n
        BY <1>0, <1>2, <1>6, <2>1, <2>2, Shrinks
    <2>3. CASE CommitsCreate(p)
        <3>1. PICK id : players' = players \cup {NewSeat(p, id)}
            BY <2>3 DEF CommitsCreate
        <3>2. CASE lobby \in lobbies
            <4>1. lobby.id # NewSeat(p, id).lobby_id
                BY <2>3, <3>2 DEF CommitsCreate, NewSeat
            <4> QED
                BY <1>3, <2>2, <3>1, <3>2, <4>1
        <3>3. CASE lobby = NewLobby(p)
            <4>1. lobby.id = loc[p].lobby
                BY <3>3 DEF NewLobby
            <4>2. R' \subseteq {NewSeat(p, id)}
                BY <1>3, <2>3, <3>1, <4>1 DEF CommitsCreate
            <4>3. E' = {}
                BY <1>5, <2>1, <2>3, <4>1 DEF CommitsCreate, LobbyExists
            <4> QED
                BY <1>0, <4>2, <4>3, Begins
        <3> QED
            BY <2>3, <3>2, <3>3 DEF CommitsCreate
    <2>4. CASE CommitsJoin(p)
        <3>1. PICK id : players' = players \cup {NewSeat(p, id)}
            BY <2>4 DEF CommitsJoin
        <3>2. lobby \in lobbies /\ pc[p] = "join_commit"
            BY <2>4 DEF CommitsJoin
        <3>3. CASE p \in E
            <4>1. PICK new : R' \subseteq R \cup {new}
                BY <1>3, <3>1
            <4>2. Cardinality(R) + Cardinality(E) <= n /\ E' \subseteq E \ {p}
                BY <1>6, <2>1, <3>2
            <4>3. n \in Int /\ IsFiniteSet(R) /\ IsFiniteSet(E)
                BY <1>0, <1>2
            <4>4. /\ IsFiniteSet(R \cup {new}) /\ IsFiniteSet(E \ {p})
                  /\ Cardinality(R \cup {new}) + Cardinality(E \ {p}) <= n
                BY <3>3, <4>2, <4>3, Moves
            <4> QED
                BY <4>1, <4>2, <4>3, <4>4, Shrinks
        <3>4. CASE p \notin E
            BY <1>3, <1>4, <2>2, <3>1, <3>2, <3>4 DEF CountedPCs, EnteringPCs, NewSeat
        <3> QED
            BY <3>3, <3>4
    <2>5. CASE CommitsKick(p)
        BY <1>3, <2>2, <2>5 DEF CommitsKick
    <2>6. CASE CommitsUpdate(p)
        BY <2>6 DEF CommitsUpdate, UpdatesFutile, UpdatePCs
    <2> QED
        BY <1>8, <2>3, <2>4, <2>5, <2>6, CommitKinds
<1> QED
    BY <1>0, <1>7, <1>8, StepCommits

-----------------------------------------------------------------------------
(* The bounds as invariants.                                               *)

UserSeatsInv == MembershipInv /\ IsFiniteSet(players) /\ SeatsOfUserBounded

SeatsInv == MembershipInv /\ IsFiniteSet(players) /\ UpdatesFutile /\ SeatsBounded

\* No rows, no requests: the bounds hold at the start.
LEMMA InitSeats ==
    ASSUME Init
    PROVE  IsFiniteSet(players) /\ UpdatesFutile /\ SeatsOfUserBounded /\ SeatsBounded
BY FS_EmptySet
DEF Init, RepositoryInit, UpdatesFutile, UpdatePCs, SeatsOfUserBounded, SeatsBounded

\* After a crash no request is under way.
LEMMA CrashSeats ==
    ASSUME Crash, IsFiniteSet(Workers), IsFiniteSet(players)
    PROVE  /\ IsFiniteSet(players') /\ UpdatesFutile'
           /\ SeatsOfUserBounded => SeatsOfUserBounded'
           /\ SeatsBounded => SeatsBounded'
<1>1. UNCHANGED <<lobbies, players>> /\ \A q \in Workers : pc'[q] = "idle"
    BY DEF Crash, tables
<1>2. IsFiniteSet(players') /\ UpdatesFutile'
    BY <1>1 DEF UpdatesFutile, UpdatePCs
<1>3. Cardinality(Workers) \in Int /\ MaxPlayers + Cardinality(Workers) - 1 \in Int
    BY FS_CardinalityType, MaxPlayersAssumption
<1>4. ASSUME SeatsOfUserBounded, NEW lobby \in lobbies, NEW u \in Users
      PROVE  Cardinality(RowsOf(lobby.id, u)') + Cardinality(Entering(lobby.id, u)')
                <= Cardinality(Workers)
    <2>1. RowsOf(lobby.id, u)' = RowsOf(lobby.id, u) /\ Entering(lobby.id, u)' = {}
        BY <1>1 DEF RowsOf, PlayersOf, Entering, EnteringPCs
    <2>2. IsFiniteSet(RowsOf(lobby.id, u)) /\ IsFiniteSet(Entering(lobby.id, u))
        <3>1. RowsOf(lobby.id, u) \subseteq players /\ Entering(lobby.id, u) \subseteq Workers
            BY DEF RowsOf, PlayersOf, Entering
        <3> QED
            BY <3>1, FS_Subset
    <2>3. Cardinality(RowsOf(lobby.id, u)) + Cardinality(Entering(lobby.id, u))
              <= Cardinality(Workers)
        BY <1>4 DEF SeatsOfUserBounded
    <2> QED
        BY <1>3, <2>1, <2>2, <2>3, Shrinks
<1>5. ASSUME SeatsBounded, NEW lobby \in lobbies
      PROVE  Cardinality(ActiveRows(lobby.id)') + Cardinality(Counted(lobby.id)')
                <= MaxPlayers + Cardinality(Workers) - 1
    <2>1. ActiveRows(lobby.id)' = ActiveRows(lobby.id) /\ Counted(lobby.id)' = {}
        BY <1>1 DEF ActiveRows, PlayersOf, Counted, CountedPCs, EnteringPCs
    <2>2. IsFiniteSet(ActiveRows(lobby.id)) /\ IsFiniteSet(Counted(lobby.id))
        <3>1. ActiveRows(lobby.id) \subseteq players /\ Counted(lobby.id) \subseteq Workers
            BY DEF ActiveRows, PlayersOf, Counted
        <3> QED
            BY <3>1, FS_Subset
    <2>3. Cardinality(ActiveRows(lobby.id)) + Cardinality(Counted(lobby.id))
              <= MaxPlayers + Cardinality(Workers) - 1
        BY <1>5 DEF SeatsBounded
    <2> QED
        BY <1>3, <2>1, <2>2, <2>3, Shrinks
<1> QED
    BY <1>1, <1>2, <1>4, <1>5 DEF SeatsOfUserBounded, SeatsBounded

\* Every step, faults included, keeps the bound on a user's rows.
LEMMA NextUserSeats ==
    ASSUME IsFiniteSet(Workers), UserSeatsInv, [Next]_vars
    PROVE  UserSeatsInv'
<1>1. MembershipInv'
    BY NextMembership DEF UserSeatsInv
<1>2. CASE UNCHANGED vars
    BY <1>1, <1>2
    DEF UserSeatsInv, vars, SeatsOfUserBounded, RowsOf, PlayersOf, Entering
<1>3. CASE Crash
    BY <1>1, <1>3, CrashSeats DEF UserSeatsInv
<1>4. ASSUME NEW p \in Workers, Step(p) PROVE UserSeatsInv'
    BY <1>1, <1>4, StepSeatsOfUser, FinitePlayers DEF UserSeatsInv
<1> QED
    BY <1>2, <1>3, <1>4 DEF Next, Step, Endpoint, Fault

\* ... and, while no update finds a row, that on a lobby's rows.
LEMMA NextSeats ==
    ASSUME IsFiniteSet(Workers), IdsApart, SeatsInv, [Next]_vars
    PROVE  SeatsInv'
<1>1. MembershipInv' /\ TypeInv
    BY NextMembership DEF SeatsInv, MembershipInv, SafetyInv, LeaderInv
<1>2. CASE UNCHANGED vars
    BY <1>1, <1>2
    DEF SeatsInv, vars, UpdatesFutile, SeatsBounded, ActiveRows, PlayersOf, Counted
<1>3. CASE Crash
    BY <1>1, <1>3, CrashSeats DEF SeatsInv
<1>4. ASSUME NEW p \in Workers, Step(p) PROVE SeatsInv'
    BY <1>1, <1>4, StepSeats, StepFutile, FinitePlayers DEF SeatsInv, MembershipInv
<1> QED
    BY <1>2, <1>3, <1>4 DEF Next, Step, Endpoint, Fault

\* The update endpoint never gets as far as its commit while ids of users and
\* ids of rows are different UUIDs, as those of gen_random_uuid() are: 404 is the
\* answer for every player of every lobby (update_player_active_status.go).
THEOREM UpdatesNeverCommit ==
    ASSUME IdsApart
    PROVE  Spec => [](\A p \in Workers : pc[p] # "update_commit")
<1> DEFINE Inv == MembershipInv /\ UpdatesFutile
<1>1. Init => Inv
    BY InitSafety, InitChanges
    DEF MembershipInv, ChangesInv, Init, UpdatesFutile, UpdatePCs
<1>2. Inv /\ [Next]_vars => Inv'
    <2> SUFFICES ASSUME Inv, [Next]_vars PROVE UpdatesFutile'
        BY NextMembership
    <2>1. CASE UNCHANGED vars
        BY <2>1 DEF vars, UpdatesFutile
    <2>2. CASE Crash
        BY <2>2 DEF Crash, UpdatesFutile, UpdatePCs
    <2>3. ASSUME NEW p \in Workers, Step(p) PROVE UpdatesFutile'
        BY <2>3, StepFutile DEF MembershipInv, SafetyInv, LeaderInv
    <2> QED
        BY <2>1, <2>2, <2>3 DEF Next, Step, Endpoint, Fault
<1>3. Inv => \A p \in Workers : pc[p] # "update_commit"
    BY DEF UpdatesFutile, UpdatePCs
<1> QED
    BY <1>1, <1>2, <1>3, PTL DEF Spec

\* The first summand of a bound is within it.
LEMMA Within ==
    ASSUME NEW S, IsFiniteSet(S), NEW T, IsFiniteSet(T), NEW n \in Int,
           Cardinality(S) + Cardinality(T) <= n
    PROVE  Cardinality(S) <= n
BY FS_CardinalityType

\* However many requests of one user to one lobby overlap or are retried, they
\* leave no more rows than there are requests at a time (join_lobby.go).
THEOREM DuplicatesBounded ==
    ASSUME IsFiniteSet(Workers)
    PROVE  Spec => []DuplicateBound
<1>1. Init => UserSeatsInv
    BY InitSafety, InitChanges, InitSeats DEF UserSeatsInv, MembershipInv, ChangesInv
<1>2. UserSeatsInv /\ [Next]_vars => UserSeatsInv'
    BY NextUserSeats
<1>3. UserSeatsInv => DuplicateBound
    <2> SUFFICES ASSUME UserSeatsInv, NEW lobby \in lobbies, NEW u \in Users
                 PROVE  Cardinality(RowsOf(lobby.id, u)) <= Cardinality(Workers)
        BY DEF DuplicateBound
    <2>1. RowsOf(lobby.id, u) \subseteq players /\ Entering(lobby.id, u) \subseteq Workers
        BY DEF RowsOf, PlayersOf, Entering
    <2>2. IsFiniteSet(RowsOf(lobby.id, u)) /\ IsFiniteSet(Entering(lobby.id, u))
        BY <2>1, FS_Subset DEF UserSeatsInv
    <2> QED
        BY <2>2, Within, FS_CardinalityType DEF UserSeatsInv, SeatsOfUserBounded
<1> QED
    BY <1>1, <1>2, <1>3, PTL DEF Spec

\* Unless players are marked inactive and active again, for which a user must
\* have the id of a row, a lobby is overrun by at most one player for each further
\* request at a time (join_lobby.go).
THEOREM CapacityBounded ==
    ASSUME IsFiniteSet(Workers), IdsApart
    PROVE  Spec => []CapacityBound
<1>1. Init => SeatsInv
    BY InitSafety, InitChanges, InitSeats DEF SeatsInv, MembershipInv, ChangesInv
<1>2. SeatsInv /\ [Next]_vars => SeatsInv'
    BY NextSeats
<1>3. SeatsInv => CapacityBound
    <2> SUFFICES ASSUME SeatsInv, NEW lobby \in lobbies
                 PROVE  Cardinality(ActiveRows(lobby.id))
                            <= MaxPlayers + Cardinality(Workers) - 1
        BY DEF CapacityBound
    <2>1. ActiveRows(lobby.id) \subseteq players /\ Counted(lobby.id) \subseteq Workers
        BY DEF ActiveRows, PlayersOf, Counted
    <2>2. IsFiniteSet(ActiveRows(lobby.id)) /\ IsFiniteSet(Counted(lobby.id))
        BY <2>1, FS_Subset DEF SeatsInv
    <2>3. MaxPlayers + Cardinality(Workers) - 1 \in Int
        BY FS_CardinalityType, MaxPlayersAssumption
    <2> QED
        BY <2>2, <2>3, Within DEF SeatsInv, SeatsBounded
<1> QED
    BY <1>1, <1>2, <1>3, PTL DEF Spec

\* Served one at a time, also after lost acknowledgements and crashes, joins
\* give a user one row in a lobby ...
THEOREM NoDuplicateServedAlone ==
    ASSUME NEW w, Workers = {w}
    PROVE  Spec => []NoDuplicateMember
<1>1. IsFiniteSet(Workers) /\ Cardinality(Workers) = 1
    BY FS_Singleton
<1>2. DuplicateBound => NoDuplicateMember
    BY <1>1 DEF DuplicateBound, NoDuplicateMember
<1>3. Spec => []DuplicateBound
    BY <1>1, DuplicatesBounded
<1> QED
    BY <1>2, <1>3, PTL

\* ... and a lobby at most maxPlayers of them: only requests that overlap can
\* break what openapi.yaml says.
THEOREM NeverOverfullServedAlone ==
    ASSUME NEW w, Workers = {w}, IdsApart
    PROVE  Spec => []LobbyNeverOverfull
<1>1. IsFiniteSet(Workers) /\ Cardinality(Workers) = 1
    BY FS_Singleton
<1>2. CapacityBound => LobbyNeverOverfull
    BY <1>1, MaxPlayersAssumption DEF CapacityBound, LobbyNeverOverfull
<1>3. Spec => []CapacityBound
    BY <1>1, CapacityBounded
<1> QED
    BY <1>2, <1>3, PTL

-----------------------------------------------------------------------------
(* How many statements a handler makes.                                    *)

\* A request that is not answered has its answer and the delivery before it.
LEMMA UnderWay ==
    ASSUME TypeInv, NEW p \in Workers, pc[p] \notin {"idle", "answered"}
    PROVE  StepsLeft(p) \in Int /\ StepsLeft(p) >= 2
<1>1. /\ pc[p] \in PCs /\ loc[p].attempt \in 1 .. MaxRetries
      /\ MaxRetries \in Nat \ {0}
    BY MaxRetriesAssumption DEF TypeInv, TypeOK, Locals
<1>2. CASE pc[p] = "create_user"
    BY <1>1, <1>2 DEF StepsLeft
<1>3. CASE pc[p] = "create_code"
    BY <1>1, <1>3 DEF StepsLeft
<1>4. pc[p] \in {"create_commit", "join_detail", "kick_commit", "get_detail",
                 "update_commit"} => StepsLeft(p) = 2
    BY DEF StepsLeft
<1>5. pc[p] \in {"create_player", "join_commit", "kick_delete", "get_member",
                 "update_write"} => StepsLeft(p) = 3
    BY DEF StepsLeft
<1>6. pc[p] \in {"create_lobby", "join_player", "kick_scan", "get_authorize",
                 "update_scan"} => StepsLeft(p) = 4
    BY DEF StepsLeft
<1>7. pc[p] \in {"join_user", "kick_member", "update_member"} => StepsLeft(p) = 5
    BY DEF StepsLeft
<1>8. pc[p] \in {"join_member", "kick_leader", "update_lobby"} => StepsLeft(p) = 6
    BY DEF StepsLeft
<1>9. pc[p] \in {"join_count", "kick_authorize"} => StepsLeft(p) = 7
    BY DEF StepsLeft
<1>10. pc[p] = "join_lookup" => StepsLeft(p) = 8
    BY DEF StepsLeft
<1> QED
    BY <1>1, <1>2, <1>3, <1>4, <1>5, <1>6, <1>7, <1>8, <1>9, <1>10 DEF PCs

\* Whatever ends a handler answers.
LEMMA AnsweringCounts ==
    ASSUME TypeInv, NEW p \in Workers, pc[p] \notin {"idle", "answered"},
           pc'[p] = "answered"
    PROVE  StepsLeft(p)' < StepsLeft(p)
<1>1. StepsLeft(p)' = 1
    BY DEF StepsLeft
<1> QED
    BY <1>1, UnderWay

\* The loop of GenerateJoinCode counts its attempts.
LEMMA CreateCounts ==
    ASSUME TypeInv, NEW p \in Workers, Create(p)
    PROVE  StepsLeft(p)' < StepsLeft(p)
<1>0. /\ loc \in [Workers -> Locals] /\ loc[p].attempt \in 1 .. MaxRetries
      /\ MaxRetries \in Nat \ {0}
    BY MaxRetriesAssumption DEF TypeInv, TypeOK, Locals
<1>1. CASE CreateUser(p)
    BY <1>0, <1>1, AdvanceLocal DEF CreateUser, StepsLeft
<1>2. CASE DrawFreeCode(p)
    BY <1>0, <1>2, AdvanceLocal DEF DrawFreeCode, StepsLeft
<1>3. CASE DrawTakenCode(p)
    <2>1. CASE MoreAttempts(loc[p].attempt)
        <3>1. /\ pc[p] = "create_code" /\ pc' = pc
              /\ loc'[p].attempt = loc[p].attempt + 1
            BY <1>0, <1>3, <2>1 DEF DrawTakenCode, NextAttempt, Locals
        <3> QED
            BY <1>0, <3>1 DEF StepsLeft
    <2>2. CASE ~MoreAttempts(loc[p].attempt)
        BY <1>3, <2>2, RefuseLocal, AnsweringCounts DEF DrawTakenCode
    <2> QED
        BY <2>1, <2>2
<1>4. CASE CreateLobby(p)
    BY <1>4, AdvanceLocal, RefuseLocal, AnsweringCounts DEF CreateLobby, StepsLeft
<1>5. CASE CreatePlayer(p)
    BY <1>5, AdvanceLocal DEF CreatePlayer, StepsLeft
<1>6. CASE CreateCommit(p)
    BY <1>6, ReplyLocal, AnsweringCounts DEF CreateCommit
<1> QED
    BY <1>1, <1>2, <1>3, <1>4, <1>5, <1>6 DEF Create

LEMMA JoinCounts ==
    ASSUME TypeInv, NEW p \in Workers, Join(p)
    PROVE  StepsLeft(p)' < StepsLeft(p)
<1>1. CASE JoinLookup(p)
    BY <1>1, AdvanceLocal, RefuseLocal, AnsweringCounts DEF JoinLookup, StepsLeft
<1>2. CASE JoinCount(p)
    BY <1>2, AdvanceLocal, RefuseLocal, AnsweringCounts DEF JoinCount, StepsLeft
<1>3. CASE JoinMember(p)
    BY <1>3, AdvanceLocal, RefuseLocal, AnsweringCounts DEF JoinMember, StepsLeft
<1>4. CASE JoinUser(p)
    BY <1>4, AdvanceLocal DEF JoinUser, StepsLeft
<1>5. CASE JoinPlayer(p)
    BY <1>5, AdvanceLocal DEF JoinPlayer, StepsLeft
<1>6. CASE JoinCommit(p)
    BY <1>6, AdvanceLocal DEF JoinCommit, StepsLeft
<1>7. CASE JoinDetail(p)
    BY <1>7, ReplyLocal, AnsweringCounts DEF JoinDetail
<1> QED
    BY <1>1, <1>2, <1>3, <1>4, <1>5, <1>6, <1>7 DEF Join

LEMMA KickCounts ==
    ASSUME TypeInv, NEW p \in Workers, Kick(p)
    PROVE  StepsLeft(p)' < StepsLeft(p)
<1>1. CASE KickAuthorize(p)
    BY <1>1, AdvanceLocal, RefuseLocal, AnsweringCounts DEF KickAuthorize, StepsLeft
<1>2. CASE KickLeader(p)
    BY <1>2, AdvanceLocal, RefuseLocal, AnsweringCounts DEF KickLeader, StepsLeft
<1>3. CASE KickMember(p)
    BY <1>3, AdvanceLocal, RefuseLocal, AnsweringCounts DEF KickMember, StepsLeft
<1>4. CASE KickScan(p)
    BY <1>4, AdvanceLocal DEF KickScan, StepsLeft
<1>5. CASE KickDelete(p)
    BY <1>5, AdvanceLocal DEF KickDelete, StepsLeft
<1>6. CASE KickCommit(p)
    BY <1>6, ReplyLocal, AnsweringCounts DEF KickCommit
<1> QED
    BY <1>1, <1>2, <1>3, <1>4, <1>5, <1>6 DEF Kick

LEMMA GetCounts ==
    ASSUME TypeInv, NEW p \in Workers, Get(p)
    PROVE  StepsLeft(p)' < StepsLeft(p)
<1>1. CASE GetAuthorize(p)
    BY <1>1, AdvanceLocal, RefuseLocal, AnsweringCounts DEF GetAuthorize, StepsLeft
<1>2. CASE GetMember(p)
    BY <1>2, AdvanceLocal, RefuseLocal, AnsweringCounts DEF GetMember, StepsLeft
<1>3. CASE GetDetail(p)
    BY <1>3, ReplyLocal, AnsweringCounts DEF GetDetail
<1> QED
    BY <1>1, <1>2, <1>3 DEF Get

LEMMA UpdateCounts ==
    ASSUME TypeInv, NEW p \in Workers, Update(p)
    PROVE  StepsLeft(p)' < StepsLeft(p)
<1>1. CASE UpdateLobby(p)
    BY <1>1, AdvanceLocal, RefuseLocal, AnsweringCounts DEF UpdateLobby, StepsLeft
<1>2. CASE UpdateMember(p)
    BY <1>2, AdvanceLocal, RefuseLocal, AnsweringCounts DEF UpdateMember, StepsLeft
<1>3. CASE UpdateScan(p)
    BY <1>3, AdvanceLocal DEF UpdateScan, StepsLeft
<1>4. CASE UpdateWrite(p)
    BY <1>4, AdvanceLocal, RefuseLocal, AnsweringCounts DEF UpdateWrite, StepsLeft
<1>5. CASE UpdateCommit(p)
    BY <1>5, ReplyLocal, AnsweringCounts DEF UpdateCommit
<1> QED
    BY <1>1, <1>2, <1>3, <1>4, <1>5 DEF Update

\* Nobody writes another worker's response.
LEMMA OthersUnanswered ==
    ASSUME TypeInv, NEW p \in Workers, Step(p), NEW q \in Workers \ {p}
    PROVE  resp'[q] = resp[q]
<1>0. resp \in [Workers -> Responses]
    BY DEF TypeInv, TypeOK
<1>1. \A status, body : Reply(p, status, body) => resp'[q] = resp[q]
    BY <1>0 DEF Reply
<1>2. \A status : Refuse(p, status) => resp'[q] = resp[q]
    BY <1>1 DEF Refuse
<1>3. \A here, there : Advance(p, here, there) => resp'[q] = resp[q]
    BY DEF Advance
<1>4. CASE Endpoint(p)
    BY <1>0, <1>4 DEF Endpoint, Receive, ReceiveMalformed, Deliver
<1>5. CASE Create(p)
    BY <1>1, <1>2, <1>3, <1>5
    DEF Create, CreateUser, DrawFreeCode, DrawTakenCode, CreateLobby, CreatePlayer,
        CreateCommit
<1>6. CASE Join(p)
    BY <1>1, <1>2, <1>3, <1>6
    DEF Join, JoinLookup, JoinCount, JoinMember, JoinUser, JoinPlayer, JoinCommit,
        JoinDetail
<1>7. CASE Kick(p)
    BY <1>1, <1>2, <1>3, <1>7
    DEF Kick, KickAuthorize, KickLeader, KickMember, KickScan, KickDelete, KickCommit
<1>8. CASE Get(p) \/ Update(p)
    BY <1>1, <1>2, <1>3, <1>8
    DEF Get, GetAuthorize, GetMember, GetDetail, Update, UpdateLobby, UpdateMember,
        UpdateScan, UpdateWrite, UpdateCommit
<1>9. CASE Fault(p)
    BY <1>1, <1>2, <1>9 DEF Fault, DBFailure, CommitUnacknowledged
<1> QED
    BY <1>4, <1>5, <1>6, <1>7, <1>8, <1>9 DEF Step, Handle

\* Action property: a create makes at most MaxRetries + 4 statements before its
\* answer and any other request seven, whatever they read or draw; with NoDeadlock,
\* that is why requests come to an end.
THEOREM HandlersMoveOn == Spec => StatementsBounded
<1>1. ASSUME TypeInv, [Next]_vars PROVE [OnlyForward]_vars
    <2> SUFFICES ASSUME ~UNCHANGED vars, NEW p \in Workers, pc[p] # "idle"
                 PROVE  \/ StepsLeft(p)' < StepsLeft(p)
                        \/ UNCHANGED <<pc[p], req[p], loc[p], resp[p], tx[p]>>
        BY DEF OnlyForward
    <2>1. CASE Crash
        <3>1. StepsLeft(p)' = 0
            BY <2>1 DEF Crash, StepsLeft
        <3>2. pc[p] = "answered" => StepsLeft(p) = 1
            BY DEF StepsLeft
        <3> QED
            BY <1>1, <3>1, <3>2, UnderWay
    <2>2. ASSUME NEW q \in Workers, Step(q), q # p
          PROVE  UNCHANGED <<pc[p], req[p], loc[p], resp[p], tx[p]>>
        BY <1>1, <2>2, StepLocal, OthersUnanswered DEF LocalTo
    <2>3. CASE Endpoint(p)
        <3>1. pc[p] = "answered" /\ pc'[p] = "idle"
            BY <1>1, <2>3
            DEF Endpoint, Receive, ReceiveMalformed, Deliver, TypeInv, TypeOK
        <3>2. StepsLeft(p) = 1 /\ StepsLeft(p)' = 0
            BY <3>1 DEF StepsLeft
        <3> QED
            BY <3>2
    <2>4. CASE Handle(p)
        BY <1>1, <2>4, CreateCounts, JoinCounts, KickCounts, GetCounts, UpdateCounts
        DEF Handle
    <2>5. CASE Fault(p)
        <3>1. pc[p] \notin {"idle", "answered"}
            BY <2>5 DEF Fault, DBFailure, CommitUnacknowledged
        <3> QED
            BY <1>1, <2>5, <3>1, FaultLocal, AnsweringCounts DEF Fault
    <2> QED
        BY <1>1, <2>1, <2>2, <2>3, <2>4, <2>5 DEF Next, Step, Endpoint, Fault
<1> QED
    BY <1>1, TypeCorrect, PTL DEF StatementsBounded, Spec

-----------------------------------------------------------------------------
(* One request at a time: the refinement without overlap.                  *)

\* What the only worker has checked still holds when it writes, and its DELETE
\* has matched all rows of the target.
ChecksHold(w) ==
    /\ pc[w] \in EnteringPCs => ~IsMember(loc[w].lobby, req[w].user)
    /\ pc[w] \in CountedPCs => GetLobbyPlayerCountTx(loc[w].lobby) < MaxPlayers
    /\ pc[w] \in {"kick_delete", "kick_commit"} =>
         MatchUser(req[w].lobby_id, req[w].target) \subseteq loc[w].rows

AloneInv(w) ==
    MembershipInv /\ MatchedRowsGo /\ IsFiniteSet(players) /\ ChecksHold(w)

\* The DELETE is the only statement that matches rows to remove.
LEMMA StepMatches ==
    ASSUME TypeInv, NEW p \in Workers, Step(p), pc'[p] \in {"kick_delete", "kick_commit"}
    PROVE  /\ req'[p] = req[p]
           /\ \/ pc[p] = "kick_delete" /\ loc'[p] = loc[p]
              \/ loc'[p].rows = MatchUser(req[p].lobby_id, req[p].target)
<1>1. KickScan(p) \/ KickDelete(p)
    BY StepKinds
    DEF Quiet, WritingPCs, Commits, Writing, InsertsLobby, InsertsSeat, CreatePlayer,
        JoinPlayer, Advance, RewritesSeat, TypeInv, TypeOK
<1> QED
    BY <1>1 DEF KickScan, KickDelete, Advance, TypeInv, TypeOK, Locals

\* Nobody else writes, so that the only worker's checks stay true.
LEMMA NextAlone ==
    ASSUME NEW w, Workers = {w}, AloneInv(w), [Next]_vars
    PROVE  AloneInv(w)'
<1>0. TypeInv /\ MembershipInv' /\ MatchedRowsGo'
    BY NextMembership, NextGo DEF AloneInv, MembershipInv, SafetyInv, LeaderInv
<1>1. CASE UNCHANGED vars
    BY <1>0, <1>1
    DEF AloneInv, vars, ChecksHold, IsMember, GetLobbyPlayerCountTx, MatchUser, PlayersOf
<1>2. CASE Crash
    BY <1>0, <1>2
    DEF AloneInv, Crash, tables, ChecksHold, EnteringPCs, CountedPCs
<1>3. CASE Step(w)
    <2>1. IsFiniteSet(players')
        BY <1>3, FinitePlayers DEF AloneInv
    <2>2. CASE pc'[w] \in CountedPCs \cup {"kick_delete", "kick_commit"}
        <3>1. ~Commits(w)
            BY <2>2 DEF Commits, CountedPCs, EnteringPCs
        <3>2. UNCHANGED players
            BY <1>0, <1>3, <3>1, StepCommits
        <3>3. \A l, u : IsMember(l, u)' = IsMember(l, u)
            BY <3>2 DEF IsMember, PlayersOf
        <3>4. \A l : GetLobbyPlayerCountTx(l) \in Nat
            <4>1. \A l : {row \in PlayersOf(l) : row.is_active} \subseteq players
                BY DEF PlayersOf
            <4> QED
                BY <4>1, FS_Subset, FS_CardinalityType DEF AloneInv, GetLobbyPlayerCountTx
        <3>5. pc'[w] \in EnteringPCs => ~IsMember(loc[w].lobby, req[w].user)'
            BY <1>0, <1>3, <3>2, StepPasses DEF AloneInv, ChecksHold, IsMember, PlayersOf
        <3>6. pc'[w] \in CountedPCs => (GetLobbyPlayerCountTx(loc[w].lobby) < MaxPlayers)'
            <4>1. pc'[w] \in CountedPCs => GetLobbyPlayerCountTx(loc[w].lobby) < MaxPlayers
                BY <1>0, <1>3, <3>4, StepPasses, MaxPlayersAssumption
                DEF AloneInv, ChecksHold, LobbyFull
            <4>2. pc'[w] \in CountedPCs => loc'[w] = loc[w]
                BY <1>0, <1>3, StepPasses
            <4> QED
                BY <3>2, <4>1, <4>2 DEF GetLobbyPlayerCountTx, PlayersOf
        <3>7. pc'[w] \in {"kick_delete", "kick_commit"} =>
                (MatchUser(req[w].lobby_id, req[w].target) \subseteq loc[w].rows)'
            BY <1>0, <1>3, <3>2, StepMatches DEF AloneInv, ChecksHold, MatchUser, PlayersOf
        <3> QED
            BY <1>0, <2>1, <3>5, <3>6, <3>7 DEF AloneInv, ChecksHold
    <2>3. CASE pc'[w] \notin CountedPCs \cup {"kick_delete", "kick_commit"}
        BY <1>0, <2>1, <2>3 DEF AloneInv, ChecksHold, CountedPCs
    <2> QED
        BY <2>2, <2>3
<1> QED
    BY <1>1, <1>2, <1>3 DEF Next, Step, Endpoint, Fault

\* Its commit of a join takes a seat that is free for a user without one.
LEMMA SitsAlone ==
    ASSUME NEW w, Workers = {w}, AloneInv(w), Commits(w), pc[w] = "join_commit"
    PROVE  Membership!SerialNext
<1>1. ChangesInv /\ SafetyInv
    BY DEF AloneInv, MembershipInv, ChangesInv
<1>2. PICK id \in PlayerIDs : Membership!Sit(id, loc[w].lobby, req[w].user)
    BY <1>1, JoinSits
<1>3. Membership!SeatsOf(loc[w].lobby, req[w].user) = {}
    BY DEF AloneInv, ChecksHold, EnteringPCs, IsMember, PlayersOf, Membership!SeatsOf,
           Membership!SeatsIn
<1>4. Cardinality({seat \in Membership!SeatsIn(loc[w].lobby) : seat.is_active}) < MaxPlayers
    BY DEF AloneInv, ChecksHold, CountedPCs, EnteringPCs, GetLobbyPlayerCountTx, PlayersOf,
           Membership!SeatsIn
<1>5. Membership!SitAlone(id, loc[w].lobby, req[w].user)
    BY <1>2, <1>3, <1>4 DEF Membership!SitAlone, Membership!Cardinality, Cardinality
<1> QED
    BY <1>1, <1>5, JoinSits DEF Membership!SerialNext

\* Its commit of a kick leaves the target no seat.
LEMMA VacatesAll ==
    ASSUME NEW w, Workers = {w}, AloneInv(w), Commits(w), pc[w] = "kick_commit"
    PROVE  Membership!SerialNext
<1> DEFINE seats == Membership!SeatsOf(req[w].lobby_id, req[w].target)
<1>1. ChangesInv /\ SafetyInv
    BY DEF AloneInv, MembershipInv, ChangesInv
<1>2. Membership!Vacate(req[w].lobby_id, req[w].target)
    BY <1>1, KickVacates
<1>3. players' = players \ tx[w].removed
    BY <1>1, Committed DEF Commits, CommitTx, InsertPCs
<1>4. PICK gone \in SUBSET seats : players' = players \ gone
    BY <1>2 DEF Membership!Vacate
<1>5. seats \subseteq tx[w].removed
    <2>1. \A seat \in seats : seat \in players /\ seat.id \in loc[w].rows
        BY DEF AloneInv, ChecksHold, MatchUser, PlayersOf, Membership!SeatsOf,
               Membership!SeatsIn
    <2> QED
        BY <2>1 DEF AloneInv, MatchedRowsGo
<1>6. players' = players \ seats
    BY <1>3, <1>4, <1>5
<1>7. Membership!VacateAll(req[w].lobby_id, req[w].target)
    BY <1>2, <1>6 DEF Membership!VacateAll
<1> QED
    BY <1>1, <1>7, KickVacates DEF Membership!SerialNext

\* Served one at a time, the handlers keep the stricter promise at every step: a
\* seat is taken only while one is free and by a user without one, a kick leaves
\* the user none.
THEOREM ImplementsMembershipServedAlone ==
    ASSUME NEW w, Workers = {w}
    PROVE  Spec => SerialMembershipImplemented
<1>1. Init => AloneInv(w) /\ Membership!Init
    <2> SUFFICES ASSUME Init PROVE AloneInv(w) /\ Membership!Init
        OBVIOUS
    <2>1. MembershipInv /\ MatchedRowsGo /\ IsFiniteSet(players)
        BY InitSafety, InitChanges, InitSeats, NextGo DEF MembershipInv, ChangesInv
    <2>2. ChecksHold(w) /\ Membership!Init
        BY DEF Init, RepositoryInit, ChecksHold, EnteringPCs, CountedPCs, Membership!Init
    <2> QED
        BY <2>1, <2>2 DEF AloneInv
<1>2. AloneInv(w) /\ [Next]_vars => AloneInv(w)'
    BY NextAlone
<1>3. AloneInv(w) /\ [Next]_vars => [Membership!SerialNext]_Membership!membership
    <2> SUFFICES ASSUME AloneInv(w), [Next]_vars, ~UNCHANGED <<lobbies, players>>
                 PROVE  Membership!SerialNext
        BY DEF Membership!membership
    <2>0. ChangesInv /\ SafetyInv /\ TypeInv
        BY DEF AloneInv, MembershipInv, ChangesInv, SafetyInv, LeaderInv
    <2>1. Step(w)
        BY DEF vars, Next, Step, Endpoint, Fault, Crash, tables
    <2>2. Commits(w)
        BY <2>0, <2>1, StepCommits
    <2>3. CASE pc[w] = "create_commit"
        BY <2>0, <2>2, <2>3, CreateOpens DEF Membership!SerialNext
    <2>4. CASE pc[w] = "update_commit"
        BY <2>0, <2>2, <2>4, UpdateMarks DEF Membership!SerialNext
    <2> QED
        BY <2>2, <2>3, <2>4, SitsAlone, VacatesAll DEF Commits, CommitPCs
<1> QED
    BY <1>1, <1>2, <1>3, PTL
    DEF Spec, SerialMembershipImplemented, Membership!SerialSpec

=============================================================================
