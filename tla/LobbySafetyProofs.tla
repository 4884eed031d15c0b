------------------------- MODULE LobbySafetyProofs -------------------------
(***************************************************************************)
(* Consistency of tables, transactions, locks and answers: SafetyInv is an *)
(* inductive invariant of LobbyService, and what follows from it, for      *)
(* every value of the constants.                                           *)
(***************************************************************************)
EXTENDS LobbyLeaderProofs

-----------------------------------------------------------------------------
(* Who removes players.                                                    *)

\* A step that makes a player row disappear commits a kick of that player by
\* the leader of the row's lobby.
LEMMA StepRemoves ==
    ASSUME LeaderInv, NEW p \in Workers, Step(p)
    PROVE  RemovedByLeaderOnly
<1> SUFFICES ASSUME NEW row \in players,
                    \A other \in players' : other.id # row.id
             PROVE  /\ req[p] \in KickRequest
                    /\ req[p].lobby_id = row.lobby_id
                    /\ req[p].target = row.user_id
                    /\ \E lobby \in lobbies : /\ lobby.id = row.lobby_id
                                              /\ lobby.leader_id = req[p].user
                                              /\ lobby.leader_id # row.user_id
    BY DEF RemovedByLeaderOnly
<1>1. CommitTx(p)
    BY StepTables DEF LeaderInv
<1>2. row \in tx[p].removed
    BY <1>1 DEF CommitTx
<1>3. pc[p] # "update_commit"
    BY <1>1, <1>2 DEF CommitTx, LeaderInv, PendingRemoval
<1>4. pc[p] = "kick_commit" /\ row.id \in loc[p].rows
    BY <1>2, <1>3 DEF LeaderInv, PendingRemoval
<1>5. req[p] \in KickRequest
    BY <1>4 DEF LeaderInv, TypeInv, Dispatched, KickPCs
<1>6. row.lobby_id = req[p].lobby_id /\ row.user_id = req[p].target
    BY <1>4 DEF LeaderInv, KickMatched, KnownRows
<1>7. Leader(p) /\ req[p].target # req[p].user
    BY <1>4 DEF LeaderInv, KickAuthorized, KickPCs
<1> QED
    BY <1>5, <1>6, <1>7 DEF Leader, Leads

\* A player row disappears only by a kick that the leader of its lobby asked
\* for, aimed at the row's user (kick_player.go, authorizers.go).
THEOREM OnlyLeadersRemove == Spec => OnlyLeaderRemoves
<1>1. LeaderInv /\ [Next]_vars => [RemovedByLeaderOnly]_vars
    <2> SUFFICES ASSUME LeaderInv, Next PROVE RemovedByLeaderOnly
        OBVIOUS
    <2>1. CASE Crash
        BY <2>1 DEF Crash, tables, RemovedByLeaderOnly
    <2>2. ASSUME NEW p \in Workers, Step(p) PROVE RemovedByLeaderOnly
        BY <2>2, StepRemoves
    <2> QED
        BY <2>1, <2>2 DEF Next, Step, Endpoint, Fault
<1> QED
    BY <1>1, LeaderInvariant, PTL DEF Spec, OnlyLeaderRemoves

-----------------------------------------------------------------------------
(* What a step does to the open transaction and to the tables.             *)

\* The transaction goes on with all it has inserted ...
Grows(p) == /\ tx[p].users \subseteq tx'[p].users
            /\ tx[p].lobbies \subseteq tx'[p].lobbies

\* ... or has ended.
Ends(p) == /\ tx'[p] = NoWrites
           /\ pc'[p] \in {"answered", "join_detail"}

\* Users are inserted by two statements.
InsertsUser(p) == CreateUser(p) \/ JoinUser(p)

\* Refusing a request ends the transaction.
LEMMA RefuseEnds ==
    ASSUME TypeInv, NEW p \in Workers, NEW status, Refuse(p, status)
    PROVE  Ends(p)
BY RefuseLocal DEF Ends

\* Every step of a handler prolongs its transaction or ends it, and only two
\* statements add a user to it.
LEMMA StepGrows ==
    ASSUME TypeInv, NEW p \in Workers, Step(p)
    PROVE  /\ Grows(p) \/ Ends(p)
           /\ tx'[p].users \subseteq tx[p].users \/ InsertsUser(p)
<1>0. tx \in [Workers -> Writes]
    BY DEF TypeInv, TypeOK, RepositoryTypeOK
<1>1. ASSUME UNCHANGED tx PROVE Grows(p) /\ tx'[p].users \subseteq tx[p].users
    BY <1>1 DEF Grows
<1>2. ASSUME Ends(p) PROVE tx'[p].users \subseteq tx[p].users
    BY <1>2 DEF Ends, NoWrites
<1>3. CASE Endpoint(p)
    BY <1>1, <1>3, EndpointLocal DEF Endpoint
<1>4. CASE Create(p)
    <2>1. CASE CreateUser(p)
        BY <1>0, <2>1
        DEF CreateUser, CreateUserIfNotExistsTx, Writes, Grows, InsertsUser
    <2>2. CASE DrawFreeCode(p)
        BY <1>1, <2>2 DEF DrawFreeCode
    <2>3. CASE DrawTakenCode(p)
        BY <1>1, <1>2, <2>3, RefuseEnds DEF DrawTakenCode
    <2>4. CASE CreateLobby(p)
        BY <1>0, <1>2, <2>4, RefuseEnds DEF CreateLobby, CreateLobbyTx, Writes, Grows
    <2>5. CASE CreatePlayer(p)
        BY <1>0, <2>5 DEF CreatePlayer, AddPlayerTx, Writes, Grows
    <2>6. CASE CreateCommit(p)
        BY <1>2, <2>6, ReplyLocal, CommitLocal DEF CreateCommit, Ends
    <2> QED
        BY <1>4, <2>1, <2>2, <2>3, <2>4, <2>5, <2>6 DEF Create
<1>5. CASE Join(p)
    <2>1. CASE JoinLookup(p) \/ JoinCount(p) \/ JoinMember(p) \/ JoinDetail(p)
        BY <1>1, <1>2, <2>1, RefuseEnds DEF JoinLookup, JoinCount, JoinMember, JoinDetail
    <2>2. CASE JoinUser(p)
        BY <1>0, <2>2
        DEF JoinUser, CreateUserIfNotExistsTx, Writes, Grows, InsertsUser
    <2>3. CASE JoinPlayer(p)
        BY <1>0, <2>3 DEF JoinPlayer, AddPlayerTx, Writes, Grows
    <2>4. CASE JoinCommit(p)
        BY <1>2, <2>4, AdvanceLocal, CommitLocal DEF JoinCommit, Ends
    <2> QED
        BY <1>5, <2>1, <2>2, <2>3, <2>4 DEF Join
<1>6. CASE Kick(p)
    <2>1. CASE KickAuthorize(p) \/ KickLeader(p) \/ KickMember(p) \/ KickScan(p)
        BY <1>1, <1>2, <2>1, RefuseEnds DEF KickAuthorize, KickLeader, KickMember, KickScan
    <2>2. CASE KickDelete(p)
        BY <1>0, <2>2 DEF KickDelete, DeletePlayerTx, Writes, Grows
    <2>3. CASE KickCommit(p)
        BY <1>2, <2>3, ReplyLocal, CommitLocal DEF KickCommit, Ends
    <2> QED
        BY <1>6, <2>1, <2>2, <2>3 DEF Kick
<1>7. CASE Get(p)
    BY <1>1, <1>2, <1>7, RefuseEnds DEF Get, GetAuthorize, GetMember, GetDetail
<1>8. CASE Update(p)
    <2>1. CASE UpdateLobby(p) \/ UpdateMember(p) \/ UpdateScan(p)
        BY <1>1, <1>2, <2>1, RefuseEnds DEF UpdateLobby, UpdateMember, UpdateScan
    <2>2. CASE UpdateWrite(p)
        BY <1>0, <1>2, <2>2, RefuseEnds
        DEF UpdateWrite, UpdatePlayerActiveStatusTx, Writes, Grows
    <2>3. CASE UpdateCommit(p)
        BY <1>2, <2>3, ReplyLocal, CommitLocal DEF UpdateCommit, Ends
    <2> QED
        BY <1>8, <2>1, <2>2, <2>3 DEF Update
<1>9. CASE Fault(p)
    BY <1>2, <1>9, FaultLocal DEF Fault, Ends
<1> QED
    BY <1>3, <1>4, <1>5, <1>6, <1>7, <1>8, <1>9 DEF Step, Handle

\* Users, like lobbies, are never deleted; and only a commit adds any.
LEMMA StepUsers ==
    ASSUME TypeInv, NEW p \in Workers, Step(p)
    PROVE  users \subseteq users' /\ lobbies \subseteq lobbies'
<1>1. CASE Endpoint(p)
    BY <1>1, EndpointLocal DEF Endpoint, tables
<1>2. CASE Create(p)
    BY <1>2, RefuseLocal
    DEF Create, CreateUser, DrawFreeCode, DrawTakenCode, CreateLobby, CreatePlayer,
        CreateCommit, CommitTx, tables
<1>3. CASE Join(p)
    BY <1>3, RefuseLocal
    DEF Join, JoinLookup, JoinCount, JoinMember, JoinUser, JoinPlayer, JoinCommit,
        JoinDetail, CommitTx, tables
<1>4. CASE Kick(p)
    BY <1>4, RefuseLocal
    DEF Kick, KickAuthorize, KickLeader, KickMember, KickScan, KickDelete, KickCommit,
        CommitTx, tables
<1>5. CASE Get(p)
    BY <1>5, RefuseLocal DEF Get, GetAuthorize, GetMember, GetDetail, tables
<1>6. CASE Update(p)
    BY <1>6, RefuseLocal
    DEF Update, UpdateLobby, UpdateMember, UpdateScan, UpdateWrite, UpdateCommit,
        CommitTx, tables
<1>7. CASE Fault(p)
    BY <1>7, RefuseLocal DEF Fault, DBFailure, CommitUnacknowledged, CommitTx, tables
<1> QED
    BY <1>1, <1>2, <1>3, <1>4, <1>5, <1>6, <1>7 DEF Step, Handle

\* The statements at which the new lobby, or the lobby found, is known.
LobbyPCs == {"create_player", "create_commit"}
FoundPCs == JoinPCs \ {"join_lookup"}

\* How the statements follow one another: what a handler has done before the
\* one it has come to.
Follows(p) ==
    /\ pc'[p] \in UserPCs => /\ pc[p] \in UserPCs \/ InsertsUser(p)
                             /\ req'[p] = req[p]
    /\ pc[p] \in UserPCs => pc'[p] \in UserPCs \/ Ends(p)
    /\ pc'[p] \in LobbyPCs => \/ pc[p] \in LobbyPCs /\ loc'[p] = loc[p]
                              \/ CreateLobby(p)
    /\ pc'[p] \in FoundPCs => \/ pc[p] \in FoundPCs /\ loc'[p] = loc[p]
                              \/ JoinLookup(p)

\* A handler that answers without committing needs nothing.
LEMMA AnswerFollows ==
    ASSUME NEW p \in Workers, pc'[p] = "answered", pc[p] \in UserPCs => Ends(p)
    PROVE  Follows(p)
BY DEF Follows, UserPCs, LobbyPCs, FoundPCs, CreatePCs, JoinPCs

\* Every step follows the order of its handler's statements.
LEMMA StepFollows ==
    ASSUME TypeInv, NEW p \in Workers, Step(p)
    PROVE  Follows(p)
<1> USE DEF UserPCs, LobbyPCs, FoundPCs, CreatePCs, JoinPCs
<1>1. CASE Endpoint(p)
    BY <1>1, EndpointLocal DEF Endpoint, Follows
<1>2. CASE Create(p)
    <2>1. CASE CreateUser(p)
        BY <2>1, AdvanceLocal DEF CreateUser, InsertsUser, Follows
    <2>2. CASE DrawFreeCode(p)
        BY <2>2, AdvanceLocal DEF DrawFreeCode, Follows
    <2>3. CASE DrawTakenCode(p)
        <3>1. CASE Refuse(p, 500)
            BY <3>1, RefuseLocal, RefuseEnds, AnswerFollows
        <3>2. CASE ~Refuse(p, 500)
            BY <2>3, <3>2 DEF DrawTakenCode, Follows
        <3> QED
            BY <3>1, <3>2
    <2>4. CASE CreateLobby(p)
        <3>1. CASE Refuse(p, 500)
            BY <3>1, RefuseLocal, RefuseEnds, AnswerFollows
        <3>2. CASE ~Refuse(p, 500)
            BY <2>4, <3>2, AdvanceLocal DEF CreateLobby, Follows
        <3> QED
            BY <3>1, <3>2
    <2>5. CASE CreatePlayer(p)
        BY <2>5, AdvanceLocal DEF CreatePlayer, Follows
    <2>6. CASE CreateCommit(p)
        BY <2>6, ReplyLocal, CommitLocal, AnswerFollows DEF CreateCommit, Ends
    <2> QED
        BY <1>2, <2>1, <2>2, <2>3, <2>4, <2>5, <2>6 DEF Create
<1>3. CASE Join(p)
    <2>1. CASE JoinLookup(p)
        BY <2>1, AdvanceLocal, RefuseLocal, RefuseEnds, AnswerFollows DEF JoinLookup, Follows
    <2>2. CASE JoinCount(p)
        BY <2>2, AdvanceLocal, RefuseLocal, RefuseEnds, AnswerFollows DEF JoinCount, Follows
    <2>3. CASE JoinMember(p)
        BY <2>3, AdvanceLocal, RefuseLocal, RefuseEnds, AnswerFollows DEF JoinMember, Follows
    <2>4. CASE JoinUser(p)
        BY <2>4, AdvanceLocal DEF JoinUser, InsertsUser, Follows
    <2>5. CASE JoinPlayer(p)
        BY <2>5, AdvanceLocal DEF JoinPlayer, Follows
    <2>6. CASE JoinCommit(p)
        BY <2>6, AdvanceLocal, CommitLocal DEF JoinCommit, Follows, Ends
    <2>7. CASE JoinDetail(p)
        BY <2>7, ReplyLocal, AnswerFollows DEF JoinDetail
    <2> QED
        BY <1>3, <2>1, <2>2, <2>3, <2>4, <2>5, <2>6, <2>7 DEF Join
<1>4. CASE Kick(p)
    BY <1>4, KickLocal DEF Continues, KickPCs, Follows
<1>5. CASE Get(p)
    BY <1>5, GetLocal DEF Continues, GetPCs, Follows
<1>6. CASE Update(p)
    BY <1>6, UpdateLocal DEF Continues, UpdatePCs, Follows
<1>7. CASE Fault(p)
    BY <1>7, FaultLocal, AnswerFollows DEF Fault, Ends
<1> QED
    BY <1>1, <1>2, <1>3, <1>4, <1>5, <1>6, <1>7 DEF Step, Handle

-----------------------------------------------------------------------------
(* The conjuncts of SafetyInv.                                             *)

\* After its insert, the requesting user is committed or pending.
LEMMA StepUserInserted ==
    ASSUME TypeInv, UserInserted, NEW p \in Workers, Step(p)
    PROVE  UserInserted'
<1> DEFINE Good(q) == pc[q] \in UserPCs => req[q].user \in users \cup tx[q].users
<1>0. /\ \A q \in Workers : Good(q)
      /\ LocalTo(p)
      /\ users \subseteq users'
    BY StepLocal, StepUsers DEF UserInserted
<1>1. SUFFICES ASSUME pc'[p] \in UserPCs
               PROVE  req'[p].user \in users' \cup tx'[p].users
    <2>1. \A q \in Workers \ {p} : Good(q)'
        BY <1>0 DEF LocalTo
    <2> QED
        BY <1>1, <2>1 DEF UserInserted
<1>2. Grows(p)
    BY <1>1, StepGrows DEF Ends, UserPCs, CreatePCs
<1>3. CASE pc[p] \in UserPCs
    BY <1>0, <1>1, <1>2, <1>3, StepFollows DEF Grows, Follows
<1>4. CASE InsertsUser(p)
    <2>1. CreateUserIfNotExistsTx(p, req[p].user)
        BY <1>4 DEF InsertsUser, CreateUser, JoinUser
    <2>2. req[p].user \in users \cup tx'[p].users
        BY <2>1 DEF CreateUserIfNotExistsTx, TypeInv, TypeOK, RepositoryTypeOK, Writes
    <2> QED
        BY <1>0, <1>1, <2>2, StepFollows DEF Follows
<1> QED
    BY <1>1, <1>3, <1>4, StepFollows DEF Follows

\* Locks on users are held between their insert and the end.
LEMMA StepPendingUser ==
    ASSUME TypeInv, PendingUser, NEW p \in Workers, Step(p)
    PROVE  PendingUser'
<1> DEFINE Good(q) == tx[q].users # {} => pc[q] \in UserPCs
<1>0. (\A q \in Workers : Good(q)) /\ LocalTo(p)
    BY StepLocal DEF PendingUser
<1>1. SUFFICES ASSUME tx'[p].users # {} PROVE pc'[p] \in UserPCs
    <2>1. \A q \in Workers \ {p} : Good(q)'
        BY <1>0 DEF LocalTo
    <2> QED
        BY <1>1, <2>1 DEF PendingUser
<1>2. ~Ends(p)
    BY <1>1 DEF Ends, NoWrites
<1>3. CASE InsertsUser(p)
    BY <1>3, AdvanceLocal DEF InsertsUser, CreateUser, JoinUser, UserPCs, CreatePCs
<1>4. CASE tx'[p].users \subseteq tx[p].users
    BY <1>0, <1>1, <1>2, <1>4, StepFollows DEF Follows
<1> QED
    BY <1>3, <1>4, StepGrows

\* After its insert, the new lobby is in the transaction.
LEMMA StepLobbyInserted ==
    ASSUME TypeInv, LobbyInserted, NEW p \in Workers, Step(p)
    PROVE  LobbyInserted'
<1> DEFINE Good(q) == pc[q] \in {"create_player", "create_commit"} =>
                        \E lobby \in tx[q].lobbies : /\ lobby.id = loc[q].lobby
                                                     /\ lobby.join_code = loc[q].code
<1>0. (\A q \in Workers : Good(q)) /\ LocalTo(p)
    BY StepLocal DEF LobbyInserted
<1>1. SUFFICES ASSUME pc'[p] \in LobbyPCs PROVE Good(p)'
    <2>1. \A q \in Workers \ {p} : Good(q)'
        BY <1>0 DEF LocalTo
    <2> QED
        BY <1>1, <2>1 DEF LobbyInserted, LobbyPCs
<1>2. CASE pc[p] \in LobbyPCs /\ loc'[p] = loc[p]
    <2>1. Grows(p)
        BY <1>1, StepGrows DEF Ends, LobbyPCs
    <2> QED
        BY <1>0, <1>2, <2>1 DEF Grows, LobbyPCs
<1>3. CASE CreateLobby(p)
    <2>1. ~Refuse(p, 500)
        BY <1>1, RefuseLocal DEF LobbyPCs
    <2>2. PICK l \in FreshLobbyIDs :
             /\ CreateLobbyTx(p, l, loc[p].code, req[p].user)
             /\ loc' = [loc EXCEPT ![p].lobby = l]
        BY <1>3, <2>1 DEF CreateLobby
    <2> DEFINE new == [id |-> l, join_code |-> loc[p].code,
                       leader_id |-> req[p].user, status |-> "waiting"]
    <2>3. new \in tx'[p].lobbies
        BY <2>2 DEF CreateLobbyTx, TypeInv, TypeOK, RepositoryTypeOK, Writes
    <2>4. loc'[p].lobby = l /\ loc'[p].code = loc[p].code
        BY <2>2 DEF TypeInv, TypeOK, Locals
    <2>5. new.id = l /\ new.join_code = loc[p].code
        OBVIOUS
    <2> HIDE DEF new
    <2> QED
        BY <2>3, <2>4, <2>5
<1> QED
    BY <1>1, <1>2, <1>3, StepFollows DEF Follows

\* The lobby that a join found stays.
LEMMA StepLobbyFound ==
    ASSUME TypeInv, LobbyFound, NEW p \in Workers, Step(p)
    PROVE  LobbyFound'
<1> DEFINE Good(q) == pc[q] \in FoundPCs => LobbyExists(loc[q].lobby)
<1>0. (\A q \in Workers : Good(q)) /\ LocalTo(p) /\ lobbies \subseteq lobbies'
    BY StepLocal, StepUsers DEF LobbyFound, FoundPCs
<1>1. SUFFICES ASSUME pc'[p] \in FoundPCs PROVE Good(p)'
    <2>1. \A q \in Workers \ {p} : Good(q)'
        BY <1>0 DEF LocalTo, LobbyExists
    <2> QED
        BY <1>1, <2>1 DEF LobbyFound, FoundPCs
<1>2. CASE pc[p] \in FoundPCs /\ loc'[p] = loc[p]
    BY <1>0, <1>2 DEF LobbyExists
<1>3. CASE JoinLookup(p)
    <2>1. \E row \in lobbies : loc' = [loc EXCEPT ![p].lobby = row.id]
        BY <1>1, <1>3, RefuseLocal
        DEF JoinLookup, LobbiesWithCode, FoundPCs, JoinPCs
    <2> QED
        BY <1>0, <2>1 DEF LobbyExists, TypeInv, TypeOK, Locals
<1> QED
    BY <1>1, <1>2, <1>3, StepFollows DEF Follows

\* A row that a transaction adds is a new version of a committed one, or is
\* for the requesting user in the lobby of the request.
AddsRow(p, row) ==
    \/ row \in tx[p].added
    \/ \E old \in players : SameRow(old, row)
    \/ /\ pc[p] \in {"create_player", "join_player"}
       /\ row.user_id = req[p].user
       /\ row.lobby_id = loc[p].lobby

\* A lobby that a transaction adds has a code that no other has.
AddsLobby(p, lobby) ==
    \/ lobby \in tx[p].lobbies
    \/ /\ pc[p] = "create_lobby"
       /\ lobby.leader_id = req[p].user
       /\ \A other \in KnownLobbies \ tx[p].lobbies : other.join_code # lobby.join_code
       /\ tx'[p].lobbies = tx[p].lobbies \cup {lobby}

\* What CreatePlayer and JoinPlayer add.
LEMMA AddPlayerAdds ==
    ASSUME TypeInv, NEW p \in Workers, pc[p] \in {"create_player", "join_player"},
           NEW id, AddPlayerTx(p, id, loc[p].lobby, req[p].user)
    PROVE  /\ \A row \in tx'[p].added : AddsRow(p, row)
           /\ tx'[p].lobbies = tx[p].lobbies
<1> DEFINE new == [id |-> id, lobby_id |-> loc[p].lobby, user_id |-> req[p].user,
                   is_active |-> TRUE]
<1>1. tx'[p].added = tx[p].added \cup {new} /\ tx'[p].lobbies = tx[p].lobbies
    BY DEF AddPlayerTx, TypeInv, TypeOK, RepositoryTypeOK, Writes
<1>2. new.lobby_id = loc[p].lobby /\ new.user_id = req[p].user
    OBVIOUS
<1> HIDE DEF new
<1> QED
    BY <1>1, <1>2 DEF AddsRow

\* What CreateLobby adds.
LEMMA CreateLobbyAdds ==
    ASSUME TypeInv, NEW p \in Workers, CreateLobby(p), ~Refuse(p, 500)
    PROVE  /\ tx'[p].added = tx[p].added
           /\ \A lobby \in tx'[p].lobbies : AddsLobby(p, lobby)
<1>1. PICK l \in FreshLobbyIDs : CreateLobbyTx(p, l, loc[p].code, req[p].user)
    BY DEF CreateLobby
<1>2. /\ pc[p] = "create_lobby"
      /\ \A q \in Workers \ {p} : ~CodeInsertBlockedBy(loc[p].code, q)
      /\ ~ViolatesUniqueJoinCode(loc[p].code)
    BY DEF CreateLobby, Others
<1> DEFINE new == [id |-> l, join_code |-> loc[p].code, leader_id |-> req[p].user,
                   status |-> "waiting"]
<1>3. tx'[p].lobbies = tx[p].lobbies \cup {new} /\ tx'[p].added = tx[p].added
    BY <1>1 DEF CreateLobbyTx, TypeInv, TypeOK, RepositoryTypeOK, Writes
<1>4. new.leader_id = req[p].user /\ new.join_code = loc[p].code
    OBVIOUS
<1>5. \A other \in KnownLobbies \ tx[p].lobbies : other.join_code # loc[p].code
    BY <1>2 DEF CodeInsertBlockedBy, ViolatesUniqueJoinCode, KnownLobbies
<1>6. AddsLobby(p, new)
    BY <1>2, <1>3, <1>4, <1>5 DEF AddsLobby
<1> HIDE DEF new
<1> QED
    BY <1>3, <1>6 DEF AddsLobby

\* What UpdateWrite adds.
LEMMA UpdateWriteAdds ==
    ASSUME TypeInv, NEW p \in Workers, UpdateWrite(p), ~Refuse(p, 404)
    PROVE  /\ \A row \in tx'[p].added : AddsRow(p, row)
           /\ tx'[p].lobbies = tx[p].lobbies
<1> DEFINE new == {[row EXCEPT !.is_active = req[p].is_active] :
                      row \in Surviving(loc[p].rows)}
<1>1. UpdatePlayerActiveStatusTx(p, loc[p].rows, req[p].is_active)
    BY DEF UpdateWrite
<1>2. tx'[p].added = tx[p].added \cup new /\ tx'[p].lobbies = tx[p].lobbies
    BY <1>1 DEF UpdatePlayerActiveStatusTx, TypeInv, TypeOK, RepositoryTypeOK, Writes
<1>3. \A row \in new : \E old \in players : SameRow(old, row)
    BY DEF Surviving, SameRow, TypeInv, TypeOK, RepositoryTypeOK, PlayerRow
<1> HIDE DEF new
<1> QED
    BY <1>2, <1>3 DEF AddsRow

\* What any step adds to its transaction.
LEMMA StepAdds ==
    ASSUME TypeInv, NEW p \in Workers, Step(p), ~Ends(p)
    PROVE  /\ \A row \in tx'[p].added : AddsRow(p, row)
           /\ \A lobby \in tx'[p].lobbies : AddsLobby(p, lobby)
<1>0. tx \in [Workers -> Writes]
    BY DEF TypeInv, TypeOK, RepositoryTypeOK
<1>1. ASSUME tx'[p].added = tx[p].added, tx'[p].lobbies = tx[p].lobbies
      PROVE  /\ \A row \in tx'[p].added : AddsRow(p, row)
             /\ \A lobby \in tx'[p].lobbies : AddsLobby(p, lobby)
    BY <1>1 DEF AddsRow, AddsLobby
<1>2. \A status : ~Refuse(p, status)
    BY RefuseEnds
<1>3. CASE Endpoint(p)
    BY <1>1, <1>3, EndpointLocal DEF Endpoint
<1>4. CASE Create(p)
    <2>1. CASE CreateUser(p)
        BY <1>0, <1>1, <2>1 DEF CreateUser, CreateUserIfNotExistsTx, Writes
    <2>2. CASE DrawFreeCode(p) \/ DrawTakenCode(p)
        BY <1>1, <1>2, <2>2 DEF DrawFreeCode, DrawTakenCode
    <2>3. CASE CreateLobby(p)
        BY <1>2, <2>3, CreateLobbyAdds DEF AddsRow
    <2>4. CASE CreatePlayer(p)
        BY <2>4, AddPlayerAdds DEF CreatePlayer, Advance, AddsLobby
    <2>5. CASE CreateCommit(p)
        BY <2>5, ReplyLocal, CommitLocal DEF CreateCommit, Ends
    <2> QED
        BY <1>4, <2>1, <2>2, <2>3, <2>4, <2>5 DEF Create
<1>5. CASE Join(p)
    <2>1. CASE JoinLookup(p) \/ JoinCount(p) \/ JoinMember(p) \/ JoinDetail(p)
        BY <1>1, <1>2, <2>1 DEF JoinLookup, JoinCount, JoinMember, JoinDetail
    <2>2. CASE JoinUser(p)
        BY <1>0, <1>1, <2>2 DEF JoinUser, CreateUserIfNotExistsTx, Writes
    <2>3. CASE JoinPlayer(p)
        BY <2>3, AddPlayerAdds DEF JoinPlayer, Advance, AddsLobby
    <2>4. CASE JoinCommit(p)
        BY <2>4, AdvanceLocal, CommitLocal DEF JoinCommit, Ends
    <2> QED
        BY <1>5, <2>1, <2>2, <2>3, <2>4 DEF Join
<1>6. CASE Kick(p)
    <2>1. CASE KickAuthorize(p) \/ KickLeader(p) \/ KickMember(p) \/ KickScan(p)
        BY <1>1, <1>2, <2>1 DEF KickAuthorize, KickLeader, KickMember, KickScan
    <2>2. CASE KickDelete(p)
        BY <1>0, <1>1, <2>2 DEF KickDelete, DeletePlayerTx, Writes
    <2>3. CASE KickCommit(p)
        BY <2>3, ReplyLocal, CommitLocal DEF KickCommit, Ends
    <2> QED
        BY <1>6, <2>1, <2>2, <2>3 DEF Kick
<1>7. CASE Get(p)
    BY <1>1, <1>2, <1>7 DEF Get, GetAuthorize, GetMember, GetDetail
<1>8. CASE Update(p)
    <2>1. CASE UpdateLobby(p) \/ UpdateMember(p) \/ UpdateScan(p)
        BY <1>1, <1>2, <2>1 DEF UpdateLobby, UpdateMember, UpdateScan
    <2>2. CASE UpdateWrite(p)
        BY <1>2, <2>2, UpdateWriteAdds DEF AddsLobby
    <2>3. CASE UpdateCommit(p)
        BY <2>3, ReplyLocal, CommitLocal DEF UpdateCommit, Ends
    <2> QED
        BY <1>8, <2>1, <2>2, <2>3 DEF Update
<1>9. CASE Fault(p)
    BY <1>9, FaultLocal DEF Fault, Ends
<1> QED
    BY <1>3, <1>4, <1>5, <1>6, <1>7, <1>8, <1>9 DEF Step, Handle

\* Open transactions refer to users and lobbies that are there.
LEMMA StepPendingReferences ==
    ASSUME SafetyInv, NEW p \in Workers, Step(p)
    PROVE  PendingReferences'
<1> DEFINE UserKnown(q, u) == u \in users \cup tx[q].users
           LobbyKnown(q, l) == \E lobby \in lobbies \cup tx[q].lobbies : lobby.id = l
           Refers(q, row) == UserKnown(q, row.user_id) /\ LobbyKnown(q, row.lobby_id)
<1>0. /\ \A q \in Workers :
           /\ \A lobby \in tx[q].lobbies : UserKnown(q, lobby.leader_id)
           /\ \A row \in tx[q].added : Refers(q, row)
      /\ LocalTo(p) /\ TypeInv
      /\ users \subseteq users' /\ lobbies \subseteq lobbies'
    BY StepLocal, StepUsers DEF SafetyInv, LeaderInv, PendingReferences
<1>1. SUFFICES /\ \A lobby \in tx'[p].lobbies : UserKnown(p, lobby.leader_id)'
               /\ \A row \in tx'[p].added : Refers(p, row)'
    <2>1. \A q \in Workers \ {p} :
            /\ \A lobby \in tx'[q].lobbies : UserKnown(q, lobby.leader_id)'
            /\ \A row \in tx'[q].added : Refers(q, row)'
        BY <1>0 DEF LocalTo
    <2> QED
        BY <1>1, <2>1 DEF PendingReferences
<1>2. CASE Ends(p)
    BY <1>2 DEF Ends, NoWrites
<1>3. CASE ~Ends(p)
    <2>1. Grows(p)
        BY <1>0, <1>3, StepGrows
    <2>2. ASSUME NEW lobby \in tx'[p].lobbies PROVE UserKnown(p, lobby.leader_id)'
        <3>1. AddsLobby(p, lobby)
            BY <1>0, <1>3, StepAdds
        <3>2. CASE lobby \in tx[p].lobbies
            BY <1>0, <2>1, <3>2 DEF Grows
        <3>3. CASE pc[p] = "create_lobby" /\ lobby.leader_id = req[p].user
            BY <1>0, <2>1, <3>3 DEF SafetyInv, UserInserted, UserPCs, CreatePCs, Grows
        <3> QED
            BY <3>1, <3>2, <3>3 DEF AddsLobby
    <2>3. ASSUME NEW row \in tx'[p].added PROVE Refers(p, row)'
        <3>1. AddsRow(p, row)
            BY <1>0, <1>3, StepAdds
        <3>2. CASE row \in tx[p].added
            BY <1>0, <2>1, <3>2 DEF Grows
        <3>3. CASE \E old \in players : SameRow(old, row)
            BY <1>0, <3>3 DEF SafetyInv, ReferentialIntegrity, LobbyExists, SameRow
        <3>4. CASE /\ pc[p] \in {"create_player", "join_player"}
                   /\ row.user_id = req[p].user
                   /\ row.lobby_id = loc[p].lobby
            <4>1. req[p].user \in users \cup tx[p].users
                BY <3>4 DEF SafetyInv, UserInserted, UserPCs, CreatePCs
            <4>2. LobbyKnown(p, loc[p].lobby)
                BY <3>4 DEF SafetyInv, LobbyInserted, LobbyFound, LobbyExists, JoinPCs
            <4> QED
                BY <1>0, <2>1, <3>4, <4>1, <4>2 DEF Grows
        <3> QED
            BY <3>1, <3>2, <3>3, <3>4 DEF AddsRow
    <2> QED
        BY <2>2, <2>3
<1> QED
    BY <1>2, <1>3

\* So a commit leaves no reference to a missing row.
LEMMA StepReferentialIntegrity ==
    ASSUME SafetyInv, NEW p \in Workers, Step(p)
    PROVE  ReferentialIntegrity'
<1>0. TypeInv /\ users \subseteq users' /\ lobbies \subseteq lobbies'
    BY StepUsers DEF SafetyInv, LeaderInv
<1>1. CASE UNCHANGED <<lobbies, players>>
    BY <1>0, <1>1 DEF SafetyInv, ReferentialIntegrity, LobbyExists
<1>2. CASE CommitTx(p)
    <2>1. /\ users' = users \cup tx[p].users
          /\ lobbies' = lobbies \cup tx[p].lobbies
          /\ players' = (players \ tx[p].removed) \cup tx[p].added
        BY <1>2 DEF CommitTx
    <2> QED
        BY <2>1 DEF SafetyInv, ReferentialIntegrity, PendingReferences, LobbyExists
<1> QED
    BY <1>0, <1>1, <1>2, StepTables

\* A code becomes known only when no lobby, committed or pending, has it.
LEMMA StepUniqueKnownCodes ==
    ASSUME LeaderInv, UniqueKnownCodes, NEW p \in Workers, Step(p)
    PROVE  UniqueKnownCodes'
<1>0. LocalTo(p) /\ TypeInv
    BY StepLocal DEF LeaderInv
<1>1. lobbies' \subseteq KnownLobbies
    BY <1>0, StepTables DEF CommitTx, KnownLobbies
<1>2. \A q \in Workers \ {p} : tx'[q].lobbies \subseteq KnownLobbies
    BY <1>0 DEF LocalTo, KnownLobbies
<1>3. CASE Ends(p)
    <2>1. KnownLobbies' \subseteq KnownLobbies
        BY <1>1, <1>2, <1>3 DEF Ends, NoWrites, KnownLobbies
    <2> QED
        BY <2>1 DEF UniqueKnownCodes
<1>4. CASE ~Ends(p)
    <2>1. CASE tx'[p].lobbies \subseteq tx[p].lobbies
        <3>1. KnownLobbies' \subseteq KnownLobbies
            BY <1>1, <1>2, <2>1 DEF KnownLobbies
        <3> QED
            BY <3>1 DEF UniqueKnownCodes
    <2>2. CASE ~(tx'[p].lobbies \subseteq tx[p].lobbies)
        <3>1. PICK new \in tx'[p].lobbies : new \notin tx[p].lobbies
            BY <2>2
        <3>2. AddsLobby(p, new)
            BY <1>0, <1>4, StepAdds
        <3>3. tx[p].lobbies = {}
            BY <3>1, <3>2 DEF AddsLobby, LeaderInv, PendingLobby
        <3>4. /\ tx'[p].lobbies = {new}
              /\ \A other \in KnownLobbies : other.join_code # new.join_code
            BY <3>1, <3>2, <3>3 DEF AddsLobby
        <3>5. KnownLobbies' \subseteq KnownLobbies \cup {new}
            BY <1>1, <1>2, <3>4 DEF KnownLobbies
        <3> QED
            BY <3>4, <3>5 DEF UniqueKnownCodes
    <2> QED
        BY <2>1, <2>2
<1> QED
    BY <1>3, <1>4

-----------------------------------------------------------------------------
(* Answers.                                                                *)

\* A response with a body: of a create that commits, or of the details that
\* a join or a get reads.
Answers(p) ==
    \/ resp'[p].status \notin {200, 201}
    \/ CreateCommit(p)
    \/ JoinDetail(p)
    \/ GetDetail(p)

\* The response of a refusal.
LEMMA RefuseResponse ==
    ASSUME TypeInv, NEW p \in Workers, NEW status, Refuse(p, status)
    PROVE  /\ resp'[p].status = status
           /\ \A q \in Workers \ {p} : resp'[q] = resp[q]
BY DEF Refuse, Reply, TypeInv, TypeOK

\* The response of any answer.
LEMMA ReplyResponse ==
    ASSUME TypeInv, NEW p \in Workers, NEW status, NEW body, Reply(p, status, body)
    PROVE  /\ resp'[p].status = status /\ resp'[p].body = body
           /\ \A q \in Workers \ {p} : resp'[q] = resp[q]
BY DEF Reply, TypeInv, TypeOK

\* A handler goes on without a response, or answers and is done.
LEMMA StepResponse ==
    ASSUME TypeInv, Unanswered, NEW p \in Workers, Step(p)
    PROVE  /\ \A q \in Workers \ {p} : resp'[q] = resp[q]
           /\ pc'[p] # "answered" => resp'[p] = NoResponse
           /\ Answers(p)
<1>u. pc[p] # "answered" => resp[p] = NoResponse
    BY DEF Unanswered
<1>a. ASSUME NEW here, NEW there, here # "answered", there # "answered",
             Advance(p, here, there)
      PROVE  /\ \A q \in Workers \ {p} : resp'[q] = resp[q]
             /\ pc'[p] # "answered" => resp'[p] = NoResponse
             /\ Answers(p)
    BY <1>a, <1>u, AdvanceLocal DEF Advance, Answers, NoResponse
<1>r. ASSUME NEW status, status \notin {200, 201}, Refuse(p, status)
      PROVE  /\ \A q \in Workers \ {p} : resp'[q] = resp[q]
             /\ pc'[p] # "answered" => resp'[p] = NoResponse
             /\ Answers(p)
    BY <1>r, RefuseResponse, RefuseLocal DEF Answers
<1>1. CASE Endpoint(p)
    <2>1. CASE Receive(p)
        BY <1>u, <2>1 DEF Receive, Answers, NoResponse
    <2>2. CASE ReceiveMalformed(p)
        BY <2>2 DEF ReceiveMalformed, Answers, TypeInv, TypeOK
    <2>3. CASE Deliver(p)
        BY <2>3 DEF Deliver, Answers, NoResponse, TypeInv, TypeOK
    <2> QED
        BY <1>1, <2>1, <2>2, <2>3 DEF Endpoint
<1>2. CASE Create(p)
    <2>1. CASE CreateUser(p) \/ DrawFreeCode(p) \/ CreatePlayer(p)
        BY <1>a, <2>1 DEF CreateUser, DrawFreeCode, CreatePlayer
    <2>2. CASE DrawTakenCode(p)
        <3>1. CASE Refuse(p, 500)
            BY <1>r, <3>1
        <3>2. CASE ~Refuse(p, 500)
            BY <1>u, <2>2, <3>2 DEF DrawTakenCode, Answers, NoResponse
        <3> QED
            BY <3>1, <3>2
    <2>3. CASE CreateLobby(p)
        BY <1>a, <1>r, <2>3 DEF CreateLobby
    <2>4. CASE CreateCommit(p)
        BY <2>4, ReplyResponse, ReplyLocal DEF CreateCommit, Answers
    <2> QED
        BY <1>2, <2>1, <2>2, <2>3, <2>4 DEF Create
<1>3. CASE Join(p)
    <2>1. CASE JoinLookup(p)
        BY <1>a, <1>r, <2>1 DEF JoinLookup
    <2>2. CASE JoinCount(p) \/ JoinMember(p)
        BY <1>a, <1>r, <2>2 DEF JoinCount, JoinMember
    <2>3. CASE JoinUser(p) \/ JoinPlayer(p) \/ JoinCommit(p)
        BY <1>a, <2>3 DEF JoinUser, JoinPlayer, JoinCommit
    <2>4. CASE JoinDetail(p)
        BY <2>4, ReplyResponse, ReplyLocal DEF JoinDetail, Answers
    <2> QED
        BY <1>3, <2>1, <2>2, <2>3, <2>4 DEF Join
<1>4. CASE Kick(p)
    <2>1. CASE KickAuthorize(p)
        BY <1>a, <1>r, <2>1 DEF KickAuthorize
    <2>2. CASE KickLeader(p) \/ KickMember(p)
        BY <1>a, <1>r, <2>2 DEF KickLeader, KickMember
    <2>3. CASE KickScan(p) \/ KickDelete(p)
        BY <1>a, <2>3 DEF KickScan, KickDelete
    <2>4. CASE KickCommit(p)
        BY <2>4, ReplyResponse, ReplyLocal DEF KickCommit, Answers
    <2> QED
        BY <1>4, <2>1, <2>2, <2>3, <2>4 DEF Kick
<1>5. CASE Get(p)
    <2>1. CASE GetAuthorize(p) \/ GetMember(p)
        BY <1>a, <1>r, <2>1 DEF GetAuthorize, GetMember
    <2>2. CASE GetDetail(p)
        BY <2>2, ReplyResponse, ReplyLocal DEF GetDetail, Answers
    <2> QED
        BY <1>5, <2>1, <2>2 DEF Get
<1>6. CASE Update(p)
    <2>1. CASE UpdateLobby(p) \/ UpdateMember(p) \/ UpdateScan(p) \/ UpdateWrite(p)
        BY <1>a, <1>r, <2>1 DEF UpdateLobby, UpdateMember, UpdateScan, UpdateWrite
    <2>2. CASE UpdateCommit(p)
        BY <2>2, ReplyResponse, ReplyLocal DEF UpdateCommit, Answers
    <2> QED
        BY <1>6, <2>1, <2>2 DEF Update
<1>7. CASE Fault(p)
    BY <1>r, <1>7, ReplyResponse, ReplyLocal DEF Fault, DBFailure, CommitUnacknowledged, Answers
<1> QED
    BY <1>1, <1>2, <1>3, <1>4, <1>5, <1>6, <1>7 DEF Step, Handle

\* Nothing is answered before the handler is done.
LEMMA StepUnanswered ==
    ASSUME TypeInv, Unanswered, NEW p \in Workers, Step(p)
    PROVE  Unanswered'
BY StepResponse, StepLocal DEF Unanswered, LocalTo

\* 201 is answered with the lobby that the commit has just put in the table.
LEMMA StepCreatedCommitted ==
    ASSUME TypeInv, Unanswered, LobbyInserted, CreatedCommitted,
           NEW p \in Workers, Step(p)
    PROVE  CreatedCommitted'
<1> DEFINE Good(q) == resp[q].status = 201 =>
                        \E lobby \in lobbies : /\ lobby.id = resp[q].body.lobby_id
                                               /\ lobby.join_code = resp[q].body.join_code
<1>0. /\ \A q \in Workers : Good(q)
      /\ \A q \in Workers \ {p} : resp'[q] = resp[q]
      /\ lobbies \subseteq lobbies'
    BY StepResponse, StepUsers DEF CreatedCommitted
<1>1. SUFFICES ASSUME resp'[p].status = 201 PROVE Good(p)'
    <2>1. \A q \in Workers \ {p} : Good(q)'
        BY <1>0
    <2> QED
        BY <1>1, <2>1 DEF CreatedCommitted
<1>2. CASE JoinDetail(p)
    BY <1>1, <1>2, ReplyResponse DEF JoinDetail
<1>3. CASE GetDetail(p)
    BY <1>1, <1>3, ReplyResponse DEF GetDetail
<1>4. CASE CreateCommit(p)
    <2>1. PICK lobby \in tx[p].lobbies : /\ lobby.id = loc[p].lobby
                                         /\ lobby.join_code = loc[p].code
        BY <1>4 DEF CreateCommit, LobbyInserted
    <2>2. resp'[p].body = CreateResponse(p)
        BY <1>4, ReplyResponse DEF CreateCommit
    <2>3. lobby \in lobbies'
        BY <1>4 DEF CreateCommit, CommitTx
    <2> QED
        BY <2>1, <2>2, <2>3 DEF CreateResponse
<1> QED
    BY <1>1, <1>2, <1>3, <1>4, StepResponse DEF Answers

\* 200 is answered to a get only with details that name the caller.
LEMMA StepGetOnlyForMembers ==
    ASSUME TypeInv, Unanswered, GetOnlyForMembers, NEW p \in Workers, Step(p)
    PROVE  GetOnlyForMembers'
<1> DEFINE Good(q) == resp[q].status = 200 /\ req[q].op = "get" =>
                        \/ resp[q].body.leader_id = req[q].user
                        \/ \E row \in resp[q].body.players : row.user_id = req[q].user
<1>0. /\ \A q \in Workers : Good(q)
      /\ \A q \in Workers \ {p} : resp'[q] = resp[q] /\ req'[q] = req[q]
    BY StepResponse, StepLocal DEF GetOnlyForMembers, LocalTo
<1>1. SUFFICES ASSUME resp'[p].status = 200, req'[p].op = "get" PROVE Good(p)'
    <2>1. \A q \in Workers \ {p} : Good(q)'
        BY <1>0
    <2> QED
        BY <1>1, <2>1 DEF GetOnlyForMembers
<1>2. CASE CreateCommit(p)
    BY <1>1, <1>2, ReplyResponse DEF CreateCommit
<1>3. CASE JoinDetail(p)
    <2>1. req'[p] \in JoinRequest
        BY <1>3 DEF JoinDetail, Reply, TypeInv, Dispatched, JoinPCs
    <2> QED
        BY <1>1, <2>1 DEF JoinRequest
<1>4. CASE GetDetail(p)
    <2>1. PICK d : MayRead(d, req[p].user) /\ Reply(p, 200, d)
        BY <1>1, <1>4, ReplyResponse DEF GetDetail
    <2>2. resp'[p].body = d /\ req'[p] = req[p]
        BY <2>1, ReplyResponse DEF Reply
    <2> QED
        BY <2>1, <2>2 DEF MayRead, ListedIn
<1> QED
    BY <1>1, <1>2, <1>3, <1>4, StepResponse DEF Answers

-----------------------------------------------------------------------------
(* SafetyInv is inductive.                                                 *)

\* Nothing is known, pending or answered at the start.
LEMMA InitSafety == Init => SafetyInv
<1> SUFFICES ASSUME Init PROVE SafetyInv
    OBVIOUS
<1>1. /\ lobbies = {} /\ players = {}
      /\ \A q \in Workers : /\ tx[q] = NoWrites
                            /\ pc[q] = "idle"
                            /\ resp[q] = NoResponse
    BY DEF Init, RepositoryInit
<1>2. Unanswered /\ CreatedCommitted /\ GetOnlyForMembers
    BY <1>1 DEF Unanswered, CreatedCommitted, GetOnlyForMembers, NoResponse
<1>3. UserInserted /\ PendingUser /\ LobbyInserted /\ LobbyFound
    BY <1>1
    DEF UserInserted, PendingUser, LobbyInserted, LobbyFound, UserPCs, CreatePCs,
        JoinPCs, NoWrites
<1>4. PendingReferences /\ ReferentialIntegrity
    BY <1>1 DEF PendingReferences, ReferentialIntegrity, NoWrites
<1>5. UniqueKnownCodes
    BY <1>1 DEF UniqueKnownCodes, KnownLobbies, NoWrites
<1> QED
    BY <1>2, <1>3, <1>4, <1>5, InitLeader DEF SafetyInv

\* Every step of a worker preserves it.
LEMMA StepSafety ==
    ASSUME SafetyInv, NEW p \in Workers, Step(p), LeaderInv'
    PROVE  SafetyInv'
<1>1. TypeInv /\ LeaderInv
    BY DEF SafetyInv, LeaderInv
<1>2. Unanswered' /\ CreatedCommitted' /\ GetOnlyForMembers'
    BY <1>1, StepUnanswered, StepCreatedCommitted, StepGetOnlyForMembers DEF SafetyInv
<1>3. UserInserted' /\ PendingUser' /\ LobbyInserted' /\ LobbyFound'
    BY <1>1, StepUserInserted, StepPendingUser, StepLobbyInserted, StepLobbyFound
    DEF SafetyInv
<1>4. PendingReferences' /\ ReferentialIntegrity'
    BY StepPendingReferences, StepReferentialIntegrity
<1>5. UniqueKnownCodes'
    BY <1>1, StepUniqueKnownCodes DEF SafetyInv
<1> QED
    BY <1>2, <1>3, <1>4, <1>5 DEF SafetyInv

\* So does a crash.
LEMMA CrashSafety ==
    ASSUME SafetyInv, Crash, LeaderInv'
    PROVE  SafetyInv'
<1>1. /\ UNCHANGED <<users, lobbies, players>>
      /\ \A q \in Workers : /\ tx'[q] = NoWrites
                            /\ pc'[q] = "idle"
                            /\ resp'[q] = NoResponse
    BY DEF Crash, tables
<1>2. Unanswered' /\ CreatedCommitted' /\ GetOnlyForMembers'
    BY <1>1 DEF Unanswered, CreatedCommitted, GetOnlyForMembers, NoResponse
<1>3. UserInserted' /\ PendingUser' /\ LobbyInserted' /\ LobbyFound'
    BY <1>1
    DEF UserInserted, PendingUser, LobbyInserted, LobbyFound, UserPCs, CreatePCs,
        JoinPCs, NoWrites
<1>4. PendingReferences' /\ ReferentialIntegrity'
    BY <1>1
    DEF SafetyInv, PendingReferences, ReferentialIntegrity, LobbyExists, NoWrites
<1>5. UniqueKnownCodes'
    <2>1. KnownLobbies' \subseteq KnownLobbies
        BY <1>1 DEF KnownLobbies, NoWrites
    <2> QED
        BY <2>1 DEF SafetyInv, UniqueKnownCodes
<1> QED
    BY <1>2, <1>3, <1>4, <1>5 DEF SafetyInv

\* So does every step.
LEMMA NextSafety == SafetyInv /\ [Next]_vars => SafetyInv'
<1> SUFFICES ASSUME SafetyInv, [Next]_vars PROVE SafetyInv'
    OBVIOUS
<1>1. LeaderInv'
    BY NextLeader DEF SafetyInv
<1>2. CASE UNCHANGED vars
    <2>1. UNCHANGED <<users, lobbies, players, tx, pc, req, loc, resp>>
        BY <1>2 DEF vars
    <2>2. Unanswered' /\ CreatedCommitted' /\ GetOnlyForMembers'
        BY <2>1 DEF SafetyInv, Unanswered, CreatedCommitted, GetOnlyForMembers
    <2>3. UserInserted' /\ PendingUser' /\ LobbyInserted' /\ LobbyFound'
        BY <2>1
        DEF SafetyInv, UserInserted, PendingUser, LobbyInserted, LobbyFound, LobbyExists
    <2>4. PendingReferences' /\ ReferentialIntegrity' /\ UniqueKnownCodes'
        BY <2>1
        DEF SafetyInv, PendingReferences, ReferentialIntegrity, LobbyExists,
            UniqueKnownCodes, KnownLobbies
    <2> QED
        BY <1>1, <2>2, <2>3, <2>4 DEF SafetyInv
<1>3. CASE Crash
    BY <1>1, <1>3, CrashSafety
<1>4. ASSUME NEW p \in Workers, Step(p) PROVE SafetyInv'
    BY <1>1, <1>4, StepSafety
<1> QED
    BY <1>2, <1>3, <1>4 DEF Next, Step, Endpoint, Fault

\* Whatever runs concurrently, fails or crashes, SafetyInv holds; its conjuncts
\* include ReferentialIntegrity and GetOnlyForMembers.
THEOREM SafetyInvariant == Spec => []SafetyInv
BY InitSafety, NextSafety, PTL DEF Spec

\* A user or lobby that a row refers to is always there: the schema's foreign
\* keys never refuse an insert of postgres.go.
THEOREM ReferencesHold == Spec => []ReferentialIntegrity
BY SafetyInvariant, PTL DEF SafetyInv

\* GET shows a lobby's details to nobody but its players, even when a kick
\* commits between the middleware and the handler (get_lobby.go).
THEOREM OnlyMembersRead == Spec => []GetOnlyForMembers
BY SafetyInvariant, PTL DEF SafetyInv

\* No two lobbies have the same join code, although generator.go looks for
\* collisions outside the transaction that inserts the code.
THEOREM CodesAreUnique == Spec => []UniqueJoinCodes
<1>1. SafetyInv => UniqueJoinCodes
    BY DEF SafetyInv, UniqueKnownCodes, UniqueJoinCodes, KnownLobbies
<1> QED
    BY <1>1, SafetyInvariant, PTL

\* The code told with 201 leads to the lobby created, and to no other
\* (create_lobby.go).
THEOREM CreatedCodesWork == Spec => []CreatedCodeWorks
<1>1. SafetyInv => CreatedCodeWorks
    <2> SUFFICES ASSUME SafetyInv, NEW p \in Workers, resp[p].status = 201
                 PROVE  \E row \in lobbies :
                          /\ row.id = resp[p].body.lobby_id
                          /\ LobbiesWithCode(resp[p].body.join_code) = {row}
        BY DEF CreatedCodeWorks
    <2>1. PICK lobby \in lobbies : /\ lobby.id = resp[p].body.lobby_id
                                   /\ lobby.join_code = resp[p].body.join_code
        BY DEF SafetyInv, CreatedCommitted
    <2>2. LobbiesWithCode(resp[p].body.join_code) = {lobby}
        BY <2>1 DEF SafetyInv, UniqueKnownCodes, KnownLobbies, LobbiesWithCode
    <2> QED
        BY <2>1, <2>2
<1> QED
    BY <1>1, SafetyInvariant, PTL

-----------------------------------------------------------------------------
(* Waiting.                                                                *)

\* A worker that holds a join code or player rows waits for nobody, and one
\* that holds a user waits at most for a join code: hence no cycle.
LEMMA NoCycle == SafetyInv => NoLockCycle
<1> SUFFICES ASSUME SafetyInv, NEW S \in (SUBSET Workers) \ {{}}
             PROVE  \E p \in S : \A q \in S \ {p} : ~WaitsFor(p, q)
    BY DEF NoLockCycle
<1> DEFINE Waiting == {"create_user", "join_user", "create_lobby", "kick_delete",
                       "update_write"}
<1>1. CASE \E p \in S : pc[p] \notin Waiting
    BY <1>1 DEF WaitsFor
<1>2. CASE \A p \in S : pc[p] \in Waiting
    <2>1. \A q \in S : tx[q].lobbies = {} /\ tx[q].removed = {}
        BY <1>2 DEF SafetyInv, LeaderInv, PendingLobby, PendingRemoval
    <2>2. CASE \E p \in S : pc[p] \notin {"create_user", "join_user"}
        <3>1. PICK p \in S : pc[p] \notin {"create_user", "join_user"}
            BY <2>2
        <3>2. \A q \in S : /\ ~CodeInsertBlockedBy(loc[p].code, q)
                           /\ ~RowsLockedBy(loc[p].rows, q)
            BY <2>1 DEF CodeInsertBlockedBy, RowsLockedBy
        <3>3. \A q \in S \ {p} : ~WaitsFor(p, q)
            BY <3>1, <3>2 DEF WaitsFor
        <3> QED
            BY <3>1, <3>3
    <2>3. CASE \A p \in S : pc[p] \in {"create_user", "join_user"}
        <3>1. \A q \in S : tx[q].users = {}
            BY <2>3 DEF SafetyInv, PendingUser, UserPCs, CreatePCs
        <3> QED
            BY <2>3, <3>1 DEF WaitsFor, UserInsertBlockedBy
    <2> QED
        BY <2>2, <2>3
<1> QED
    BY <1>1, <1>2

\* The handlers never wait for each other in a circle, however many there are.
THEOREM NoDeadlock == Spec => []NoLockCycle
BY NoCycle, SafetyInvariant, PTL

=============================================================================
