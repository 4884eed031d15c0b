-------------------------- MODULE LobbyTypeProofs --------------------------
(***************************************************************************)
(* Type correctness of LobbyService, for every value of its constants.     *)
(*                                                                         *)
(* What a step does to the database and what it does to the control state  *)
(* (Advance, Reply, Refuse) are two groups of lemmas; the proof of each    *)
(* action puts one of either together.                                     *)
(***************************************************************************)
EXTENDS LobbyInvariant, TLAPS

-----------------------------------------------------------------------------
(* The database.                                                           *)

\* The empty transaction is well typed.
LEMMA NoWritesType == NoWrites \in Writes
BY DEF NoWrites, Writes

\* A rollback keeps the database well typed.
LEMMA RollbackType ==
    ASSUME RepositoryTypeOK, NEW p \in Workers, RollbackTx(p)
    PROVE  RepositoryTypeOK'
BY NoWritesType DEF RepositoryTypeOK, RollbackTx, tables

\* So does a commit: what a transaction has written is made of rows.
LEMMA CommitType ==
    ASSUME RepositoryTypeOK, NEW p \in Workers, CommitTx(p)
    PROVE  RepositoryTypeOK'
BY NoWritesType DEF RepositoryTypeOK, CommitTx, Writes

\* The insert of a user keeps the database well typed, ...
LEMMA CreateUserType ==
    ASSUME RepositoryTypeOK, NEW p \in Workers, NEW u \in Users,
           CreateUserIfNotExistsTx(p, u), UNCHANGED tables
    PROVE  RepositoryTypeOK'
BY DEF RepositoryTypeOK, CreateUserIfNotExistsTx, Writes, tables

\* ... that of a lobby, ...
LEMMA CreateLobbyType ==
    ASSUME RepositoryTypeOK, NEW p \in Workers, NEW l \in LobbyIDs,
           NEW code \in JoinCodes, NEW u \in Users,
           CreateLobbyTx(p, l, code, u), UNCHANGED tables
    PROVE  RepositoryTypeOK'
BY DEF RepositoryTypeOK, CreateLobbyTx, Writes, LobbyRow, Statuses, tables

\* ... that of a player, ...
LEMMA AddPlayerType ==
    ASSUME RepositoryTypeOK, NEW p \in Workers, NEW id \in PlayerIDs,
           NEW l \in LobbyIDs, NEW u \in Users,
           AddPlayerTx(p, id, l, u), UNCHANGED tables
    PROVE  RepositoryTypeOK'
<1>1. [id |-> id, lobby_id |-> l, user_id |-> u, is_active |-> TRUE] \in PlayerRow
    BY DEF PlayerRow
<1> QED
    BY <1>1 DEF RepositoryTypeOK, AddPlayerTx, Writes, tables

\* ... a DELETE ...
LEMMA DeletePlayerType ==
    ASSUME RepositoryTypeOK, NEW p \in Workers, NEW ids,
           DeletePlayerTx(p, ids), UNCHANGED tables
    PROVE  RepositoryTypeOK'
BY DEF RepositoryTypeOK, DeletePlayerTx, Surviving, Writes, tables

\* ... and an UPDATE.
LEMMA UpdatePlayerType ==
    ASSUME RepositoryTypeOK, NEW p \in Workers, NEW ids, NEW active \in BOOLEAN,
           UpdatePlayerActiveStatusTx(p, ids, active), UNCHANGED tables
    PROVE  RepositoryTypeOK'
<1>1. Surviving(ids) \in SUBSET PlayerRow
    BY DEF RepositoryTypeOK, Surviving
<1>2. {[row EXCEPT !.is_active = active] : row \in Surviving(ids)} \in SUBSET PlayerRow
    BY <1>1 DEF PlayerRow
<1> QED
    BY <1>1, <1>2
    DEF RepositoryTypeOK, UpdatePlayerActiveStatusTx, Writes, tables

\* What GetLobbyDetail returns is a well-formed response.
LEMMA DetailType ==
    ASSUME RepositoryTypeOK, NEW l, NEW detail \in LobbyDetail(l)
    PROVE  detail \in Bodies
BY DEF RepositoryTypeOK, LobbyDetail, LobbyRow, PlayersOf, Bodies

-----------------------------------------------------------------------------
(* The control state.                                                      *)

SameHandler(here, there) ==
    /\ there \in PCs
    /\ there \in CreatePCs => here \in CreatePCs
    /\ there \in JoinPCs => here \in JoinPCs
    /\ there \in KickPCs => here \in KickPCs
    /\ there \in GetPCs => here \in GetPCs
    /\ there \in UpdatePCs => here \in UpdatePCs

\* The locals l suffice for the statement at pc.
Ready(there, l) ==
    /\ there \in {"create_lobby", "create_player", "create_commit"} =>
         l.code \in JoinCodes
    /\ there \in {"create_player", "create_commit"} \cup (JoinPCs \ {"join_lookup"}) =>
         l.lobby \in LobbyIDs

\* A step to the next statement of the same handler, whose locals are assigned.
LEMMA AdvanceType ==
    ASSUME TypeInv, NEW p \in Workers, NEW here, NEW there,
           Advance(p, here, there),
           RepositoryTypeOK',
           NEW new \in Locals, loc' = [loc EXCEPT ![p] = new],
           SameHandler(here, there), Ready(there, new)
    PROVE  TypeInv'
<1>1. TypeOK'
    BY DEF TypeInv, TypeOK, Advance, SameHandler
<1>2. Dispatched'
    BY DEF TypeInv, TypeOK, Advance, Dispatched, SameHandler
<1>3. Assigned'
    BY DEF TypeInv, TypeOK, Advance, Assigned, Ready
<1> QED
    BY <1>1, <1>2, <1>3 DEF TypeInv

\* A handler that answers has nothing left to know.
LEMMA ReplyType ==
    ASSUME TypeInv, NEW p \in Workers,
           NEW status \in {200, 201, 204, 400, 403, 404, 409, 500},
           NEW body \in Bodies \cup {None},
           Reply(p, status, body), RepositoryTypeOK'
    PROVE  TypeInv'
<1>1. NoLocals \in Locals
    BY MaxRetriesAssumption DEF NoLocals, Locals
<1>2. [status |-> status, body |-> body] \in Responses
    BY DEF Responses
<1>3. TypeOK'
    BY <1>1, <1>2 DEF TypeInv, TypeOK, Reply, PCs
<1>4. Dispatched'
    BY DEF TypeInv, TypeOK, Reply, Dispatched, CreatePCs, JoinPCs, KickPCs, GetPCs, UpdatePCs
<1>5. Assigned'
    BY DEF TypeInv, TypeOK, Reply, Assigned, JoinPCs
<1> QED
    BY <1>3, <1>4, <1>5 DEF TypeInv

\* A refusal keeps everything well typed.
LEMMA RefuseType ==
    ASSUME TypeInv, NEW p \in Workers,
           NEW status \in {400, 403, 404, 409, 500}, Refuse(p, status)
    PROVE  TypeInv'
BY RollbackType, ReplyType DEF Refuse, TypeInv, TypeOK

\* The handlers' steps that read the database only.
LEMMA ReadType ==
    ASSUME TypeInv, NEW p \in Workers, NEW here, NEW there,
           Advance(p, here, there), UNCHANGED <<tables, tx, loc>>,
           SameHandler(here, there), Ready(there, loc[p])
    PROVE  TypeInv'
<1>1. /\ loc[p] \in Locals
      /\ loc' = [loc EXCEPT ![p] = loc[p]]
    BY DEF TypeInv, TypeOK
<1>2. RepositoryTypeOK'
    BY DEF TypeInv, TypeOK, RepositoryTypeOK, tables
<1> QED
    BY <1>1, <1>2, AdvanceType

-----------------------------------------------------------------------------
(* The handlers.                                                           *)

\* The statements of POST /lobbies follow one another within the handler.
LEMMA CreateSteps ==
    /\ SameHandler("create_user", "create_code")
    /\ SameHandler("create_code", "create_lobby")
    /\ SameHandler("create_lobby", "create_player")
    /\ SameHandler("create_player", "create_commit")
BY DEF SameHandler, PCs, CreatePCs, JoinPCs, KickPCs, GetPCs, UpdatePCs

\* So do those of POST /lobbies/join, ...
LEMMA JoinSteps ==
    /\ SameHandler("join_lookup", "join_count")
    /\ SameHandler("join_count", "join_member")
    /\ SameHandler("join_member", "join_user")
    /\ SameHandler("join_user", "join_player")
    /\ SameHandler("join_player", "join_commit")
    /\ SameHandler("join_commit", "join_detail")
BY DEF SameHandler, PCs, CreatePCs, JoinPCs, KickPCs, GetPCs, UpdatePCs

\* ... of POST /lobbies/{lobby_id}/kick, ...
LEMMA KickSteps ==
    /\ SameHandler("kick_authorize", "kick_leader")
    /\ SameHandler("kick_leader", "kick_member")
    /\ SameHandler("kick_member", "kick_scan")
    /\ SameHandler("kick_scan", "kick_delete")
    /\ SameHandler("kick_delete", "kick_commit")
BY DEF SameHandler, PCs, CreatePCs, JoinPCs, KickPCs, GetPCs, UpdatePCs

\* ... of GET /lobbies/{lobby_id} ...
LEMMA GetSteps ==
    /\ SameHandler("get_authorize", "get_detail")
    /\ SameHandler("get_authorize", "get_member")
    /\ SameHandler("get_member", "get_detail")
BY DEF SameHandler, PCs, CreatePCs, JoinPCs, KickPCs, GetPCs, UpdatePCs

\* ... and of PUT .../active.
LEMMA UpdateSteps ==
    /\ SameHandler("update_lobby", "update_member")
    /\ SameHandler("update_member", "update_scan")
    /\ SameHandler("update_scan", "update_write")
    /\ SameHandler("update_write", "update_commit")
BY DEF SameHandler, PCs, CreatePCs, JoinPCs, KickPCs, GetPCs, UpdatePCs

\* Every statement of a create request preserves TypeInv.
LEMMA CreateType ==
    ASSUME TypeInv, NEW p \in Workers, Create(p)
    PROVE  TypeInv'
<1>0. RepositoryTypeOK /\ loc \in [Workers -> Locals]
    BY DEF TypeInv, TypeOK
<1>u. pc[p] \in CreatePCs => req[p].user \in Users
    BY DEF TypeInv, Dispatched, CreateRequest
<1>1. CASE CreateUser(p)
    <2>1. pc[p] = "create_user" /\ req[p].user \in Users
        BY <1>1, <1>u DEF CreateUser, Advance, CreatePCs
    <2>2. RepositoryTypeOK'
        BY <1>0, <1>1, <2>1, CreateUserType DEF CreateUser
    <2>3. loc[p] \in Locals /\ loc' = [loc EXCEPT ![p] = loc[p]]
        BY <1>0, <1>1 DEF CreateUser
    <2>5. Ready("create_code", loc[p])
        BY DEF Ready, JoinPCs
    <2> QED
        BY <1>1, <2>2, <2>3, <2>5, CreateSteps, AdvanceType DEF CreateUser
<1>2. CASE DrawFreeCode(p)
    <2>1. RepositoryTypeOK'
        BY <1>0, <1>2 DEF DrawFreeCode, RepositoryTypeOK, tables
    <2>2. PICK code \in JoinCodes : loc' = [loc EXCEPT ![p].code = code]
        BY <1>2 DEF DrawFreeCode
    <2>3. /\ [loc[p] EXCEPT !.code = code] \in Locals
          /\ [loc[p] EXCEPT !.code = code].code \in JoinCodes
          /\ loc' = [loc EXCEPT ![p] = [loc[p] EXCEPT !.code = code]]
        BY <1>0, <2>2 DEF Locals
    <2>5. Ready("create_lobby", [loc[p] EXCEPT !.code = code])
        BY <2>3 DEF Ready, JoinPCs
    <2> QED
        BY <1>2, <2>1, <2>3, <2>5, CreateSteps, AdvanceType DEF DrawFreeCode
<1>3. CASE DrawTakenCode(p)
    <2>1. CASE ~MoreAttempts(loc[p].attempt)
        BY <1>3, <2>1, RefuseType DEF DrawTakenCode
    <2>2. CASE MoreAttempts(loc[p].attempt)
        <3>1. /\ loc' = [loc EXCEPT ![p].attempt = NextAttempt(@)]
              /\ UNCHANGED <<tables, tx, pc, req, resp>>
            BY <1>3, <2>2 DEF DrawTakenCode
        <3>2. loc' \in [Workers -> Locals]
            BY <1>0, <2>2, <3>1, MaxRetriesAssumption
            DEF MoreAttempts, NextAttempt, Locals
        <3>3. TypeOK'
            BY <3>1, <3>2 DEF TypeInv, TypeOK, RepositoryTypeOK, tables
        <3>4. Dispatched'
            BY <3>1 DEF TypeInv, Dispatched
        <3>5. \A q \in Workers : loc'[q].code = loc[q].code /\ loc'[q].lobby = loc[q].lobby
            BY <1>0, <3>1 DEF Locals
        <3>6. Assigned'
            BY <3>1, <3>5 DEF TypeInv, Assigned
        <3> QED
            BY <3>3, <3>4, <3>6 DEF TypeInv
    <2> QED
        BY <2>1, <2>2
<1>4. CASE CreateLobby(p)
    <2>1. CASE ViolatesUniqueJoinCode(loc[p].code)
        BY <1>4, <2>1, RefuseType DEF CreateLobby
    <2>2. CASE ~ViolatesUniqueJoinCode(loc[p].code)
        <3>1. /\ Advance(p, "create_lobby", "create_player")
              /\ UNCHANGED tables
            BY <1>4, <2>2 DEF CreateLobby
        <3>2. PICK l \in FreshLobbyIDs :
                 /\ CreateLobbyTx(p, l, loc[p].code, req[p].user)
                 /\ loc' = [loc EXCEPT ![p].lobby = l]
            BY <1>4, <2>2 DEF CreateLobby
        <3>3. l \in LobbyIDs /\ loc[p].code \in JoinCodes /\ req[p].user \in Users
            BY <1>u, <3>1 DEF TypeInv, Assigned, Advance, FreshLobbyIDs, CreatePCs
        <3>4. RepositoryTypeOK'
            BY <1>0, <3>1, <3>2, <3>3, CreateLobbyType
        <3>5. /\ [loc[p] EXCEPT !.lobby = l] \in Locals
              /\ [loc[p] EXCEPT !.lobby = l].code \in JoinCodes
              /\ [loc[p] EXCEPT !.lobby = l].lobby \in LobbyIDs
              /\ loc' = [loc EXCEPT ![p] = [loc[p] EXCEPT !.lobby = l]]
            BY <1>0, <3>2, <3>3 DEF Locals
        <3>7. Ready("create_player", [loc[p] EXCEPT !.lobby = l])
            BY <3>5 DEF Ready
        <3> QED
            BY <3>1, <3>4, <3>5, <3>7, CreateSteps, AdvanceType
    <2> QED
        BY <2>1, <2>2
<1>5. CASE CreatePlayer(p)
    <2>1. /\ pc[p] = "create_player"
          /\ req[p].user \in Users
          /\ loc[p].lobby \in LobbyIDs
          /\ loc[p].code \in JoinCodes
        BY <1>5, <1>u DEF CreatePlayer, Advance, CreatePCs, TypeInv, Assigned
    <2>2. RepositoryTypeOK'
        BY <1>0, <1>5, <2>1, AddPlayerType DEF CreatePlayer, FreshPlayerIDs
    <2>3. loc[p] \in Locals /\ loc' = [loc EXCEPT ![p] = loc[p]]
        BY <1>0, <1>5 DEF CreatePlayer
    <2>5. Ready("create_commit", loc[p])
        BY <2>1 DEF Ready
    <2> QED
        BY <1>5, <2>2, <2>3, <2>5, CreateSteps, AdvanceType DEF CreatePlayer
<1>6. CASE CreateCommit(p)
    <2>1. /\ pc[p] = "create_commit"
          /\ req[p].user \in Users
          /\ loc[p].lobby \in LobbyIDs
          /\ loc[p].code \in JoinCodes
        BY <1>6, <1>u DEF CreateCommit, CreatePCs, TypeInv, Assigned
    <2>2. CreateResponse(p) \in Bodies
        BY <1>0, <2>1 DEF CreateResponse, Bodies, RepositoryTypeOK, Writes
    <2> QED
        BY <1>0, <1>6, <2>2, CommitType, ReplyType DEF CreateCommit
<1> QED
    BY <1>1, <1>2, <1>3, <1>4, <1>5, <1>6 DEF Create

\* Only the create and join handlers need locals other than rows.
LEMMA ReadyKickGetUpdate ==
    ASSUME NEW there \in KickPCs \cup GetPCs \cup UpdatePCs, NEW l
    PROVE  Ready(there, l)
BY DEF Ready, KickPCs, GetPCs, UpdatePCs, JoinPCs

\* Every statement of a join preserves TypeInv.
LEMMA JoinType ==
    ASSUME TypeInv, NEW p \in Workers, Join(p)
    PROVE  TypeInv'
<1>0. RepositoryTypeOK /\ loc \in [Workers -> Locals]
    BY DEF TypeInv, TypeOK
<1>u. pc[p] \in JoinPCs => req[p].user \in Users
    BY DEF TypeInv, Dispatched, JoinRequest
<1>l. pc[p] \in JoinPCs \ {"join_lookup"} => loc[p].lobby \in LobbyIDs
    BY DEF TypeInv, Assigned
<1>s. /\ loc[p] \in Locals
      /\ UNCHANGED loc => loc' = [loc EXCEPT ![p] = loc[p]]
    BY <1>0
<1>r. ASSUME loc[p].lobby \in LobbyIDs, NEW there \in JoinPCs
      PROVE  Ready(there, loc[p])
    BY <1>r DEF Ready, JoinPCs
<1>1. CASE JoinLookup(p)
    <2>1. CASE \E status \in {404, 409} : Refuse(p, status)
        BY <2>1, RefuseType
    <2>2. CASE ~\E status \in {404, 409} : Refuse(p, status)
        <3>1. /\ Advance(p, "join_lookup", "join_count")
              /\ UNCHANGED <<tables, tx>>
            BY <1>1, <2>2 DEF JoinLookup
        <3>2. PICK row \in lobbies : loc' = [loc EXCEPT ![p].lobby = row.id]
            BY <1>1, <2>2 DEF JoinLookup, LobbiesWithCode
        <3>3. /\ [loc[p] EXCEPT !.lobby = row.id] \in Locals
              /\ [loc[p] EXCEPT !.lobby = row.id].lobby \in LobbyIDs
              /\ loc' = [loc EXCEPT ![p] = [loc[p] EXCEPT !.lobby = row.id]]
            BY <1>0, <3>2 DEF Locals, RepositoryTypeOK, LobbyRow
        <3>4. Ready("join_count", [loc[p] EXCEPT !.lobby = row.id])
            BY <3>3 DEF Ready
        <3>5. RepositoryTypeOK'
            BY <1>0, <3>1 DEF RepositoryTypeOK, tables
        <3> QED
            BY <3>1, <3>3, <3>4, <3>5, JoinSteps, AdvanceType
    <2> QED
        BY <2>1, <2>2
<1>2. CASE JoinCount(p)
    <2>1. Ready("join_member", loc[p])
        BY <1>2, <1>l, <1>r DEF JoinCount, Advance, JoinPCs
    <2> QED
        BY <1>2, <2>1, JoinSteps, ReadType, RefuseType DEF JoinCount
<1>3. CASE JoinMember(p)
    <2>1. Ready("join_user", loc[p])
        BY <1>3, <1>l, <1>r DEF JoinMember, Advance, JoinPCs
    <2> QED
        BY <1>3, <2>1, JoinSteps, ReadType, RefuseType DEF JoinMember
<1>4. CASE JoinUser(p)
    <2>1. req[p].user \in Users /\ Ready("join_player", loc[p])
        BY <1>4, <1>u, <1>l, <1>r DEF JoinUser, Advance, JoinPCs
    <2>2. RepositoryTypeOK'
        BY <1>0, <1>4, <2>1, CreateUserType DEF JoinUser
    <2> QED
        BY <1>4, <1>s, <2>1, <2>2, JoinSteps, AdvanceType DEF JoinUser
<1>5. CASE JoinPlayer(p)
    <2>1. /\ req[p].user \in Users
          /\ loc[p].lobby \in LobbyIDs
          /\ Ready("join_commit", loc[p])
        BY <1>5, <1>u, <1>l, <1>r DEF JoinPlayer, Advance, JoinPCs
    <2>2. RepositoryTypeOK'
        BY <1>0, <1>5, <2>1, AddPlayerType DEF JoinPlayer, FreshPlayerIDs
    <2> QED
        BY <1>5, <1>s, <2>1, <2>2, JoinSteps, AdvanceType DEF JoinPlayer
<1>6. CASE JoinCommit(p)
    <2>1. Ready("join_detail", loc[p])
        BY <1>6, <1>l, <1>r DEF JoinCommit, Advance, JoinPCs
    <2>2. RepositoryTypeOK'
        BY <1>0, <1>6, CommitType DEF JoinCommit
    <2> QED
        BY <1>6, <1>s, <2>1, <2>2, JoinSteps, AdvanceType DEF JoinCommit
<1>7. CASE JoinDetail(p)
    <2>1. RepositoryTypeOK'
        BY <1>0, <1>7 DEF JoinDetail, RepositoryTypeOK, tables
    <2> QED
        BY <1>0, <1>7, <2>1, DetailType, ReplyType DEF JoinDetail
<1> QED
    BY <1>1, <1>2, <1>3, <1>4, <1>5, <1>6, <1>7 DEF Join

\* Every statement of a kick preserves TypeInv.
LEMMA KickType ==
    ASSUME TypeInv, NEW p \in Workers, Kick(p)
    PROVE  TypeInv'
<1>0. RepositoryTypeOK /\ loc \in [Workers -> Locals]
    BY DEF TypeInv, TypeOK
<1>s. /\ loc[p] \in Locals
      /\ UNCHANGED loc => loc' = [loc EXCEPT ![p] = loc[p]]
    BY <1>0
<1>r. ASSUME NEW l
      PROVE  /\ Ready("kick_leader", l) /\ Ready("kick_member", l)
             /\ Ready("kick_scan", l) /\ Ready("kick_delete", l)
             /\ Ready("kick_commit", l)
    BY ReadyKickGetUpdate DEF KickPCs
<1>1. CASE KickAuthorize(p)
    BY <1>1, <1>r, KickSteps, ReadType, RefuseType DEF KickAuthorize
<1>2. CASE KickLeader(p)
    BY <1>2, <1>r, KickSteps, ReadType, RefuseType DEF KickLeader
<1>3. CASE KickMember(p)
    BY <1>3, <1>r, KickSteps, ReadType, RefuseType DEF KickMember
<1>4. CASE KickScan(p)
    <2>1. MatchUser(req[p].lobby_id, req[p].target) \in SUBSET PlayerIDs
        BY <1>0 DEF RepositoryTypeOK, MatchUser, PlayersOf, PlayerRow
    <2>2. PICK new \in Locals : loc' = [loc EXCEPT ![p] = new]
        BY <1>4, <1>s, <2>1 DEF KickScan, Locals
    <2>3. RepositoryTypeOK'
        BY <1>0, <1>4 DEF KickScan, RepositoryTypeOK, tables
    <2> QED
        BY <1>4, <1>r, <2>2, <2>3, KickSteps, AdvanceType DEF KickScan
<1>5. CASE KickDelete(p)
    <2>1. RepositoryTypeOK'
        BY <1>0, <1>5, DeletePlayerType DEF KickDelete
    <2> QED
        BY <1>5, <1>s, <1>r, <2>1, KickSteps, AdvanceType DEF KickDelete
<1>6. CASE KickCommit(p)
    BY <1>0, <1>6, CommitType, ReplyType DEF KickCommit
<1> QED
    BY <1>1, <1>2, <1>3, <1>4, <1>5, <1>6 DEF Kick

\* Every statement of a get preserves TypeInv.
LEMMA GetType ==
    ASSUME TypeInv, NEW p \in Workers, Get(p)
    PROVE  TypeInv'
<1>0. RepositoryTypeOK
    BY DEF TypeInv, TypeOK
<1>r. ASSUME NEW l PROVE Ready("get_member", l) /\ Ready("get_detail", l)
    BY ReadyKickGetUpdate DEF GetPCs
<1>1. CASE GetAuthorize(p)
    BY <1>1, <1>r, GetSteps, ReadType, RefuseType DEF GetAuthorize
<1>2. CASE GetMember(p)
    BY <1>2, <1>r, GetSteps, ReadType, RefuseType DEF GetMember
<1>3. CASE GetDetail(p)
    <2>1. RepositoryTypeOK'
        BY <1>0, <1>3 DEF GetDetail, RepositoryTypeOK, tables
    <2> QED
        BY <1>0, <1>3, <2>1, DetailType, ReplyType DEF GetDetail
<1> QED
    BY <1>1, <1>2, <1>3 DEF Get

\* Every statement of an update preserves TypeInv.
LEMMA UpdateType ==
    ASSUME TypeInv, NEW p \in Workers, Update(p)
    PROVE  TypeInv'
<1>0. RepositoryTypeOK /\ loc \in [Workers -> Locals]
    BY DEF TypeInv, TypeOK
<1>s. /\ loc[p] \in Locals
      /\ UNCHANGED loc => loc' = [loc EXCEPT ![p] = loc[p]]
    BY <1>0
<1>r. ASSUME NEW l
      PROVE  /\ Ready("update_member", l) /\ Ready("update_scan", l)
             /\ Ready("update_write", l) /\ Ready("update_commit", l)
    BY ReadyKickGetUpdate DEF UpdatePCs
<1>1. CASE UpdateLobby(p)
    BY <1>1, <1>r, UpdateSteps, ReadType, RefuseType DEF UpdateLobby
<1>2. CASE UpdateMember(p)
    BY <1>2, <1>r, UpdateSteps, ReadType, RefuseType DEF UpdateMember
<1>3. CASE UpdateScan(p)
    <2>1. MatchID(req[p].lobby_id, req[p].player_id) \in SUBSET PlayerIDs
        BY <1>0 DEF RepositoryTypeOK, MatchID, PlayersOf, PlayerRow
    <2>2. PICK new \in Locals : loc' = [loc EXCEPT ![p] = new]
        BY <1>3, <1>s, <2>1 DEF UpdateScan, Locals
    <2>3. RepositoryTypeOK'
        BY <1>0, <1>3 DEF UpdateScan, RepositoryTypeOK, tables
    <2> QED
        BY <1>3, <1>r, <2>2, <2>3, UpdateSteps, AdvanceType DEF UpdateScan
<1>4. CASE UpdateWrite(p)
    <2>1. CASE Refuse(p, 404)
        BY <2>1, RefuseType
    <2>2. CASE ~Refuse(p, 404)
        <3>1. /\ Advance(p, "update_write", "update_commit")
              /\ UpdatePlayerActiveStatusTx(p, loc[p].rows, req[p].is_active)
              /\ UNCHANGED <<tables, loc>>
            BY <1>4, <2>2 DEF UpdateWrite
        <3>2. req[p].is_active \in BOOLEAN
            BY <3>1 DEF Advance, TypeInv, Dispatched, UpdatePCs, UpdateRequest
        <3>3. RepositoryTypeOK'
            BY <1>0, <3>1, <3>2, UpdatePlayerType
        <3> QED
            BY <1>s, <1>r, <3>1, <3>3, UpdateSteps, AdvanceType
    <2> QED
        BY <2>1, <2>2
<1>5. CASE UpdateCommit(p)
    BY <1>0, <1>5, CommitType, ReplyType DEF UpdateCommit
<1> QED
    BY <1>1, <1>2, <1>3, <1>4, <1>5 DEF Update

\* A new request enters its own handler with no locals to rely on.
LEMMA ReceiveType ==
    ASSUME TypeInv, NEW p \in Workers, Receive(p)
    PROVE  TypeInv'
<1>0. UNCHANGED <<tables, tx, loc, resp>>
    BY DEF Receive
<1>1. PICK r \in ValidRequests :
         /\ req' = [req EXCEPT ![p] = r]
         /\ pc' = [pc EXCEPT ![p] = Entry(r.op)]
    BY DEF Receive
<1>2. /\ Entry(r.op) \in PCs
      /\ Entry(r.op) \in CreatePCs => r \in CreateRequest
      /\ Entry(r.op) \in JoinPCs => r \in JoinRequest
      /\ Entry(r.op) \in KickPCs => r \in KickRequest
      /\ Entry(r.op) \in GetPCs => r \in GetRequest
      /\ Entry(r.op) \in UpdatePCs => r \in UpdateRequest
      /\ Entry(r.op) \in {"create_user", "join_lookup"} \cup KickPCs \cup GetPCs \cup UpdatePCs
    <2>1. CASE r \in CreateRequest
        <3>1. Entry(r.op) = "create_user" BY <2>1 DEF CreateRequest, Entry
        <3> QED
            BY <2>1, <3>1 DEF PCs, CreatePCs, JoinPCs, KickPCs, GetPCs, UpdatePCs
    <2>2. CASE r \in JoinRequest
        <3>1. Entry(r.op) = "join_lookup" BY <2>2 DEF JoinRequest, Entry
        <3> QED
            BY <2>2, <3>1 DEF PCs, CreatePCs, JoinPCs, KickPCs, GetPCs, UpdatePCs
    <2>3. CASE r \in KickRequest
        <3>1. Entry(r.op) = "kick_authorize" BY <2>3 DEF KickRequest, Entry
        <3> QED
            BY <2>3, <3>1 DEF PCs, CreatePCs, JoinPCs, KickPCs, GetPCs, UpdatePCs
    <2>4. CASE r \in GetRequest
        <3>1. Entry(r.op) = "get_authorize" BY <2>4 DEF GetRequest, Entry
        <3> QED
            BY <2>4, <3>1 DEF PCs, CreatePCs, JoinPCs, KickPCs, GetPCs, UpdatePCs
    <2>5. CASE r \in UpdateRequest
        <3>1. Entry(r.op) = "update_lobby" BY <2>5 DEF UpdateRequest, Entry
        <3> QED
            BY <2>5, <3>1 DEF PCs, CreatePCs, JoinPCs, KickPCs, GetPCs, UpdatePCs
    <2> QED
        BY <2>1, <2>2, <2>3, <2>4, <2>5 DEF ValidRequests
<1>3. TypeOK'
    BY <1>0, <1>1, <1>2 DEF TypeInv, TypeOK, RepositoryTypeOK, tables, Requests
<1>4. Dispatched'
    BY <1>1, <1>2 DEF TypeInv, TypeOK, Dispatched
<1>5. Assigned'
    BY <1>0, <1>1, <1>2
    DEF TypeInv, TypeOK, Assigned, JoinPCs, KickPCs, GetPCs, UpdatePCs
<1> QED
    BY <1>3, <1>4, <1>5 DEF TypeInv

\* A refused malformed request and the end of a request.
LEMMA EndpointType ==
    ASSUME TypeInv, NEW p \in Workers, ReceiveMalformed(p) \/ Deliver(p)
    PROVE  TypeInv'
<1>1. CASE ReceiveMalformed(p)
    <2>1. /\ UNCHANGED <<tables, tx, loc>>
          /\ pc' = [pc EXCEPT ![p] = "answered"]
          /\ req' = [req EXCEPT ![p] = MalformedRequest]
          /\ resp' = [resp EXCEPT ![p] = [status |-> 400, body |-> None]]
        BY <1>1 DEF ReceiveMalformed
    <2>2. MalformedRequest \in Requests
        BY DEF Requests
    <2>3. [status |-> 400, body |-> None] \in Responses
        BY DEF Responses
    <2>4. TypeOK'
        BY <2>1, <2>2, <2>3
        DEF TypeInv, TypeOK, RepositoryTypeOK, tables, PCs
    <2>5. Dispatched'
        BY <2>1
        DEF TypeInv, TypeOK, Dispatched, CreatePCs, JoinPCs, KickPCs, GetPCs, UpdatePCs
    <2>6. Assigned'
        BY <2>1 DEF TypeInv, TypeOK, Assigned, JoinPCs
    <2> QED
        BY <2>4, <2>5, <2>6 DEF TypeInv
<1>2. CASE Deliver(p)
    <2>1. TypeOK'
        BY <1>2
        DEF Deliver, TypeInv, TypeOK, RepositoryTypeOK, tables, PCs, Responses, NoResponse
    <2>2. Dispatched'
        BY <1>2
        DEF Deliver, TypeInv, TypeOK, Dispatched, CreatePCs, JoinPCs, KickPCs, GetPCs, UpdatePCs
    <2>3. Assigned'
        BY <1>2 DEF Deliver, TypeInv, TypeOK, Assigned, JoinPCs
    <2> QED
        BY <2>1, <2>2, <2>3 DEF TypeInv
<1> QED
    BY <1>1, <1>2

\* A failing statement or an unacknowledged commit preserves TypeInv.
LEMMA FaultType ==
    ASSUME TypeInv, NEW p \in Workers, DBFailure(p) \/ CommitUnacknowledged(p)
    PROVE  TypeInv'
<1>1. CASE DBFailure(p)
    BY <1>1, RefuseType DEF DBFailure
<1>2. CASE CommitUnacknowledged(p)
    BY <1>2, CommitType, ReplyType DEF CommitUnacknowledged, TypeInv, TypeOK
<1> QED
    BY <1>1, <1>2

\* A crash preserves TypeInv.
LEMMA CrashType ==
    ASSUME TypeInv, Crash
    PROVE  TypeInv'
<1>1. NoLocals \in Locals
    BY MaxRetriesAssumption DEF NoLocals, Locals
<1>2. TypeOK'
    BY <1>1, NoWritesType
    DEF Crash, TypeInv, TypeOK, RepositoryTypeOK, tables, PCs, Responses, NoResponse
<1>3. Dispatched' /\ Assigned'
    BY DEF Crash, Dispatched, Assigned, CreatePCs, JoinPCs, KickPCs, GetPCs, UpdatePCs
<1> QED
    BY <1>2, <1>3 DEF TypeInv

\* TypeInv holds at the start.
LEMMA InitType == Init => TypeInv
<1> SUFFICES ASSUME Init PROVE TypeInv
    OBVIOUS
<1>1. NoLocals \in Locals
    BY MaxRetriesAssumption DEF NoLocals, Locals
<1>2. TypeOK
    BY <1>1, NoWritesType
    DEF Init, RepositoryInit, TypeOK, RepositoryTypeOK, PCs, Responses, NoResponse
<1>3. Dispatched /\ Assigned
    BY DEF Init, Dispatched, Assigned, CreatePCs, JoinPCs, KickPCs, GetPCs, UpdatePCs
<1> QED
    BY <1>2, <1>3 DEF TypeInv

\* Every step preserves TypeInv.
LEMMA NextType == TypeInv /\ [Next]_vars => TypeInv'
<1> SUFFICES ASSUME TypeInv, [Next]_vars PROVE TypeInv'
    OBVIOUS
<1>1. CASE UNCHANGED vars
    BY <1>1
    DEF vars, tables, TypeInv, TypeOK, RepositoryTypeOK, Dispatched, Assigned
<1>2. ASSUME NEW p \in Workers, Handle(p) PROVE TypeInv'
    BY <1>2, CreateType, JoinType, KickType, GetType, UpdateType DEF Handle
<1>3. CASE Crash
    BY <1>3, CrashType
<1> QED
    BY <1>1, <1>2, <1>3, ReceiveType, EndpointType, FaultType DEF Next

\* Every variable keeps its type, and each handler has the request and the
\* locals it works with, in every behaviour of the service.
THEOREM TypeCorrect == Spec => []TypeInv
BY InitType, NextType, PTL DEF Spec

\* The type invariant that TLC checks.
COROLLARY TypesHold == Spec => []TypeOK
BY TypeCorrect, PTL DEF TypeInv

=============================================================================
