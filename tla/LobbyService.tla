---------------------------- MODULE LobbyService ----------------------------
(***************************************************************************)
(* The HTTP handlers of LobbyService (internal/router.go,                  *)
(* internal/handlers/*.go, internal/joincode/generator.go), served by      *)
(* concurrent goroutines over the store of module Repository.              *)
(*                                                                         *)
(* A worker p serves one request at a time.  pc[p] names the next database *)
(* statement of its handler; a step is that statement, together with the   *)
(* code between it and the next one (validation, early returns, the        *)
(* deferred Rollback, the answer).  Between two steps any other worker may *)
(* run, the database may fail or the process may crash.                    *)
(***************************************************************************)
EXTENDS Repository

CONSTANTS
    Spellings,   \* six-character strings a client may send as join_code
    MaxRetries,  \* joincode.MaxRetries, 5 in the code
    Ops,         \* the endpoints the clients of this instance call
    None

ASSUME MaxRetriesAssumption == MaxRetries \in Nat \ {0}
ASSUME SpellingsAssumption == JoinCodes \subseteq Spellings
ASSUME OpsAssumption ==
    Ops \subseteq {"create", "join", "kick", "get", "update", "malformed"}

VARIABLES
    pc,          \* pc[p]: the statement worker p executes next
    req,         \* req[p]: the request p serves, None when idle
    loc,         \* loc[p]: local variables of p's handler
    resp         \* resp[p]: the response p has written

vars == <<users, lobbies, players, tx, pc, req, loc, resp>>

CreateRequest == [op : {"create"}, user : Users]
JoinRequest == [op : {"join"}, user : Users, join_code : Spellings]
KickRequest == [op : {"kick"}, user : Users, lobby_id : LobbyIDs, target : Users]
GetRequest == [op : {"get"}, user : Users, lobby_id : LobbyIDs]

\* PUT /internal/lobbies/{lobby_id}/players/{player_id}/active carries no
\* user: the route is not behind AuthMiddleware.  player_id is any UUID.
UpdateRequest == [op : {"update"}, lobby_id : LobbyIDs,
                  player_id : PlayerIDs \cup Users, is_active : BOOLEAN]

MalformedRequest == [op |-> "malformed"]

ValidRequests == CreateRequest \cup JoinRequest \cup KickRequest
                   \cup GetRequest \cup UpdateRequest

Requests == ValidRequests \cup {MalformedRequest}

\* lobby: lobbyID, or lobby.ID of the row found; code: joinCode; attempt: the
\* loop counter of GenerateJoinCode; rows: the ids a DELETE or UPDATE matched.
Locals == [lobby : LobbyIDs \cup {None}, code : JoinCodes \cup {None},
           attempt : 1..MaxRetries, rows : SUBSET PlayerIDs]

NoLocals == [lobby |-> None, code |-> None, attempt |-> 1, rows |-> {}]

\* CreateLobbyResponse and LobbyDetailResponse
Bodies == [lobby_id : LobbyIDs, join_code : JoinCodes, leader_id : Users,
           players : SUBSET PlayerRow]

Responses == [status : {0, 200, 201, 204, 400, 403, 404, 409, 500},
              body : Bodies \cup {None}]

NoResponse == [status |-> 0, body |-> None]

Init ==
    /\ RepositoryInit
    /\ pc = [p \in Workers |-> "idle"]
    /\ req = [p \in Workers |-> None]
    /\ loc = [p \in Workers |-> NoLocals]
    /\ resp = [p \in Workers |-> NoResponse]

PCs == {"idle", "answered",
        "create_user", "create_code", "create_lobby", "create_player",
        "create_commit",
        "join_lookup", "join_count", "join_member", "join_user", "join_player",
        "join_commit", "join_detail",
        "kick_authorize", "kick_leader", "kick_member", "kick_scan",
        "kick_delete", "kick_commit",
        "get_authorize", "get_member", "get_detail",
        "update_lobby", "update_member", "update_scan", "update_write",
        "update_commit"}

TypeOK ==
    /\ RepositoryTypeOK
    /\ pc \in [Workers -> PCs]
    /\ req \in [Workers -> Requests \cup {None}]
    /\ loc \in [Workers -> Locals]
    /\ resp \in [Workers -> Responses]

-----------------------------------------------------------------------------
(* What the steps of all handlers have in common.                          *)

\* The statement at `here' succeeds and the handler goes on to `there'.
Advance(p, here, there) ==
    /\ pc[p] = here
    /\ pc' = [pc EXCEPT ![p] = there]
    /\ UNCHANGED <<req, resp>>

\* The handler writes its answer and returns.
Reply(p, status, body) ==
    /\ pc' = [pc EXCEPT ![p] = "answered"]
    /\ resp' = [resp EXCEPT ![p] = [status |-> status, body |-> body]]
    /\ loc' = [loc EXCEPT ![p] = NoLocals]
    /\ UNCHANGED req

\* httpx.Write*Error followed by return: the deferred Rollback runs.
Refuse(p, status) == Reply(p, status, None) /\ RollbackTx(p)

Leader(p) == Leads(req[p].user, req[p].lobby_id)

\* Every player row that is committed, pending or about to be replaced.
KnownRows == players \cup UNION {tx[q].added \cup tx[q].removed : q \in Workers}

UsedPlayerIDs == {row.id : row \in KnownRows} \cup UNION {loc[q].rows : q \in Workers}

\* gen_random_uuid() never repeats an id that is still known to anyone.
FreshPlayerIDs == PlayerIDs \ UsedPlayerIDs

\* Bounds on the exploration: the requests under way must leave an id each.
InFlight(ops) == {p \in Workers : req[p] # None /\ req[p].op \in ops}

WithinBounds(op) ==
    /\ op = "create" =>
         Cardinality(lobbies) + Cardinality(InFlight({"create"})) < Cardinality(LobbyIDs)
    /\ op \in {"create", "join"} =>
         Cardinality(UsedPlayerIDs) + Cardinality(InFlight({"create", "join"}))
           < Cardinality(PlayerIDs)

\* The router dispatches a request that passes AuthMiddleware and validation.
Entry(op) ==
    CASE op = "create" -> "create_user"
      [] op = "join"   -> "join_lookup"
      [] op = "kick"   -> "kick_authorize"
      [] op = "get"    -> "get_authorize"
      [] op = "update" -> "update_lobby"

Receive(p) ==
    /\ pc[p] = "idle"
    /\ \E r \in ValidRequests :
         /\ r.op \in Ops
         /\ WithinBounds(r.op)
         /\ req' = [req EXCEPT ![p] = r]
         /\ pc' = [pc EXCEPT ![p] = Entry(r.op)]
    /\ UNCHANGED <<tables, tx, loc, resp>>

\* AuthMiddleware and the validation of headers, path and body answer 400,
\* all before BeginTx: nothing but the answer comes of such a request.
ReceiveMalformed(p) ==
    /\ pc[p] = "idle"
    /\ "malformed" \in Ops
    /\ req' = [req EXCEPT ![p] = MalformedRequest]
    /\ pc' = [pc EXCEPT ![p] = "answered"]
    /\ resp' = [resp EXCEPT ![p] = [status |-> 400, body |-> None]]
    /\ UNCHANGED <<tables, tx, loc>>

\* The client reads the answer; the goroutine ends.
Deliver(p) ==
    /\ pc[p] = "answered"
    /\ pc' = [pc EXCEPT ![p] = "idle"]
    /\ req' = [req EXCEPT ![p] = None]
    /\ resp' = [resp EXCEPT ![p] = NoResponse]
    /\ UNCHANGED <<tables, tx, loc>>

-----------------------------------------------------------------------------
(* POST /lobbies: CreateLobbyHandler                                       *)

CreateUser(p) ==
    /\ Advance(p, "create_user", "create_code")
    /\ CreateUserIfNotExistsTx(p, req[p].user)
    /\ UNCHANGED <<tables, loc>>

\* GenerateJoinCode: one round of its loop.  codeExists reads through g.db,
\* outside the handler's transaction.
\* Mutant: one round too many.
OneMoreAttempt(n) == n <= MaxRetries

MoreAttempts(n) == n < MaxRetries

\* Mutant: the loop counter is not advanced.
SameAttempt(n) == n

NextAttempt(n) == n + 1

DrawFreeCode(p) ==
    /\ Advance(p, "create_code", "create_lobby")
    /\ \E code \in JoinCodes :
         /\ LobbiesWithCode(code) = {}
         /\ loc' = [loc EXCEPT ![p].code = code]
    /\ UNCHANGED <<tables, tx>>

DrawTakenCode(p) ==
    /\ pc[p] = "create_code"
    /\ \E code \in JoinCodes : LobbiesWithCode(code) # {}
    /\ IF MoreAttempts(loc[p].attempt)
         THEN /\ loc' = [loc EXCEPT ![p].attempt = NextAttempt(@)]
              /\ UNCHANGED <<tables, tx, pc, req, resp>>
         ELSE Refuse(p, 500)

CreateLobby(p) ==
    /\ pc[p] = "create_lobby"
    /\ \A q \in Others(p) : ~CodeInsertBlockedBy(loc[p].code, q)
    /\ IF ViolatesUniqueJoinCode(loc[p].code)
         THEN Refuse(p, 500)
         ELSE /\ Advance(p, "create_lobby", "create_player")
              /\ \E l \in FreshLobbyIDs :
                   /\ CreateLobbyTx(p, l, loc[p].code, req[p].user)
                   /\ loc' = [loc EXCEPT ![p].lobby = l]
              /\ UNCHANGED tables

CreatePlayer(p) ==
    /\ Advance(p, "create_player", "create_commit")
    /\ \E id \in FreshPlayerIDs : AddPlayerTx(p, id, loc[p].lobby, req[p].user)
    /\ UNCHANGED <<tables, loc>>

\* The response is built from local variables, not from the database.
CreateResponse(p) ==
    [lobby_id |-> loc[p].lobby, join_code |-> loc[p].code,
     leader_id |-> req[p].user, players |-> tx[p].added]

\* Mutant: 201 is answered and the deferred Rollback undoes the writes.
CreateWithoutCommit(p) ==
    /\ pc[p] = "create_commit"
    /\ RollbackTx(p)
    /\ Reply(p, 201, CreateResponse(p))

CreateCommit(p) ==
    /\ pc[p] = "create_commit"
    /\ CommitTx(p)
    /\ Reply(p, 201, CreateResponse(p))

-----------------------------------------------------------------------------
(* POST /lobbies/join: JoinLobbyHandler                                    *)

JoinLookup(p) ==
    \/ /\ Advance(p, "join_lookup", "join_count")
       /\ \E row \in LobbiesWithCode(req[p].join_code) :
            /\ row.status = "waiting"
            /\ loc' = [loc EXCEPT ![p].lobby = row.id]
       /\ UNCHANGED <<tables, tx>>
    \/ /\ pc[p] = "join_lookup"
       /\ \A row \in LobbiesWithCode(req[p].join_code) : row.status # "waiting"
       /\ Refuse(p, IF LobbiesWithCode(req[p].join_code) = {} THEN 404 ELSE 409)

\* Mutant: the comparison admits one player more than maxPlayers.
FullBeyondMax(l) == GetLobbyPlayerCountTx(l) > MaxPlayers

LobbyFull(l) == GetLobbyPlayerCountTx(l) >= MaxPlayers

JoinCount(p) ==
    \/ /\ Advance(p, "join_count", "join_member")
       /\ ~LobbyFull(loc[p].lobby)
       /\ UNCHANGED <<tables, tx, loc>>
    \/ /\ pc[p] = "join_count"
       /\ LobbyFull(loc[p].lobby)
       /\ Refuse(p, 409)

\* Mutant: the membership check is dropped.
NeverAlreadyInLobby(p) == FALSE

AlreadyInLobby(p) == IsMember(loc[p].lobby, req[p].user)

JoinMember(p) ==
    \/ /\ Advance(p, "join_member", "join_user")
       /\ ~AlreadyInLobby(p)
       /\ UNCHANGED <<tables, tx, loc>>
    \/ /\ pc[p] = "join_member"
       /\ AlreadyInLobby(p)
       /\ Refuse(p, 409)

JoinUser(p) ==
    /\ Advance(p, "join_user", "join_player")
    /\ CreateUserIfNotExistsTx(p, req[p].user)
    /\ UNCHANGED <<tables, loc>>

JoinPlayer(p) ==
    /\ Advance(p, "join_player", "join_commit")
    /\ \E id \in FreshPlayerIDs : AddPlayerTx(p, id, loc[p].lobby, req[p].user)
    /\ UNCHANGED <<tables, loc>>

JoinCommit(p) ==
    /\ Advance(p, "join_commit", "join_detail")
    /\ CommitTx(p)
    /\ UNCHANGED loc

\* GetLobbyDetail runs after the commit, in a snapshot of its own.
JoinDetail(p) ==
    /\ pc[p] = "join_detail"
    /\ IF LobbyDetail(loc[p].lobby) = {}
         THEN Reply(p, 500, None)
         ELSE \E detail \in LobbyDetail(loc[p].lobby) : Reply(p, 200, detail)
    /\ UNCHANGED <<tables, tx>>

-----------------------------------------------------------------------------
(* POST /lobbies/{lobby_id}/kick: RequireLobbyLeader, KickPlayerHandler    *)

\* Mutant: a leader may kick itself.
KickOfAnyone(r) == FALSE

CannotKickSelf(r) == r.target = r.user

\* RequireLobbyLeader, then the handler's checks before BeginTx.
KickAuthorize(p) ==
    \/ /\ Advance(p, "kick_authorize", "kick_leader")
       /\ Leader(p)
       /\ ~CannotKickSelf(req[p])
       /\ UNCHANGED <<tables, tx, loc>>
    \/ /\ pc[p] = "kick_authorize"
       /\ ~LobbyExists(req[p].lobby_id)
       /\ Refuse(p, 404)
    \/ /\ pc[p] = "kick_authorize"
       /\ LobbyExists(req[p].lobby_id)
       /\ ~Leader(p)
       /\ Refuse(p, 403)
    \/ /\ pc[p] = "kick_authorize"
       /\ Leader(p)
       /\ CannotKickSelf(req[p])
       /\ Refuse(p, 400)

\* The handler reads the leader again, through r.DB and not its transaction.
KickLeader(p) ==
    /\ pc[p] = "kick_leader"
    /\ IF Leader(p)
         THEN /\ Advance(p, "kick_leader", "kick_member")
              /\ UNCHANGED <<tables, tx, loc>>
         ELSE Refuse(p, IF LobbyExists(req[p].lobby_id) THEN 403 ELSE 404)

KickMember(p) ==
    \/ /\ Advance(p, "kick_member", "kick_scan")
       /\ IsMember(req[p].lobby_id, req[p].target)
       /\ UNCHANGED <<tables, tx, loc>>
    \/ /\ pc[p] = "kick_member"
       /\ ~IsMember(req[p].lobby_id, req[p].target)
       /\ Refuse(p, 404)

\* DeletePlayerTx: the snapshot of the DELETE ...
KickScan(p) ==
    /\ Advance(p, "kick_scan", "kick_delete")
    /\ loc' = [loc EXCEPT ![p].rows = MatchUser(req[p].lobby_id, req[p].target)]
    /\ UNCHANGED <<tables, tx>>

\* ... and its effect.  The number of rows affected is not looked at.
KickDelete(p) ==
    /\ Advance(p, "kick_delete", "kick_commit")
    /\ DeletePlayerTx(p, loc[p].rows)
    /\ UNCHANGED <<tables, loc>>

KickCommit(p) ==
    /\ pc[p] = "kick_commit"
    /\ CommitTx(p)
    /\ Reply(p, 204, None)

-----------------------------------------------------------------------------
(* GET /lobbies/{lobby_id}: RequireLobbyMember, GetLobbyHandler            *)

GetAuthorize(p) ==
    \/ /\ Advance(p, "get_authorize",
                  IF Leader(p) THEN "get_detail" ELSE "get_member")
       /\ LobbyExists(req[p].lobby_id)
       /\ UNCHANGED <<tables, tx, loc>>
    \/ /\ pc[p] = "get_authorize"
       /\ ~LobbyExists(req[p].lobby_id)
       /\ Refuse(p, 404)

GetMember(p) ==
    \/ /\ Advance(p, "get_member", "get_detail")
       /\ IsMember(req[p].lobby_id, req[p].user)
       /\ UNCHANGED <<tables, tx, loc>>
    \/ /\ pc[p] = "get_member"
       /\ ~IsMember(req[p].lobby_id, req[p].user)
       /\ Refuse(p, 403)

ListedIn(detail, u) == \E row \in detail.players : row.user_id = u

\* Mutant: GetLobbyHandler relies on the middleware's answer.
MayReadAlways(detail, u) == TRUE

MayRead(detail, u) == detail.leader_id = u \/ ListedIn(detail, u)

\* The handler checks the membership again, in the snapshot it returns.
GetDetail(p) ==
    /\ pc[p] = "get_detail"
    /\ LET detail == LobbyDetail(req[p].lobby_id)
       IN  \/ \E d \in detail : MayRead(d, req[p].user) /\ Reply(p, 200, d)
           \/ /\ \A d \in detail : ~MayRead(d, req[p].user)
              /\ Reply(p, IF detail = {} THEN 404 ELSE 403, None)
    /\ UNCHANGED <<tables, tx>>

-----------------------------------------------------------------------------
(* PUT /internal/lobbies/{lobby_id}/players/{player_id}/active:            *)
(* UpdatePlayerActiveStatusHandler                                         *)

UpdateLobby(p) ==
    \/ /\ Advance(p, "update_lobby", "update_member")
       /\ LobbyExists(req[p].lobby_id)
       /\ UNCHANGED <<tables, tx, loc>>
    \/ /\ pc[p] = "update_lobby"
       /\ ~LobbyExists(req[p].lobby_id)
       /\ Refuse(p, 404)

\* IsMemberTx compares player_id with the user_id column.
UpdateMember(p) ==
    \/ /\ Advance(p, "update_member", "update_scan")
       /\ IsMember(req[p].lobby_id, req[p].player_id)
       /\ UNCHANGED <<tables, tx, loc>>
    \/ /\ pc[p] = "update_member"
       /\ ~IsMember(req[p].lobby_id, req[p].player_id)
       /\ Refuse(p, 404)

\* UpdatePlayerActiveStatusTx compares it with the id column.
UpdateScan(p) ==
    /\ Advance(p, "update_scan", "update_write")
    /\ loc' = [loc EXCEPT ![p].rows = MatchID(req[p].lobby_id, req[p].player_id)]
    /\ UNCHANGED <<tables, tx>>

\* No row affected: sql.ErrNoRows, answered with 404.
UpdateWrite(p) ==
    \/ /\ Advance(p, "update_write", "update_commit")
       /\ Surviving(loc[p].rows) # {}
       /\ UpdatePlayerActiveStatusTx(p, loc[p].rows, req[p].is_active)
       /\ UNCHANGED <<tables, loc>>
    \/ /\ pc[p] = "update_write"
       /\ \A q \in Others(p) : ~RowsLockedBy(loc[p].rows, q)
       /\ Surviving(loc[p].rows) = {}
       /\ Refuse(p, 404)

UpdateCommit(p) ==
    /\ pc[p] = "update_commit"
    /\ CommitTx(p)
    /\ Reply(p, 204, None)

-----------------------------------------------------------------------------
(* Faults.                                                                 *)

\* A statement, BeginTx or Commit returns an error: a lost connection, a
\* deadlock victim, a request context cancelled by the client.
DBFailure(p) ==
    /\ pc[p] \notin {"idle", "answered"}
    /\ Refuse(p, 500)

\* The commit takes effect and its acknowledgement is lost.
CommitUnacknowledged(p) ==
    /\ pc[p] \in {"create_commit", "join_commit", "kick_commit", "update_commit"}
    /\ CommitTx(p)
    /\ Reply(p, 500, None)

\* The process dies: PostgreSQL aborts its open transactions.
Crash ==
    /\ pc' = [p \in Workers |-> "idle"]
    /\ req' = [p \in Workers |-> None]
    /\ loc' = [p \in Workers |-> NoLocals]
    /\ resp' = [p \in Workers |-> NoResponse]
    /\ tx' = [p \in Workers |-> NoWrites]
    /\ UNCHANGED tables

-----------------------------------------------------------------------------
Create(p) == \/ CreateUser(p) \/ DrawFreeCode(p) \/ DrawTakenCode(p)
             \/ CreateLobby(p) \/ CreatePlayer(p) \/ CreateCommit(p)

Join(p) == \/ JoinLookup(p) \/ JoinCount(p) \/ JoinMember(p) \/ JoinUser(p)
           \/ JoinPlayer(p) \/ JoinCommit(p) \/ JoinDetail(p)

Kick(p) == \/ KickAuthorize(p) \/ KickLeader(p) \/ KickMember(p)
           \/ KickScan(p) \/ KickDelete(p) \/ KickCommit(p)

Get(p) == GetAuthorize(p) \/ GetMember(p) \/ GetDetail(p)

Update(p) == \/ UpdateLobby(p) \/ UpdateMember(p) \/ UpdateScan(p)
             \/ UpdateWrite(p) \/ UpdateCommit(p)

Handle(p) == Create(p) \/ Join(p) \/ Kick(p) \/ Get(p) \/ Update(p)

Next ==
    \/ \E p \in Workers :
         \/ Receive(p) \/ ReceiveMalformed(p) \/ Deliver(p)
         \/ Handle(p)
         \/ DBFailure(p) \/ CommitUnacknowledged(p)
    \/ Crash

Spec == Init /\ [][Next]_vars

\* Statements that wait for other transactions.
Blocking(p) == \/ CreateUser(p) \/ JoinUser(p) \/ CreateLobby(p)
               \/ KickDelete(p) \/ UpdateWrite(p)

\* The Go scheduler runs every runnable goroutine; PostgreSQL grants a lock in
\* the order of the requests, so no statement waits forever while the lock is
\* released again and again.
Fairness ==
    \A p \in Workers : /\ WF_vars(Handle(p) \/ Deliver(p))
                       /\ SF_vars(Blocking(p))

FairSpec == Spec /\ Fairness

=============================================================================
