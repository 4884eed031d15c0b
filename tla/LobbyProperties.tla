-------------------------- MODULE LobbyProperties --------------------------
(***************************************************************************)
(* What LobbyService promises, stated over the state of its handlers and   *)
(* its database.                                                           *)
(***************************************************************************)
EXTENDS LobbyService

RowsOf(l, u) == {row \in PlayersOf(l) : row.user_id = u}

ActiveRows(l) == {row \in PlayersOf(l) : row.is_active}

-----------------------------------------------------------------------------
(* Consistency of the tables.                                              *)

\* The leader of a committed lobby is always among its players: the lobby and
\* its first row are committed together, nobody else can kick the leader and
\* the leader cannot kick itself (create_lobby.go, kick_player.go).
LeaderIsMember ==
    \A lobby \in lobbies : IsMember(lobby.id, lobby.leader_id)

\* The foreign keys of the schema are never what refuses an insert: every row
\* a handler refers to is committed before it, or together with it.
ReferentialIntegrity ==
    /\ \A lobby \in lobbies : lobby.leader_id \in users
    /\ \A row \in players : row.user_id \in users /\ LobbyExists(row.lobby_id)

\* A join code names at most one lobby, although GenerateJoinCode looks for
\* collisions outside the transaction that inserts the code.
UniqueJoinCodes ==
    \A a, b \in lobbies : a.join_code = b.join_code => a = b

-----------------------------------------------------------------------------
(* Capacity and membership under concurrent joins.                         *)

\* The check of maxPlayers and the insert are two statements: each request in
\* flight may slip through with a stale count, but no more than that.
CapacityBound ==
    \A lobby \in lobbies :
        Cardinality(ActiveRows(lobby.id)) <= MaxPlayers + Cardinality(Workers) - 1

\* Likewise for the membership check: at most one row per concurrent request.
DuplicateBound ==
    \A lobby \in lobbies, u \in Users :
        Cardinality(RowsOf(lobby.id, u)) <= Cardinality(Workers)

\* JoinLobbyHandler's maxPlayers, openapi.yaml "Lobby must not be full
\* (< 6 players)" and `maxItems: 6': no lobby holds more players than that.
LobbyNeverOverfull ==
    \A lobby \in lobbies : Cardinality(ActiveRows(lobby.id)) <= MaxPlayers

\* openapi.yaml "User must not already be in lobby": a user has one row per
\* lobby, also after an unacknowledged commit and a retry of the request.
NoDuplicateMember ==
    \A lobby \in lobbies, u \in Users : Cardinality(RowsOf(lobby.id, u)) <= 1

-----------------------------------------------------------------------------
(* Authorization.                                                          *)

\* GET answers 200 only with a snapshot in which the caller is a member or the
\* leader, although a kick may commit between middleware and handler.
GetOnlyForMembers ==
    \A p \in Workers :
        resp[p].status = 200 /\ req[p].op = "get" =>
            \/ resp[p].body.leader_id = req[p].user
            \/ \E row \in resp[p].body.players : row.user_id = req[p].user

\* A player row disappears only by a kick that the lobby's leader asked for,
\* aimed at that user, and never from another lobby.
RemovedByLeaderOnly ==
    \A row \in players :
        (\A other \in players' : other.id # row.id) =>
            \E p \in Workers :
                /\ req[p] \in KickRequest
                /\ req[p].lobby_id = row.lobby_id
                /\ req[p].target = row.user_id
                /\ \E lobby \in lobbies : /\ lobby.id = row.lobby_id
                                          /\ lobby.leader_id = req[p].user
                                          /\ lobby.leader_id # row.user_id

OnlyLeaderRemoves == [][RemovedByLeaderOnly]_vars

-----------------------------------------------------------------------------
(* Answers and the database.                                               *)

\* 201 is told to the client only when the lobby is durable: its code then
\* leads a join to that lobby and to no other, whatever fails afterwards.
CreatedCodeWorks ==
    \A p \in Workers :
        resp[p].status = 201 =>
            \E row \in lobbies :
                /\ row.id = resp[p].body.lobby_id
                /\ LobbiesWithCode(resp[p].body.join_code) = {row}

\* When a kick answers 204 every row its DELETE matched is gone, even those
\* that an update of is_active rewrote in between or another kick removed.
KickTakesEffect ==
    \A p \in Workers :
        pc[p] = "kick_commit" /\ resp'[p].status = 204 =>
            \A row \in players' : row.id \notin loc[p].rows

KickedRowsAreGone == [][KickTakesEffect]_vars

-----------------------------------------------------------------------------
(* Waiting.                                                                *)

\* Worker p's next statement waits for a lock of worker q's transaction.
WaitsFor(p, q) ==
    \/ /\ pc[p] \in {"create_user", "join_user"}
       /\ UserInsertBlockedBy(req[p].user, q)
    \/ /\ pc[p] = "create_lobby"
       /\ CodeInsertBlockedBy(loc[p].code, q)
    \/ /\ pc[p] \in {"kick_delete", "update_write"}
       /\ RowsLockedBy(loc[p].rows, q)

\* Among any workers one waits for none of the others: the order in which
\* handlers take locks (user, code, player row) admits no deadlock.
NoLockCycle ==
    \A S \in (SUBSET Workers) \ {{}} :
        \E p \in S : \A q \in S \ {p} : ~WaitsFor(p, q)

\* Every request is answered, or its process dies, whatever locks it meets and
\* however often the generator draws a code that is taken.
EveryRequestAnswered ==
    \A p \in Workers : pc[p] # "idle" ~> pc[p] = "idle"

\* At most so many steps until the request is answered and delivered; each
\* attempt of GenerateJoinCode is one.
StepsLeft(p) ==
    CASE pc[p] = "idle" -> 0
      [] pc[p] = "answered" -> 1
      [] pc[p] \in {"create_commit", "join_detail", "kick_commit", "get_detail",
                    "update_commit"} -> 2
      [] pc[p] \in {"create_player", "join_commit", "kick_delete", "get_member",
                    "update_write"} -> 3
      [] pc[p] \in {"create_lobby", "join_player", "kick_scan", "get_authorize",
                    "update_scan"} -> 4
      [] pc[p] \in {"join_user", "kick_member", "update_member"} -> 5
      [] pc[p] \in {"join_member", "kick_leader", "update_lobby"} -> 6
      [] pc[p] \in {"join_count", "kick_authorize"} -> 7
      [] pc[p] = "join_lookup" -> 8
      [] pc[p] = "create_code" -> 5 + MaxRetries - loc[p].attempt
      [] pc[p] = "create_user" -> 5 + MaxRetries

\* Every step brings a request nearer to its answer or leaves its handler as it
\* is: no handler goes back, whatever it reads and however often the code it
\* draws is taken (generator.go), and no other request sets it back.
OnlyForward ==
    \A p \in Workers :
        pc[p] # "idle" =>
            \/ StepsLeft(p)' < StepsLeft(p)
            \/ UNCHANGED <<pc[p], req[p], loc[p], resp[p], tx[p]>>

StatementsBounded == [][OnlyForward]_vars

-----------------------------------------------------------------------------
(* What the interface descriptions say and the handlers do not do.         *)

\* openapi.yaml: the player_id of the path is the "Player record identifier"
\* that the lobby details list, so it is found whenever the lobby has that row.
UpdateRefusedOnlyWithoutRow ==
    \A p \in Workers :
        pc[p] = "update_member" /\ resp'[p].status = 404 =>
            MatchID(req[p].lobby_id, req[p].player_id) = {}

UpdateFindsPlayer == [][UpdateRefusedOnlyWithoutRow]_vars

=============================================================================
