--------------------------- MODULE LobbyInvariant ---------------------------
(***************************************************************************)
(* The inductive invariants behind LobbyProperties: what a handler knows   *)
(* at each of its statements, and what an open transaction may contain.    *)
(* LobbyTypeProofs, LobbyLeaderProofs and LobbySafetyProofs prove them.    *)
(***************************************************************************)
EXTENDS LobbyProperties

CreatePCs == {"create_user", "create_code", "create_lobby", "create_player",
              "create_commit"}
JoinPCs == {"join_lookup", "join_count", "join_member", "join_user",
            "join_player", "join_commit", "join_detail"}
KickPCs == {"kick_authorize", "kick_leader", "kick_member", "kick_scan",
            "kick_delete", "kick_commit"}
GetPCs == {"get_authorize", "get_member", "get_detail"}
UpdatePCs == {"update_lobby", "update_member", "update_scan", "update_write",
              "update_commit"}

\* Each handler runs on a request of its own kind.
Dispatched ==
    \A p \in Workers :
        /\ pc[p] \in CreatePCs => req[p] \in CreateRequest
        /\ pc[p] \in JoinPCs => req[p] \in JoinRequest
        /\ pc[p] \in KickPCs => req[p] \in KickRequest
        /\ pc[p] \in GetPCs => req[p] \in GetRequest
        /\ pc[p] \in UpdatePCs => req[p] \in UpdateRequest

\* The locals a statement uses have been assigned.
Assigned ==
    \A p \in Workers :
        /\ pc[p] \in {"create_lobby", "create_player", "create_commit"} =>
             loc[p].code \in JoinCodes
        /\ pc[p] \in {"create_player", "create_commit"} \cup (JoinPCs \ {"join_lookup"}) =>
             loc[p].lobby \in LobbyIDs

TypeInv == TypeOK /\ Dispatched /\ Assigned

\* An id belongs to one row: the row's lobby and user never change.
RowIdentity ==
    \A a, b \in KnownRows :
        a.id = b.id => a.lobby_id = b.lobby_id /\ a.user_id = b.user_id

LobbyIdentity == \A a, b \in KnownLobbies : a.id = b.id => a = b

\* A transaction inserts a lobby only on behalf of a create request, and
\* commits it only with a row for the leader.
PendingLobby ==
    \A p \in Workers : \A lobby \in tx[p].lobbies :
        /\ pc[p] \in {"create_player", "create_commit"}
        /\ lobby.id = loc[p].lobby
        /\ lobby.leader_id = req[p].user
        /\ pc[p] = "create_commit" =>
             \E row \in tx[p].added : /\ row.lobby_id = lobby.id
                                      /\ row.user_id = lobby.leader_id

\* Past the leader check, the caller leads the lobby and is not the target.
KickAuthorized ==
    \A p \in Workers :
        pc[p] \in KickPCs \ {"kick_authorize"} =>
            Leader(p) /\ req[p].target # req[p].user

\* The ids that a DELETE matched are those of the target's rows.
KickMatched ==
    \A p \in Workers :
        pc[p] \in {"kick_delete", "kick_commit"} =>
            \A row \in KnownRows :
                row.id \in loc[p].rows => /\ row.lobby_id = req[p].lobby_id
                                          /\ row.user_id = req[p].target

\* A transaction removes the rows it matched, or puts new versions in place.
PendingRemoval ==
    \A p \in Workers : \A row \in tx[p].removed :
        \/ pc[p] = "kick_commit" /\ row.id \in loc[p].rows
        \/ /\ pc[p] = "update_commit"
           /\ \E new \in tx[p].added : /\ new.id = row.id
                                       /\ new.lobby_id = row.lobby_id
                                       /\ new.user_id = row.user_id

\* LeaderIsMember with what makes it inductive.
LeaderInv ==
    /\ TypeInv
    /\ RowIdentity
    /\ LobbyIdentity
    /\ PendingLobby
    /\ KickAuthorized
    /\ KickMatched
    /\ PendingRemoval
    /\ LeaderIsMember

-----------------------------------------------------------------------------
(* What else the handlers may rely on.                                     *)

\* A handler writes its response last.
Unanswered ==
    \A p \in Workers : pc[p] # "answered" => resp[p] = NoResponse

\* The statements after CreateUserIfNotExistsTx in the same transaction.
UserPCs == (CreatePCs \ {"create_user"}) \cup {"join_player", "join_commit"}

UserInserted ==
    \A p \in Workers : pc[p] \in UserPCs => req[p].user \in users \cup tx[p].users

\* Locks on user rows are held at those statements only.
PendingUser ==
    \A p \in Workers : tx[p].users # {} => pc[p] \in UserPCs

\* The statements after CreateLobbyTx have the lobby in their transaction, ...
LobbyInserted ==
    \A p \in Workers : pc[p] \in {"create_player", "create_commit"} =>
        \E lobby \in tx[p].lobbies : /\ lobby.id = loc[p].lobby
                                     /\ lobby.join_code = loc[p].code

\* ... those after the lookup of a join in the table.
LobbyFound ==
    \A p \in Workers :
        pc[p] \in JoinPCs \ {"join_lookup"} => LobbyExists(loc[p].lobby)

\* An open transaction refers to rows that are committed or its own.
PendingReferences ==
    \A p \in Workers :
        /\ \A lobby \in tx[p].lobbies : lobby.leader_id \in users \cup tx[p].users
        /\ \A row \in tx[p].added :
             /\ row.user_id \in users \cup tx[p].users
             /\ \E lobby \in lobbies \cup tx[p].lobbies : lobby.id = row.lobby_id

\* Committed or pending, no two lobbies have the same code.
UniqueKnownCodes ==
    \A a, b \in KnownLobbies : a.join_code = b.join_code => a = b

\* What 201 says is committed.
CreatedCommitted ==
    \A p \in Workers : resp[p].status = 201 =>
        \E lobby \in lobbies : /\ lobby.id = resp[p].body.lobby_id
                               /\ lobby.join_code = resp[p].body.join_code

\* The consistency of tables, transactions and answers.
SafetyInv ==
    /\ LeaderInv
    /\ Unanswered
    /\ UserInserted
    /\ PendingUser
    /\ LobbyInserted
    /\ LobbyFound
    /\ PendingReferences
    /\ ReferentialIntegrity
    /\ UniqueKnownCodes
    /\ CreatedCommitted
    /\ GetOnlyForMembers

=============================================================================
