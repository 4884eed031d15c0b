-------------------------- MODULE LobbyRefinement --------------------------
(***************************************************************************)
(* LobbyService implements LobbyMembership: the lobbies and seats of the   *)
(* abstract specification are the committed rows.                          *)
(***************************************************************************)
EXTENDS LobbyInvariant

Membership == INSTANCE LobbyMembership WITH opened <- lobbies, seats <- players

\* Whatever requests overlap, fail or are retried, every change of the
\* committed rows is one of the promised steps: a lobby with its leader's seat
\* under an unused code, a seat in an existing lobby, seats of one user who does
\* not lead the lobby vacated, one seat marked (create_lobby.go, join_lobby.go,
\* kick_player.go, update_player_active_status.go).
MembershipImplemented == Membership!Spec

\* Served one at a time, joins respect capacity and single membership at the
\* very step that takes the seat, and a kick leaves the user no seat.
SerialMembershipImplemented == Membership!SerialSpec

-----------------------------------------------------------------------------
(* Why: what a transaction holds at each statement is one change of the    *)
(* abstract specification.                                                 *)

\* The lobby and the seat that a create or a join inserts.
NewLobby(p) == [id |-> loc[p].lobby, join_code |-> loc[p].code,
                leader_id |-> req[p].user, status |-> "waiting"]

NewSeat(p, id) == [id |-> id, lobby_id |-> loc[p].lobby,
                   user_id |-> req[p].user, is_active |-> TRUE]

InsertPCs == {"create_commit", "join_commit"}

WritingPCs == InsertPCs \cup {"create_player", "kick_commit", "update_commit"}

NoRows(p) == tx[p].lobbies = {} /\ tx[p].added = {} /\ tx[p].removed = {}

Creates(p) == tx[p].lobbies = {NewLobby(p)} /\ tx[p].removed = {}

Inserts(p) == /\ \E id \in PlayerIDs : tx[p].added = {NewSeat(p, id)}
              /\ tx[p].removed = {}

Rewrites(p) == \E row \in PlayerRow :
                 /\ tx[p].removed = {row}
                 /\ tx[p].added = {[row EXCEPT !.is_active = req[p].is_active]}

\* What the transaction of p holds at each statement of its handler.
ChangeOf(p) ==
    /\ pc[p] \notin WritingPCs => NoRows(p)
    /\ pc[p] \in {"create_player", "create_commit"} => Creates(p)
    /\ pc[p] \in {"join_commit", "kick_commit", "update_commit"} => tx[p].lobbies = {}
    /\ pc[p] \in {"create_player", "kick_commit"} => tx[p].added = {}
    /\ pc[p] \in InsertPCs => Inserts(p)
    /\ pc[p] = "update_commit" => Rewrites(p)
    /\ pc[p] = "update_write" => loc[p].rows \subseteq {req[p].player_id}

OneChange == \A p \in Workers : ChangeOf(p)

\* Row locks: a row that is to be removed is still there, and no other
\* transaction is about to remove it.
RowsLocked ==
    \A p \in Workers :
        /\ tx[p].removed \subseteq players
        /\ \A q \in Others(p) : tx[p].removed \cap tx[q].removed = {}

\* Ids of seats: one seat each, committed or about to be.
Inserted(p) == IF pc[p] \in InsertPCs THEN tx[p].added ELSE {}

SeatsUnique ==
    /\ \A a, b \in players : a.id = b.id => a = b
    /\ \A p \in Workers : \A new \in Inserted(p) :
         /\ \A row \in players : row.id # new.id
         /\ \A q \in Others(p) : \A row \in Inserted(q) : row.id # new.id

\* A lobby is inserted by one transaction and committed once.
LobbiesUnique ==
    \A p \in Workers :
        /\ tx[p].lobbies \cap lobbies = {}
        /\ \A q \in Others(p) : tx[p].lobbies \cap tx[q].lobbies = {}

\* Every open transaction is one step of LobbyMembership that is still possible.
MembershipInv ==
    SafetyInv /\ OneChange /\ RowsLocked /\ SeatsUnique /\ LobbiesUnique

=============================================================================
