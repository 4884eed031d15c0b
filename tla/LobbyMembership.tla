-------------------------- MODULE LobbyMembership --------------------------
(***************************************************************************)
(* What LobbyService promises about lobbies and their players, without     *)
(* requests, transactions or failures: each successful request is one      *)
(* step on the rows that are committed, every other event is no step.      *)
(***************************************************************************)
EXTENDS Naturals, FiniteSets

CONSTANTS
    Users, LobbyIDs, PlayerIDs, JoinCodes,
    MaxPlayers   \* active seats of a lobby that is not overrun

VARIABLES
    opened,      \* the lobbies
    seats        \* the players, each in one lobby

membership == <<opened, seats>>

SeatsIn(l) == {seat \in seats : seat.lobby_id = l}

SeatsOf(l, u) == {seat \in SeatsIn(l) : seat.user_id = u}

Init ==
    /\ opened = {}
    /\ seats = {}

Unused(id) == \A seat \in seats : seat.id # id

Seated(id, l, u) ==
    seats' = seats \cup
        {[id |-> id, lobby_id |-> l, user_id |-> u, is_active |-> TRUE]}

\* A new lobby under a code of its own; its leader has a seat from the start.
Open(l, code, u, id) ==
    /\ \A lobby \in opened : lobby.id # l /\ lobby.join_code # code
    /\ Unused(id)
    /\ opened' = opened \cup
           {[id |-> l, join_code |-> code, leader_id |-> u, status |-> "waiting"]}
    /\ Seated(id, l, u)

Sit(id, l, u) ==
    /\ \E lobby \in opened : lobby.id = l
    /\ Unused(id)
    /\ Seated(id, l, u)
    /\ UNCHANGED opened

\* A user loses seats of one lobby that it does not lead.  Not always all of
\* them: a seat taken while the request runs is kept.
Vacate(l, u) ==
    /\ \E lobby \in opened : lobby.id = l /\ lobby.leader_id # u
    /\ \E gone \in SUBSET SeatsOf(l, u) : seats' = seats \ gone
    /\ UNCHANGED opened

Mark(seat, active) ==
    /\ seats' = (seats \ {seat}) \cup {[seat EXCEPT !.is_active = active]}
    /\ UNCHANGED opened

Next ==
    \/ \E l \in LobbyIDs, u \in Users, id \in PlayerIDs :
         \/ \E code \in JoinCodes : Open(l, code, u, id)
         \/ Sit(id, l, u)
    \/ \E l \in LobbyIDs, u \in Users : Vacate(l, u)
    \/ \E seat \in seats, active \in BOOLEAN : Mark(seat, active)

Spec == Init /\ [][Next]_membership

-----------------------------------------------------------------------------
(* The same when requests do not overlap: a seat is taken only by a user   *)
(* who has none in the lobby, and only where an active seat is free; a     *)
(* user who is removed keeps no seat.                                      *)

SitAlone(id, l, u) ==
    /\ Sit(id, l, u)
    /\ SeatsOf(l, u) = {}
    /\ Cardinality({seat \in SeatsIn(l) : seat.is_active}) < MaxPlayers

VacateAll(l, u) ==
    /\ Vacate(l, u)
    /\ seats' = seats \ SeatsOf(l, u)

SerialNext ==
    \/ \E l \in LobbyIDs, u \in Users, id \in PlayerIDs :
         \/ \E code \in JoinCodes : Open(l, code, u, id)
         \/ SitAlone(id, l, u)
    \/ \E l \in LobbyIDs, u \in Users : VacateAll(l, u)
    \/ \E seat \in seats, active \in BOOLEAN : Mark(seat, active)

SerialSpec == Init /\ [][SerialNext]_membership

=============================================================================
