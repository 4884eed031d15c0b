----------------------------- MODULE MCScenarios -----------------------------
(***************************************************************************)
(* LobbyService within several sets of bounds at once.  A scenario says    *)
(* how many users there are, which lobbies, and which endpoints are        *)
(* called; TLC explores the states that are within one of them.  Only a    *)
(* request that comes in, or the id drawn for a lobby, leads out: a        *)
(* request under way always has a next step that stays within.             *)
(***************************************************************************)
EXTENDS MCLobby

CONSTANT Scenarios

Some(n) == CHOOSE ids \in SUBSET LobbyIDs : Cardinality(ids) = n

\* Three users of one lobby; two users of two lobbies.
Races == {
    [users |-> 3, lobbies |-> Some(1), ops |-> {"create", "join", "kick", "get"}],
    [users |-> 2, lobbies |-> Some(2), ops |-> {"create", "join", "kick"}]}

\* Rows of one lobby that kicks and updates meet on; waits for a join code.
Waits == {
    [users |-> 2, lobbies |-> Some(1), ops |-> {"create", "join", "kick", "update"}],
    [users |-> 2, lobbies |-> Some(2), ops |-> {"create", "kick"}]}

Busy == {p \in Workers : req[p] # None}
Requested(ops) == {req[p] : p \in InFlight(ops)}

Creating == {p \in InFlight({"create"}) : pc[p] # "answered"}

\* The users with a row and those of the requests under way.
UsersAround ==
    users \cup {row.user_id : row \in players}
      \cup {r.user : r \in Requested(Ops \ {"update"})}
      \cup {r.target : r \in Requested({"kick"})}

\* The requests under way, the users and the lobbies are the scenario's.
Within(scenario) ==
    /\ \A p \in Busy : req[p].op \in scenario.ops
    /\ \A r \in Requested({"kick", "get", "update"}) : r.lobby_id \in scenario.lobbies
    /\ Cardinality(UsersAround) <= scenario.users
    /\ Cardinality(lobbies) + Cardinality(Creating) <= Cardinality(scenario.lobbies)
    /\ {lobby.id : lobby \in KnownLobbies} \subseteq scenario.lobbies

InScenario == \E scenario \in Scenarios : Within(scenario)
=============================================================================
