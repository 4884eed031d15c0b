------------------------------- MODULE MCLobby -------------------------------
(***************************************************************************)
(* LobbyService with small sets of users, lobbies, rows and codes.         *)
(***************************************************************************)
EXTENDS LobbyRefinement, TLC

\* Users, rows and workers are interchangeable when no set contains another.
Symmetry == Permutations(Users) \cup Permutations(PlayerIDs) \cup Permutations(Workers)
=============================================================================
