----------------------------- MODULE MCLobbyCase -----------------------------
(***************************************************************************)
(* Join codes in upper and lower case: the generator draws upper case only *)
(* (joincode.Charset), a client types what it likes.                       *)
(***************************************************************************)
EXTENDS LobbyProperties

CONSTANT Code       \* a generated code
CONSTANT LowerCode  \* the same code in lower case

MCJoinCodes == {Code}
MCSpellings == {Code, LowerCode}

UpperCase == [s \in MCSpellings |-> Code]

\* openapi.yaml, JoinLobbyRequest: "6-character join code (case insensitive)":
\* a join is answered 404 only when no lobby has the code in upper case.
NotFoundInAnyCase ==
    \A p \in Workers :
        pc[p] = "join_lookup" /\ resp'[p].status = 404 =>
            LobbiesWithCode(UpperCase[req[p].join_code]) = {}

CaseInsensitiveJoin == [][NotFoundInAnyCase]_vars
=============================================================================
