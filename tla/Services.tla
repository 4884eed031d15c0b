------------------------------ MODULE Services ------------------------------
(***************************************************************************)
(* AuthService, and LobbyService apart from its handlers: the models of    *)
(* their parts together, each over variables of its own.                   *)
(***************************************************************************)
EXTENDS ConnectionPool, AuthTokens

CONSTANTS
    Processes, Last, MaxFailures,                            \* Startup
    Clients, Headers                                         \* Usernames

ASSUME MigrationsAssumption == Last \in Nat
ASSUME HeadersAssumption == None \notin Headers

VARIABLES
    startPc, pending, dbUp, versions, schema, writing, failures,
    stored, request, inserted, namePc, shown

Start == INSTANCE Startup WITH pc <- startPc

Named == INSTANCE Usernames WITH
    Users <- Clients, Names <- Headers, pc <- namePc

-----------------------------------------------------------------------------
(* The properties of the instances, each explained in its module; those of *)
(* ConnectionPool and AuthTokens are named there.                          *)

\* No process serves on an incomplete schema (main, RunMigrations).
ServesMigrated == Start!ServesMigrated

\* All details show the same name of a user (CreateUserIfNotExistsTx).
DetailsAgree == Named!DetailsAgree

\* The first committed name stays (CreateUserIfNotExistsTx).
NameStays == Named!NameStays

=============================================================================
