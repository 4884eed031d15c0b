----------------------------- MODULE Repository -----------------------------
(***************************************************************************)
(* The PostgreSQL store of LobbyService: the tables of                     *)
(* internal/db/migrations/00001_create_schema.sql and the statements of    *)
(* internal/repository/postgres.go.                                        *)
(*                                                                         *)
(* BeginTx passes nil options, so every transaction runs at PostgreSQL's   *)
(* default level, READ COMMITTED: a statement sees the rows committed when *)
(* it starts, two statements of one transaction may see different          *)
(* databases, and a statement that meets an uncommitted conflicting write  *)
(* of another transaction waits for that transaction to end.  A statement  *)
(* is one step here; what a transaction wrote and has not committed is in  *)
(* tx[p].  No handler reads back its own uncommitted write, so reads       *)
(* range over the committed tables.                                        *)
(***************************************************************************)
EXTENDS Naturals, FiniteSets

CONSTANTS
    Workers,     \* goroutines serving requests, at most one request each
    Users,       \* user UUIDs, from the X-User-ID header
    LobbyIDs,    \* lobby UUIDs that gen_random_uuid() can yield
    PlayerIDs,   \* player-row UUIDs that gen_random_uuid() can yield
    JoinCodes,   \* codes the generator can draw (upper case, six characters)
    MaxPlayers   \* maxPlayers of join_lobby.go, 6 in the code

ASSUME MaxPlayersAssumption == MaxPlayers \in Nat \ {0}

VARIABLES
    users,       \* committed rows of users (ids only)
    lobbies,     \* committed rows of lobbies
    players,     \* committed rows of players
    tx           \* tx[p]: the uncommitted writes of worker p's transaction

tables == <<users, lobbies, players>>

Statuses == {"waiting", "running", "finished"}

LobbyRow == [id : LobbyIDs, join_code : JoinCodes, leader_id : Users,
             status : Statuses]

PlayerRow == [id : PlayerIDs, lobby_id : LobbyIDs, user_id : Users,
              is_active : BOOLEAN]

\* Rows inserted (or the new versions of updated ones) and player rows
\* deleted (or superseded); the latter are the row locks the transaction holds.
Writes == [users : SUBSET Users, lobbies : SUBSET LobbyRow,
           added : SUBSET PlayerRow, removed : SUBSET PlayerRow]

NoWrites == [users |-> {}, lobbies |-> {}, added |-> {}, removed |-> {}]

RepositoryTypeOK ==
    /\ users \subseteq Users
    /\ lobbies \subseteq LobbyRow
    /\ players \subseteq PlayerRow
    /\ tx \in [Workers -> Writes]

RepositoryInit ==
    /\ users = {}
    /\ lobbies = {}
    /\ players = {}
    /\ tx = [p \in Workers |-> NoWrites]

Others(p) == Workers \ {p}

-----------------------------------------------------------------------------
(* Reads: one SELECT each, over the committed rows.                        *)

PlayersOf(l) == {row \in players : row.lobby_id = l}

LobbyExists(l) == \E row \in lobbies : row.id = l

\* GetLobbyLeaderID(l) = u
Leads(u, l) == \E row \in lobbies : row.id = l /\ row.leader_id = u

\* GetLobbyByJoinCodeTx: the comparison with the CHAR(6) column is exact.
LobbiesWithCode(code) == {row \in lobbies : row.join_code = code}

\* GetLobbyPlayerCountTx counts the active rows only.
GetLobbyPlayerCountTx(l) == Cardinality({row \in PlayersOf(l) : row.is_active})

IsMember(l, u) == \E row \in PlayersOf(l) : row.user_id = u

\* GetLobbyDetail: the lobby (none when it does not exist) with its players.
LobbyDetail(l) ==
    {[lobby_id |-> row.id, join_code |-> row.join_code,
      leader_id |-> row.leader_id, players |-> PlayersOf(l)] :
        row \in {r \in lobbies : r.id = l}}

-----------------------------------------------------------------------------
(* Writes.                                                                 *)

\* ON CONFLICT (id) DO NOTHING: waits while another open transaction has
\* inserted the same id, does nothing when the id is committed.
UserInsertBlockedBy(u, q) == u \in tx[q].users

CreateUserIfNotExistsTx(p, u) ==
    /\ \A q \in Others(p) : ~UserInsertBlockedBy(u, q)
    /\ tx' = [tx EXCEPT ![p].users = IF u \in users THEN @ ELSE @ \cup {u}]

\* lobbies.join_code is UNIQUE: the insert waits for an uncommitted row with
\* the same code and fails when a committed one exists.
CodeInsertBlockedBy(code, q) == \E row \in tx[q].lobbies : row.join_code = code

\* Mutant: the UNIQUE constraint is missing from the schema.
NoUniqueJoinCode(code) == FALSE

ViolatesUniqueJoinCode(code) == \E row \in lobbies : row.join_code = code

KnownLobbies == lobbies \cup UNION {tx[q].lobbies : q \in Workers}

FreshLobbyIDs == LobbyIDs \ {row.id : row \in KnownLobbies}

CreateLobbyTx(p, l, code, leader) ==
    tx' = [tx EXCEPT ![p].lobbies = @ \cup
             {[id |-> l, join_code |-> code, leader_id |-> leader,
               status |-> "waiting"]}]

AddPlayerTx(p, id, l, u) ==
    tx' = [tx EXCEPT ![p].added = @ \cup
             {[id |-> id, lobby_id |-> l, user_id |-> u, is_active |-> TRUE]}]

\* DELETE and UPDATE first collect the ids of the rows that match in the
\* statement's snapshot, then wait for the locks of other transactions on
\* them, then act on those rows that still exist.

\* Mutant: the DELETE forgets its condition on lobby_id.
MatchUserAnywhere(l, u) == {row.id : row \in {r \in players : r.user_id = u}}

MatchUser(l, u) == {row.id : row \in {r \in PlayersOf(l) : r.user_id = u}}

MatchID(l, id) == {row.id : row \in {r \in PlayersOf(l) : r.id = id}}

\* Mutant: a DELETE or UPDATE acts on rows that another transaction has locked.
NoRowLocks(ids, q) == FALSE

RowsLockedBy(ids, q) == \E row \in tx[q].removed : row.id \in ids

Surviving(ids) == {row \in players : row.id \in ids}

DeletePlayerTx(p, ids) ==
    /\ \A q \in Others(p) : ~RowsLockedBy(ids, q)
    /\ tx' = [tx EXCEPT ![p].removed = @ \cup Surviving(ids)]

UpdatePlayerActiveStatusTx(p, ids, active) ==
    /\ \A q \in Others(p) : ~RowsLockedBy(ids, q)
    /\ tx' = [tx EXCEPT
                ![p].removed = @ \cup Surviving(ids),
                ![p].added = @ \cup {[row EXCEPT !.is_active = active] :
                                        row \in Surviving(ids)}]

-----------------------------------------------------------------------------
(* The end of a transaction.                                               *)

\* Mutant: the user inserted by the transaction is not part of the commit.
CommitWithoutUser(p) ==
    /\ users' = users
    /\ lobbies' = lobbies \cup tx[p].lobbies
    /\ players' = (players \ tx[p].removed) \cup tx[p].added
    /\ tx' = [tx EXCEPT ![p] = NoWrites]

CommitTx(p) ==
    /\ users' = users \cup tx[p].users
    /\ lobbies' = lobbies \cup tx[p].lobbies
    /\ players' = (players \ tx[p].removed) \cup tx[p].added
    /\ tx' = [tx EXCEPT ![p] = NoWrites]

\* Mutant: a handler returns early and its transaction stays open.
LeakTx(p) == UNCHANGED <<tables, tx>>

\* The deferred tx.Rollback() of every handler, on each early return.
RollbackTx(p) ==
    /\ tx' = [tx EXCEPT ![p] = NoWrites]
    /\ UNCHANGED tables

=============================================================================
