------------------------- MODULE LobbyLeaderProofs -------------------------
(***************************************************************************)
(* The leader of a lobby is always among its players: LeaderInv is an      *)
(* inductive invariant of LobbyService, for every value of its constants.  *)
(***************************************************************************)
EXTENDS LobbyTypeProofs

-----------------------------------------------------------------------------
(* What a step does to the rows of lobbies and players that anybody knows. *)

SameRow(a, b) == /\ a.id = b.id
                 /\ a.lobby_id = b.lobby_id
                 /\ a.user_id = b.user_id

\* No row becomes known but new versions of known ones.
OldRows == \A row \in KnownRows' : \E old \in KnownRows : SameRow(old, row)

\* One row becomes known, under an id that nobody has met.
NewRow == \E new \in PlayerRow : /\ new.id \notin UsedPlayerIDs
                                 /\ KnownRows' = KnownRows \cup {new}

\* A rollback makes no row known.
LEMMA RollbackRows ==
    ASSUME TypeInv, NEW p \in Workers, RollbackTx(p)
    PROVE  OldRows /\ KnownLobbies' \subseteq KnownLobbies
<1>1. /\ UNCHANGED <<users, lobbies, players>>
      /\ \A q \in Workers : tx'[q] = tx[q] \/ tx'[q] = NoWrites
    BY DEF RollbackTx, tables, TypeInv, TypeOK, RepositoryTypeOK
<1>2. KnownRows' \subseteq KnownRows
    BY <1>1 DEF KnownRows, NoWrites
<1>3. KnownLobbies' \subseteq KnownLobbies
    BY <1>1 DEF KnownLobbies, NoWrites
<1> QED
    BY <1>2, <1>3 DEF OldRows, SameRow

\* Nor does a commit: what it puts in the tables was pending.
LEMMA CommitRows ==
    ASSUME TypeInv, NEW p \in Workers, CommitTx(p)
    PROVE  OldRows /\ KnownLobbies' \subseteq KnownLobbies
<1>1. \A q \in Workers : tx'[q] = tx[q] \/ tx'[q] = NoWrites
    BY DEF CommitTx, TypeInv, TypeOK, RepositoryTypeOK
<1>2. KnownRows' \subseteq KnownRows
    BY <1>1 DEF CommitTx, KnownRows, NoWrites
<1>3. KnownLobbies' \subseteq KnownLobbies
    BY <1>1 DEF CommitTx, KnownLobbies, NoWrites
<1> QED
    BY <1>2, <1>3 DEF OldRows, SameRow

\* Nor does a read.
LEMMA ReadRows ==
    ASSUME UNCHANGED <<tables, tx>>
    PROVE  OldRows /\ KnownLobbies' = KnownLobbies
BY DEF tables, OldRows, SameRow, KnownRows, KnownLobbies

\* Nor the insert of a user.
LEMMA CreateUserRows ==
    ASSUME TypeInv, NEW p \in Workers, NEW u,
           CreateUserIfNotExistsTx(p, u), UNCHANGED tables
    PROVE  OldRows /\ KnownLobbies' = KnownLobbies
<1>1. /\ UNCHANGED <<users, lobbies, players>>
      /\ \A q \in Workers : /\ tx'[q].lobbies = tx[q].lobbies
                            /\ tx'[q].added = tx[q].added
                            /\ tx'[q].removed = tx[q].removed
    BY DEF CreateUserIfNotExistsTx, tables, TypeInv, TypeOK, RepositoryTypeOK, Writes
<1> QED
    BY <1>1 DEF OldRows, SameRow, KnownRows, KnownLobbies

\* The insert of a lobby makes that lobby known, and no player row.
LEMMA CreateLobbyRows ==
    ASSUME TypeInv, NEW p \in Workers, NEW l, NEW code, NEW u,
           CreateLobbyTx(p, l, code, u), UNCHANGED tables
    PROVE  /\ OldRows
           /\ KnownLobbies' = KnownLobbies \cup
                {[id |-> l, join_code |-> code, leader_id |-> u, status |-> "waiting"]}
<1> DEFINE new == [id |-> l, join_code |-> code, leader_id |-> u, status |-> "waiting"]
<1>1. /\ UNCHANGED <<users, lobbies, players>>
      /\ \A q \in Workers : /\ tx'[q].added = tx[q].added
                            /\ tx'[q].removed = tx[q].removed
      /\ tx'[p].lobbies = tx[p].lobbies \cup {new}
      /\ \A q \in Workers \ {p} : tx'[q].lobbies = tx[q].lobbies
    BY DEF CreateLobbyTx, tables, TypeInv, TypeOK, RepositoryTypeOK, Writes
<1>2. OldRows
    BY <1>1 DEF OldRows, SameRow, KnownRows
<1> HIDE DEF new
<1>3. KnownLobbies' = KnownLobbies \cup {new}
    BY <1>1 DEF KnownLobbies
<1> QED
    BY <1>2, <1>3 DEF new

\* The insert of a player makes one row known, under a fresh id.
LEMMA AddPlayerRows ==
    ASSUME TypeInv, NEW p \in Workers, NEW id \in FreshPlayerIDs,
           NEW l \in LobbyIDs, NEW u \in Users,
           AddPlayerTx(p, id, l, u), UNCHANGED tables
    PROVE  NewRow /\ KnownLobbies' = KnownLobbies
<1> DEFINE new == [id |-> id, lobby_id |-> l, user_id |-> u, is_active |-> TRUE]
<1>1. /\ UNCHANGED <<users, lobbies, players>>
      /\ \A q \in Workers : /\ tx'[q].lobbies = tx[q].lobbies
                            /\ tx'[q].removed = tx[q].removed
      /\ tx'[p].added = tx[p].added \cup {new}
      /\ \A q \in Workers \ {p} : tx'[q].added = tx[q].added
    BY DEF AddPlayerTx, tables, TypeInv, TypeOK, RepositoryTypeOK, Writes
<1>2. new \in PlayerRow /\ new.id \notin UsedPlayerIDs
    BY DEF FreshPlayerIDs, PlayerRow
<1>3. KnownLobbies' = KnownLobbies
    BY <1>1 DEF KnownLobbies
<1> HIDE DEF new
<1>4. KnownRows' = KnownRows \cup {new}
    BY <1>1 DEF KnownRows
<1> QED
    BY <1>2, <1>3, <1>4 DEF NewRow

\* A DELETE locks rows of the table.
LEMMA DeletePlayerRows ==
    ASSUME TypeInv, NEW p \in Workers, NEW ids,
           DeletePlayerTx(p, ids), UNCHANGED tables
    PROVE  OldRows /\ KnownLobbies' = KnownLobbies
<1>1. /\ UNCHANGED <<users, lobbies, players>>
      /\ \A q \in Workers : /\ tx'[q].lobbies = tx[q].lobbies
                            /\ tx'[q].added = tx[q].added
      /\ tx'[p].removed = tx[p].removed \cup Surviving(ids)
      /\ \A q \in Workers \ {p} : tx'[q].removed = tx[q].removed
    BY DEF DeletePlayerTx, tables, TypeInv, TypeOK, RepositoryTypeOK, Writes
<1>2. KnownLobbies' = KnownLobbies
    BY <1>1 DEF KnownLobbies
<1>3. KnownRows' \subseteq KnownRows
    BY <1>1 DEF KnownRows, Surviving
<1> QED
    BY <1>2, <1>3 DEF OldRows, SameRow

\* An UPDATE adds new versions of rows of the table.
LEMMA UpdatePlayerRows ==
    ASSUME TypeInv, NEW p \in Workers, NEW ids, NEW active,
           UpdatePlayerActiveStatusTx(p, ids, active), UNCHANGED tables
    PROVE  OldRows /\ KnownLobbies' = KnownLobbies
<1> DEFINE new == {[row EXCEPT !.is_active = active] : row \in Surviving(ids)}
<1>1. /\ UNCHANGED <<users, lobbies, players>>
      /\ \A q \in Workers : tx'[q].lobbies = tx[q].lobbies
      /\ tx'[p].removed = tx[p].removed \cup Surviving(ids)
      /\ tx'[p].added = tx[p].added \cup new
      /\ \A q \in Workers \ {p} : /\ tx'[q].removed = tx[q].removed
                                  /\ tx'[q].added = tx[q].added
    BY DEF UpdatePlayerActiveStatusTx, tables, TypeInv, TypeOK, RepositoryTypeOK, Writes
<1>2. KnownLobbies' = KnownLobbies
    BY <1>1 DEF KnownLobbies
<1>3. \A row \in new : \E old \in players : SameRow(old, row)
    BY DEF Surviving, SameRow, TypeInv, TypeOK, RepositoryTypeOK, PlayerRow
<1> HIDE DEF new
<1>4. \A row \in KnownRows' : row \in KnownRows \/ row \in new
    BY <1>1 DEF KnownRows, Surviving
<1>5. players \subseteq KnownRows
    BY DEF KnownRows
<1>6. OldRows
    BY <1>3, <1>4, <1>5 DEF OldRows, SameRow
<1> QED
    BY <1>2, <1>6

-----------------------------------------------------------------------------
(* What the steps of a handler have in common.                             *)

\* A step of p leaves the other workers where they are, and lobbies stay.
LocalTo(p) ==
    /\ \A q \in Workers \ {p} : /\ pc'[q] = pc[q]
                                /\ req'[q] = req[q]
                                /\ loc'[q] = loc[q]
                                /\ tx'[q] = tx[q]
    /\ lobbies \subseteq lobbies'

\* A handler moves on or answers, and its transaction ends or continues.
Continues(p, S) ==
    /\ LocalTo(p)
    /\ pc[p] \in S
    /\ pc'[p] \in S \cup {"answered"}
    /\ req'[p] = req[p]

\* Going on to the next statement concerns the worker alone.
LEMMA AdvanceLocal ==
    ASSUME TypeInv, NEW p \in Workers, NEW here, NEW there, Advance(p, here, there)
    PROVE  /\ pc[p] = here /\ pc'[p] = there /\ UNCHANGED req
           /\ \A q \in Workers \ {p} : pc'[q] = pc[q]
BY DEF Advance, TypeInv, TypeOK

\* So does answering.
LEMMA ReplyLocal ==
    ASSUME TypeInv, NEW p \in Workers, NEW status, NEW body, Reply(p, status, body)
    PROVE  /\ pc'[p] = "answered" /\ UNCHANGED req /\ loc'[p] = NoLocals
           /\ \A q \in Workers \ {p} : pc'[q] = pc[q] /\ loc'[q] = loc[q]
BY DEF Reply, TypeInv, TypeOK

\* A commit ends the transaction of the worker and of no other.
LEMMA CommitLocal ==
    ASSUME TypeInv, NEW p \in Workers, CommitTx(p)
    PROVE  /\ \A q \in Workers \ {p} : tx'[q] = tx[q]
           /\ tx'[p] = NoWrites
           /\ lobbies \subseteq lobbies'
BY DEF CommitTx, TypeInv, TypeOK, RepositoryTypeOK

\* A refusal: the handler is done and its transaction is gone.
LEMMA RefuseLocal ==
    ASSUME TypeInv, NEW p \in Workers, NEW status, Refuse(p, status)
    PROVE  /\ LocalTo(p) /\ UNCHANGED tables /\ UNCHANGED req
           /\ pc'[p] = "answered"
           /\ tx'[p] = NoWrites
<1>1. Reply(p, status, None) /\ RollbackTx(p)
    BY DEF Refuse
<1>2. /\ UNCHANGED tables
      /\ tx'[p] = NoWrites
      /\ \A q \in Workers \ {p} : tx'[q] = tx[q]
    BY <1>1 DEF RollbackTx, TypeInv, TypeOK, RepositoryTypeOK
<1> QED
    BY <1>1, <1>2, ReplyLocal DEF LocalTo, tables

\* The statements of a create request lock no player row.
LEMMA CreateLocal ==
    ASSUME TypeInv, NEW p \in Workers, Create(p)
    PROVE  /\ Continues(p, CreatePCs)
           /\ tx'[p].removed \subseteq tx[p].removed
<1> USE DEF Continues, LocalTo, CreatePCs
<1>0. /\ loc \in [Workers -> Locals]
      /\ tx \in [Workers -> Writes]
    BY DEF TypeInv, TypeOK, RepositoryTypeOK
<1>1. CASE CreateUser(p)
    BY <1>0, <1>1, AdvanceLocal DEF CreateUser, CreateUserIfNotExistsTx, Writes, tables
<1>2. CASE DrawFreeCode(p)
    BY <1>0, <1>2, AdvanceLocal DEF DrawFreeCode, tables
<1>3. CASE DrawTakenCode(p)
    BY <1>0, <1>3, RefuseLocal DEF DrawTakenCode, NoWrites, tables
<1>4. CASE CreateLobby(p)
    BY <1>0, <1>4, AdvanceLocal, RefuseLocal DEF CreateLobby, CreateLobbyTx, Writes, NoWrites, tables
<1>5. CASE CreatePlayer(p)
    BY <1>0, <1>5, AdvanceLocal DEF CreatePlayer, AddPlayerTx, Writes, tables
<1>6. CASE CreateCommit(p)
    BY <1>6, ReplyLocal, CommitLocal DEF CreateCommit, NoWrites
<1> QED
    BY <1>1, <1>2, <1>3, <1>4, <1>5, <1>6 DEF Create

\* Nor do those of a join, which inserts no lobby either.
LEMMA JoinLocal ==
    ASSUME TypeInv, NEW p \in Workers, Join(p)
    PROVE  /\ Continues(p, JoinPCs)
           /\ tx'[p].removed \subseteq tx[p].removed
           /\ tx'[p].lobbies \subseteq tx[p].lobbies
<1> USE DEF Continues, LocalTo, JoinPCs
<1>0. /\ loc \in [Workers -> Locals]
      /\ tx \in [Workers -> Writes]
    BY DEF TypeInv, TypeOK, RepositoryTypeOK
<1>1. CASE JoinLookup(p)
    BY <1>0, <1>1, AdvanceLocal, RefuseLocal DEF JoinLookup, NoWrites, tables
<1>2. CASE JoinCount(p)
    BY <1>2, AdvanceLocal, RefuseLocal DEF JoinCount, NoWrites, tables
<1>3. CASE JoinMember(p)
    BY <1>3, AdvanceLocal, RefuseLocal DEF JoinMember, NoWrites, tables
<1>4. CASE JoinUser(p)
    BY <1>0, <1>4, AdvanceLocal DEF JoinUser, CreateUserIfNotExistsTx, Writes, tables
<1>5. CASE JoinPlayer(p)
    BY <1>0, <1>5, AdvanceLocal DEF JoinPlayer, AddPlayerTx, Writes, tables
<1>6. CASE JoinCommit(p)
    BY <1>6, AdvanceLocal, CommitLocal DEF JoinCommit, NoWrites
<1>7. CASE JoinDetail(p)
    BY <1>7, ReplyLocal DEF JoinDetail, tables
<1> QED
    BY <1>1, <1>2, <1>3, <1>4, <1>5, <1>6, <1>7 DEF Join

\* A kick inserts no lobby.
LEMMA KickLocal ==
    ASSUME TypeInv, NEW p \in Workers, Kick(p)
    PROVE  /\ Continues(p, KickPCs)
           /\ tx'[p].lobbies \subseteq tx[p].lobbies
<1> USE DEF Continues, LocalTo, KickPCs
<1>0. /\ loc \in [Workers -> Locals]
      /\ tx \in [Workers -> Writes]
    BY DEF TypeInv, TypeOK, RepositoryTypeOK
<1>1. CASE KickAuthorize(p)
    BY <1>1, AdvanceLocal, RefuseLocal DEF KickAuthorize, NoWrites, tables
<1>2. CASE KickLeader(p)
    BY <1>2, AdvanceLocal, RefuseLocal DEF KickLeader, NoWrites, tables
<1>3. CASE KickMember(p)
    BY <1>3, AdvanceLocal, RefuseLocal DEF KickMember, NoWrites, tables
<1>4. CASE KickScan(p)
    BY <1>0, <1>4, AdvanceLocal DEF KickScan, tables
<1>5. CASE KickDelete(p)
    BY <1>0, <1>5, AdvanceLocal DEF KickDelete, DeletePlayerTx, Writes, tables
<1>6. CASE KickCommit(p)
    BY <1>6, ReplyLocal, CommitLocal DEF KickCommit, NoWrites
<1> QED
    BY <1>1, <1>2, <1>3, <1>4, <1>5, <1>6 DEF Kick

\* A get writes nothing.
LEMMA GetLocal ==
    ASSUME TypeInv, NEW p \in Workers, Get(p)
    PROVE  /\ Continues(p, GetPCs)
           /\ tx'[p].removed \subseteq tx[p].removed
           /\ tx'[p].lobbies \subseteq tx[p].lobbies
<1> USE DEF Continues, LocalTo, GetPCs
<1>1. CASE GetAuthorize(p)
    BY <1>1, AdvanceLocal, RefuseLocal DEF GetAuthorize, NoWrites, tables
<1>2. CASE GetMember(p)
    BY <1>2, AdvanceLocal, RefuseLocal DEF GetMember, NoWrites, tables
<1>3. CASE GetDetail(p)
    BY <1>3, ReplyLocal DEF GetDetail, tables
<1> QED
    BY <1>1, <1>2, <1>3 DEF Get

\* An update of is_active inserts no lobby.
LEMMA UpdateLocal ==
    ASSUME TypeInv, NEW p \in Workers, Update(p)
    PROVE  /\ Continues(p, UpdatePCs)
           /\ tx'[p].lobbies \subseteq tx[p].lobbies
<1> USE DEF Continues, LocalTo, UpdatePCs
<1>0. /\ loc \in [Workers -> Locals]
      /\ tx \in [Workers -> Writes]
    BY DEF TypeInv, TypeOK, RepositoryTypeOK
<1>1. CASE UpdateLobby(p)
    BY <1>1, AdvanceLocal, RefuseLocal DEF UpdateLobby, NoWrites, tables
<1>2. CASE UpdateMember(p)
    BY <1>2, AdvanceLocal, RefuseLocal DEF UpdateMember, NoWrites, tables
<1>3. CASE UpdateScan(p)
    BY <1>0, <1>3, AdvanceLocal DEF UpdateScan, tables
<1>4. CASE UpdateWrite(p)
    BY <1>0, <1>4, AdvanceLocal, RefuseLocal
    DEF UpdateWrite, UpdatePlayerActiveStatusTx, Writes, NoWrites, tables
<1>5. CASE UpdateCommit(p)
    BY <1>5, ReplyLocal, CommitLocal DEF UpdateCommit, NoWrites
<1> QED
    BY <1>1, <1>2, <1>3, <1>4, <1>5 DEF Update

\* Between two requests a worker holds no transaction open.
LEMMA EndpointLocal ==
    ASSUME TypeInv, NEW p \in Workers,
           Receive(p) \/ ReceiveMalformed(p) \/ Deliver(p)
    PROVE  /\ LocalTo(p) /\ UNCHANGED <<tables, tx>>
           /\ pc[p] \in {"idle", "answered"}
           /\ pc'[p] \in {"idle", "answered", "create_user", "join_lookup",
                         "kick_authorize", "get_authorize", "update_lobby"}
<1>1. CASE Receive(p)
    <2>1. PICK r \in ValidRequests :
             /\ req' = [req EXCEPT ![p] = r]
             /\ pc' = [pc EXCEPT ![p] = Entry(r.op)]
        BY <1>1 DEF Receive
    <2>2. r.op \in {"create", "join", "kick", "get", "update"}
        BY DEF ValidRequests, CreateRequest, JoinRequest, KickRequest, GetRequest, UpdateRequest
    <2>3. Entry(r.op) \in {"create_user", "join_lookup", "kick_authorize",
                          "get_authorize", "update_lobby"}
        BY <2>2 DEF Entry
    <2> QED
        BY <1>1, <2>1, <2>3 DEF Receive, LocalTo, tables, TypeInv, TypeOK
<1>2. CASE ReceiveMalformed(p)
    BY <1>2 DEF ReceiveMalformed, LocalTo, tables, TypeInv, TypeOK
<1>3. CASE Deliver(p)
    BY <1>3 DEF Deliver, LocalTo, tables, TypeInv, TypeOK
<1> QED
    BY <1>1, <1>2, <1>3

\* A failure ends the request and its transaction.
LEMMA FaultLocal ==
    ASSUME TypeInv, NEW p \in Workers, DBFailure(p) \/ CommitUnacknowledged(p)
    PROVE  /\ LocalTo(p)
           /\ pc'[p] = "answered"
           /\ tx'[p] = NoWrites
<1>1. CASE DBFailure(p)
    BY <1>1, RefuseLocal DEF DBFailure
<1>2. CASE CommitUnacknowledged(p)
    BY <1>2, ReplyLocal, CommitLocal DEF CommitUnacknowledged, LocalTo
<1> QED
    BY <1>1, <1>2

-----------------------------------------------------------------------------
(* The conjuncts of LeaderInv.                                             *)

Endpoint(p) == Receive(p) \/ ReceiveMalformed(p) \/ Deliver(p)

Fault(p) == DBFailure(p) \/ CommitUnacknowledged(p)

Step(p) == Endpoint(p) \/ Handle(p) \/ Fault(p)

\* Every step of a worker is local to it.
LEMMA StepLocal ==
    ASSUME TypeInv, NEW p \in Workers, Step(p)
    PROVE  LocalTo(p)
BY EndpointLocal, CreateLocal, JoinLocal, KickLocal, GetLocal, UpdateLocal, FaultLocal
DEF Step, Endpoint, Handle, Fault, Continues

\* A refusal makes no row known.
LEMMA RefuseRows ==
    ASSUME TypeInv, NEW p \in Workers, NEW status, Refuse(p, status)
    PROVE  OldRows /\ KnownLobbies' \subseteq KnownLobbies
BY RollbackRows DEF Refuse

\* Rows become known one at a time, and lobbies under unknown ids.
LEMMA StepRows ==
    ASSUME TypeInv, LobbyIdentity, NEW p \in Workers, Step(p)
    PROVE  /\ OldRows \/ NewRow
           /\ LobbyIdentity'
<1>s. ASSUME KnownLobbies' \subseteq KnownLobbies PROVE LobbyIdentity'
    BY <1>s DEF LobbyIdentity
<1>u. /\ pc[p] \in CreatePCs \cup JoinPCs => req[p].user \in Users
      /\ pc[p] \in {"create_player", "create_commit"} \cup (JoinPCs \ {"join_lookup"})
           => loc[p].lobby \in LobbyIDs
    BY DEF TypeInv, Dispatched, Assigned, CreateRequest, JoinRequest
<1>1. CASE Endpoint(p)
    BY <1>1, <1>s, EndpointLocal, ReadRows DEF Endpoint
<1>2. CASE Create(p)
    <2>1. CASE CreateUser(p)
        BY <2>1, <1>s, CreateUserRows DEF CreateUser
    <2>2. CASE DrawFreeCode(p)
        BY <2>2, <1>s, ReadRows DEF DrawFreeCode
    <2>3. CASE DrawTakenCode(p)
        BY <2>3, <1>s, ReadRows, RefuseRows DEF DrawTakenCode
    <2>4. CASE CreateLobby(p)
        <3>1. CASE Refuse(p, 500)
            BY <3>1, <1>s, RefuseRows
        <3>2. CASE ~Refuse(p, 500)
            <4>1. PICK l \in FreshLobbyIDs : CreateLobbyTx(p, l, loc[p].code, req[p].user)
                BY <2>4, <3>2 DEF CreateLobby
            <4>2. UNCHANGED tables
                BY <2>4, <3>2 DEF CreateLobby
            <4>3. \A row \in KnownLobbies : row.id # l
                BY DEF FreshLobbyIDs
            <4>4. /\ OldRows
                  /\ KnownLobbies' = KnownLobbies \cup
                       {[id |-> l, join_code |-> loc[p].code,
                         leader_id |-> req[p].user, status |-> "waiting"]}
                BY <4>1, <4>2, CreateLobbyRows
            <4> QED
                BY <4>3, <4>4 DEF LobbyIdentity
        <3> QED
            BY <3>1, <3>2
    <2>5. CASE CreatePlayer(p)
        <3>1. req[p].user \in Users /\ loc[p].lobby \in LobbyIDs /\ UNCHANGED tables
            BY <2>5, <1>u DEF CreatePlayer, Advance, CreatePCs
        <3>2. PICK id \in FreshPlayerIDs : AddPlayerTx(p, id, loc[p].lobby, req[p].user)
            BY <2>5 DEF CreatePlayer
        <3> QED
            BY <3>1, <3>2, <1>s, AddPlayerRows
    <2>6. CASE CreateCommit(p)
        BY <2>6, <1>s, CommitRows DEF CreateCommit
    <2> QED
        BY <1>2, <2>1, <2>2, <2>3, <2>4, <2>5, <2>6 DEF Create
<1>3. CASE Join(p)
    <2>1. CASE JoinLookup(p) \/ JoinCount(p) \/ JoinMember(p) \/ JoinDetail(p)
        BY <2>1, <1>s, ReadRows, RefuseRows DEF JoinLookup, JoinCount, JoinMember, JoinDetail
    <2>2. CASE JoinUser(p)
        BY <2>2, <1>s, CreateUserRows DEF JoinUser
    <2>3. CASE JoinPlayer(p)
        <3>1. req[p].user \in Users /\ loc[p].lobby \in LobbyIDs /\ UNCHANGED tables
            BY <2>3, <1>u DEF JoinPlayer, Advance, JoinPCs
        <3>2. PICK id \in FreshPlayerIDs : AddPlayerTx(p, id, loc[p].lobby, req[p].user)
            BY <2>3 DEF JoinPlayer
        <3> QED
            BY <3>1, <3>2, <1>s, AddPlayerRows
    <2>4. CASE JoinCommit(p)
        BY <2>4, <1>s, CommitRows DEF JoinCommit
    <2> QED
        BY <1>3, <2>1, <2>2, <2>3, <2>4 DEF Join
<1>4. CASE Kick(p)
    <2>1. CASE KickAuthorize(p) \/ KickLeader(p) \/ KickMember(p) \/ KickScan(p)
        BY <2>1, <1>s, ReadRows, RefuseRows DEF KickAuthorize, KickLeader, KickMember, KickScan
    <2>2. CASE KickDelete(p)
        BY <2>2, <1>s, DeletePlayerRows DEF KickDelete
    <2>3. CASE KickCommit(p)
        BY <2>3, <1>s, CommitRows DEF KickCommit
    <2> QED
        BY <1>4, <2>1, <2>2, <2>3 DEF Kick
<1>5. CASE Get(p)
    BY <1>5, <1>s, ReadRows, RefuseRows DEF Get, GetAuthorize, GetMember, GetDetail
<1>6. CASE Update(p)
    <2>1. CASE UpdateLobby(p) \/ UpdateMember(p) \/ UpdateScan(p)
        BY <2>1, <1>s, ReadRows, RefuseRows DEF UpdateLobby, UpdateMember, UpdateScan
    <2>2. CASE UpdateWrite(p)
        BY <2>2, <1>s, UpdatePlayerRows, RefuseRows DEF UpdateWrite
    <2>3. CASE UpdateCommit(p)
        BY <2>3, <1>s, CommitRows DEF UpdateCommit
    <2> QED
        BY <1>6, <2>1, <2>2, <2>3 DEF Update
<1>7. CASE Fault(p)
    BY <1>7, <1>s, RefuseRows, CommitRows DEF Fault, DBFailure, CommitUnacknowledged
<1> QED
    BY <1>1, <1>2, <1>3, <1>4, <1>5, <1>6, <1>7 DEF Step, Handle

\* The id of a row determines its lobby and its user.
LEMMA StepRowIdentity ==
    ASSUME TypeInv, RowIdentity, OldRows \/ NewRow
    PROVE  RowIdentity'
<1>1. CASE OldRows
    BY <1>1 DEF OldRows, SameRow, RowIdentity
<1>2. CASE NewRow
    <2>1. PICK new : /\ new.id \notin UsedPlayerIDs
                     /\ KnownRows' = KnownRows \cup {new}
        BY <1>2 DEF NewRow
    <2>2. \A row \in KnownRows : row.id # new.id
        BY <2>1 DEF UsedPlayerIDs
    <2> QED
        BY <2>1, <2>2 DEF RowIdentity
<1> QED
    BY <1>1, <1>2

\* Lobbies are inserted by create requests and committed with their leader.
LEMMA StepPendingLobby ==
    ASSUME TypeInv, PendingLobby, NEW p \in Workers, Step(p)
    PROVE  PendingLobby'
<1> DEFINE Good(q, lobby) ==
        /\ pc[q] \in {"create_player", "create_commit"}
        /\ lobby.id = loc[q].lobby
        /\ lobby.leader_id = req[q].user
        /\ pc[q] = "create_commit" =>
             \E row \in tx[q].added : /\ row.lobby_id = lobby.id
                                      /\ row.user_id = lobby.leader_id
<1>0. \A q \in Workers : \A lobby \in tx[q].lobbies : Good(q, lobby)
    BY DEF PendingLobby
<1>1. SUFFICES ASSUME NEW lobby \in tx'[p].lobbies PROVE Good(p, lobby)'
    <2>1. LocalTo(p)
        BY StepLocal
    <2>2. \A q \in Workers \ {p} : \A lobby \in tx'[q].lobbies : Good(q, lobby)'
        BY <1>0, <2>1 DEF LocalTo
    <2> QED
        BY <1>1, <2>2 DEF PendingLobby
<1>2. ASSUME pc[p] \notin {"create_player", "create_commit"},
             tx'[p].lobbies \subseteq tx[p].lobbies
      PROVE  FALSE
    BY <1>0, <1>1, <1>2
<1>3. CASE Endpoint(p)
    BY <1>2, <1>3, EndpointLocal DEF Endpoint, tables
<1>4. CASE Create(p)
    <2>0. tx \in [Workers -> Writes] /\ loc \in [Workers -> Locals]
        BY DEF TypeInv, TypeOK, RepositoryTypeOK
    <2>1. CASE CreateUser(p)
        BY <1>2, <2>0, <2>1 DEF CreateUser, Advance, CreateUserIfNotExistsTx, Writes
    <2>2. CASE DrawFreeCode(p)
        BY <1>2, <2>2 DEF DrawFreeCode, Advance
    <2>3. CASE DrawTakenCode(p)
        BY <1>2, <2>3, RefuseLocal DEF DrawTakenCode, NoWrites
    <2>4. CASE CreateLobby(p)
        <3>1. CASE Refuse(p, 500)
            BY <1>1, <3>1, RefuseLocal DEF NoWrites
        <3>2. CASE ~Refuse(p, 500)
            <4>1. Advance(p, "create_lobby", "create_player")
                BY <2>4, <3>2 DEF CreateLobby
            <4>2. PICK l \in FreshLobbyIDs :
                     /\ CreateLobbyTx(p, l, loc[p].code, req[p].user)
                     /\ loc' = [loc EXCEPT ![p].lobby = l]
                BY <2>4, <3>2 DEF CreateLobby
            <4>3. tx[p].lobbies = {}
                BY <1>0, <4>1 DEF Advance
            <4>4. lobby.id = l /\ lobby.leader_id = req[p].user
                BY <1>1, <2>0, <4>2, <4>3 DEF CreateLobbyTx, Writes
            <4>5. loc'[p].lobby = l
                BY <2>0, <4>2 DEF Locals
            <4> QED
                BY <4>1, <4>4, <4>5, AdvanceLocal
        <3> QED
            BY <3>1, <3>2
    <2>5. CASE CreatePlayer(p)
        <3>1. /\ Advance(p, "create_player", "create_commit")
              /\ UNCHANGED loc
            BY <2>5 DEF CreatePlayer
        <3>2. PICK id \in FreshPlayerIDs : AddPlayerTx(p, id, loc[p].lobby, req[p].user)
            BY <2>5 DEF CreatePlayer
        <3> DEFINE new == [id |-> id, lobby_id |-> loc[p].lobby,
                           user_id |-> req[p].user, is_active |-> TRUE]
        <3>3. /\ tx'[p].lobbies = tx[p].lobbies
              /\ new \in tx'[p].added
            BY <2>0, <3>2 DEF AddPlayerTx, Writes
        <3>4. new.lobby_id = loc[p].lobby /\ new.user_id = req[p].user
            OBVIOUS
        <3> HIDE DEF new
        <3>5. Good(p, lobby)
            BY <1>0, <1>1, <3>3
        <3>6. pc'[p] = "create_commit" /\ req'[p] = req[p] /\ loc'[p] = loc[p]
            BY <3>1, AdvanceLocal
        <3> QED
            BY <3>3, <3>4, <3>5, <3>6
    <2>6. CASE CreateCommit(p)
        BY <1>1, <2>6, CommitLocal DEF CreateCommit, NoWrites
    <2> QED
        BY <1>4, <2>1, <2>2, <2>3, <2>4, <2>5, <2>6 DEF Create
<1>5. CASE Join(p)
    BY <1>2, <1>5, JoinLocal DEF Continues, JoinPCs
<1>6. CASE Kick(p)
    BY <1>2, <1>6, KickLocal DEF Continues, KickPCs
<1>7. CASE Get(p)
    BY <1>2, <1>7, GetLocal DEF Continues, GetPCs
<1>8. CASE Update(p)
    BY <1>2, <1>8, UpdateLocal DEF Continues, UpdatePCs
<1>9. CASE Fault(p)
    BY <1>1, <1>9, FaultLocal DEF Fault, NoWrites
<1> QED
    BY <1>3, <1>4, <1>5, <1>6, <1>7, <1>8, <1>9 DEF Step, Handle

\* A kick goes on only for the leader and against somebody else.
LEMMA StepKickAuthorized ==
    ASSUME TypeInv, KickAuthorized, NEW p \in Workers, Step(p)
    PROVE  KickAuthorized'
<1> DEFINE Good(q) ==
        pc[q] \in KickPCs \ {"kick_authorize"} =>
            Leader(q) /\ req[q].target # req[q].user
<1>0. \A q \in Workers : Good(q)
    BY DEF KickAuthorized
<1>1. LocalTo(p)
    BY StepLocal
<1>2. SUFFICES Good(p)'
    <2>1. \A q \in Workers \ {p} : Good(q)'
        BY <1>0, <1>1 DEF LocalTo, Leader, Leads
    <2> QED
        BY <1>2, <2>1 DEF KickAuthorized
<1>3. CASE Endpoint(p)
    BY <1>3, EndpointLocal DEF Endpoint, KickPCs
<1>4. CASE Create(p)
    BY <1>4, CreateLocal DEF Continues, CreatePCs, KickPCs
<1>5. CASE Join(p)
    BY <1>5, JoinLocal DEF Continues, JoinPCs, KickPCs
<1>6. CASE Kick(p)
    <2>1. CASE KickAuthorize(p)
        BY <2>1, AdvanceLocal, RefuseLocal
        DEF KickAuthorize, CannotKickSelf, Leader, Leads, KickPCs, tables
    <2>2. CASE ~KickAuthorize(p)
        <3>1. pc[p] \in KickPCs \ {"kick_authorize"}
            BY <1>6, <2>2
            DEF Kick, KickLeader, KickMember, KickScan, KickDelete, KickCommit,
                Advance, Refuse, KickPCs
        <3>2. Leader(p) /\ req[p].target # req[p].user
            BY <1>0, <3>1
        <3>3. req'[p] = req[p]
            BY <1>6, KickLocal DEF Continues
        <3> QED
            BY <1>1, <3>2, <3>3 DEF LocalTo, Leader, Leads
    <2> QED
        BY <2>1, <2>2
<1>7. CASE Get(p)
    BY <1>7, GetLocal DEF Continues, GetPCs, KickPCs
<1>8. CASE Update(p)
    BY <1>8, UpdateLocal DEF Continues, UpdatePCs, KickPCs
<1>9. CASE Fault(p)
    BY <1>9, FaultLocal DEF Fault, KickPCs
<1> QED
    BY <1>3, <1>4, <1>5, <1>6, <1>7, <1>8, <1>9 DEF Step, Handle

\* The ids a DELETE matched stay the ids of the target's rows, whatever rows
\* other requests insert or update before it acts.
LEMMA StepKickMatched ==
    ASSUME TypeInv, RowIdentity, KickMatched, NEW p \in Workers, Step(p),
           OldRows \/ NewRow
    PROVE  KickMatched'
<1> DEFINE Match(q, row) == /\ row.lobby_id = req[q].lobby_id
                            /\ row.user_id = req[q].target
           Good(q) == \A row \in KnownRows : row.id \in loc[q].rows => Match(q, row)
           At(q) == pc[q] \in {"kick_delete", "kick_commit"}
<1>0. \A q \in Workers : At(q) => Good(q)
    BY DEF KickMatched
<1>1. ASSUME NEW q \in Workers, Good(q), loc'[q].rows = loc[q].rows, req'[q] = req[q]
      PROVE  Good(q)'
    <2>1. CASE OldRows
        BY <1>1, <2>1 DEF OldRows, SameRow
    <2>2. CASE NewRow
        <3>1. PICK new : /\ new.id \notin UsedPlayerIDs
                         /\ KnownRows' = KnownRows \cup {new}
            BY <2>2 DEF NewRow
        <3>2. new.id \notin loc[q].rows
            BY <3>1 DEF UsedPlayerIDs
        <3> QED
            BY <1>1, <3>1, <3>2
    <2> QED
        BY <2>1, <2>2
<1>2. LocalTo(p)
    BY StepLocal
<1>3. SUFFICES ASSUME At(p)' PROVE Good(p)'
    <2>1. \A q \in Workers \ {p} : At(q)' => Good(q)'
        BY <1>0, <1>1, <1>2 DEF LocalTo
    <2> QED
        BY <1>3, <2>1 DEF KickMatched
<1>4. Kick(p)
    <2>1. pc'[p] \in KickPCs \ {"kick_authorize"}
        BY <1>3 DEF KickPCs
    <2> QED
        BY <2>1, EndpointLocal, CreateLocal, JoinLocal, GetLocal, UpdateLocal, FaultLocal
        DEF Step, Handle, Endpoint, Fault, Continues,
            CreatePCs, JoinPCs, KickPCs, GetPCs, UpdatePCs
<1>5. CASE KickScan(p)
    <2>1. /\ UNCHANGED <<players, tx>>
          /\ req' = req
          /\ loc'[p].rows = MatchUser(req[p].lobby_id, req[p].target)
        BY <1>5 DEF KickScan, Advance, tables, TypeInv, TypeOK, Locals
    <2>2. \A row \in KnownRows : row.id \in loc'[p].rows => Match(p, row)
        BY <2>1 DEF MatchUser, PlayersOf, RowIdentity, KnownRows
    <2> QED
        BY <2>1, <2>2 DEF KnownRows
<1>6. CASE KickDelete(p)
    <2>1. At(p) /\ req' = req /\ loc' = loc
        BY <1>6 DEF KickDelete, Advance
    <2> QED
        BY <1>0, <1>1, <2>1
<1>7. CASE KickAuthorize(p) \/ KickLeader(p) \/ KickMember(p) \/ KickCommit(p)
    BY <1>3, <1>7, AdvanceLocal, RefuseLocal, ReplyLocal
    DEF KickAuthorize, KickLeader, KickMember, KickCommit
<1> QED
    BY <1>4, <1>5, <1>6, <1>7 DEF Kick

\* What a transaction removes is what its kick matched, or comes back.
LEMMA StepPendingRemoval ==
    ASSUME TypeInv, PendingRemoval, NEW p \in Workers, Step(p)
    PROVE  PendingRemoval'
<1> DEFINE Good(q, row) ==
        \/ pc[q] = "kick_commit" /\ row.id \in loc[q].rows
        \/ /\ pc[q] = "update_commit"
           /\ \E new \in tx[q].added : /\ new.id = row.id
                                       /\ new.lobby_id = row.lobby_id
                                       /\ new.user_id = row.user_id
<1>0. \A q \in Workers : \A row \in tx[q].removed : Good(q, row)
    BY DEF PendingRemoval
<1>1. SUFFICES ASSUME NEW row \in tx'[p].removed PROVE Good(p, row)'
    <2>1. LocalTo(p)
        BY StepLocal
    <2>2. \A q \in Workers \ {p} : \A row \in tx'[q].removed : Good(q, row)'
        BY <1>0, <2>1 DEF LocalTo
    <2> QED
        BY <1>1, <2>2 DEF PendingRemoval
<1>2. ASSUME pc[p] \notin {"kick_commit", "update_commit"},
             tx'[p].removed \subseteq tx[p].removed
      PROVE  FALSE
    BY <1>0, <1>1, <1>2
<1>t. tx \in [Workers -> Writes]
    BY DEF TypeInv, TypeOK, RepositoryTypeOK
<1>3. CASE Endpoint(p)
    BY <1>2, <1>3, EndpointLocal DEF Endpoint, tables
<1>4. CASE Create(p)
    BY <1>2, <1>4, CreateLocal DEF Continues, CreatePCs
<1>5. CASE Join(p)
    BY <1>2, <1>5, JoinLocal DEF Continues, JoinPCs
<1>6. CASE Kick(p)
    <2>1. CASE KickAuthorize(p) \/ KickLeader(p) \/ KickMember(p) \/ KickScan(p)
        BY <1>2, <2>1, RefuseLocal
        DEF KickAuthorize, KickLeader, KickMember, KickScan, Advance, NoWrites
    <2>2. CASE KickDelete(p)
        <3>1. /\ Advance(p, "kick_delete", "kick_commit")
              /\ DeletePlayerTx(p, loc[p].rows)
              /\ UNCHANGED loc
            BY <2>2 DEF KickDelete
        <3>2. tx[p].removed = {}
            BY <1>0, <3>1 DEF Advance
        <3>3. row \in Surviving(loc[p].rows)
            BY <1>1, <1>t, <3>1, <3>2 DEF DeletePlayerTx, Writes
        <3> QED
            BY <3>1, <3>3, AdvanceLocal DEF Surviving
    <2>3. CASE KickCommit(p)
        BY <1>1, <2>3, CommitLocal DEF KickCommit, NoWrites
    <2> QED
        BY <1>6, <2>1, <2>2, <2>3 DEF Kick
<1>7. CASE Get(p)
    BY <1>2, <1>7, GetLocal DEF Continues, GetPCs
<1>8. CASE Update(p)
    <2>1. CASE UpdateLobby(p) \/ UpdateMember(p) \/ UpdateScan(p)
        BY <1>2, <2>1, RefuseLocal
        DEF UpdateLobby, UpdateMember, UpdateScan, Advance, NoWrites
    <2>2. CASE UpdateWrite(p)
        <3>1. CASE Refuse(p, 404)
            BY <1>1, <3>1, RefuseLocal DEF NoWrites
        <3>2. CASE ~Refuse(p, 404)
            <4> DEFINE active == req[p].is_active
                       new == {[r EXCEPT !.is_active = active] : r \in Surviving(loc[p].rows)}
            <4>1. /\ Advance(p, "update_write", "update_commit")
                  /\ UpdatePlayerActiveStatusTx(p, loc[p].rows, active)
                BY <2>2, <3>2 DEF UpdateWrite
            <4>2. tx[p].removed = {}
                BY <1>0, <4>1 DEF Advance
            <4>3. tx'[p].removed = Surviving(loc[p].rows) /\ new \subseteq tx'[p].added
                BY <1>t, <4>1, <4>2 DEF UpdatePlayerActiveStatusTx, Writes
            <4>4. row \in Surviving(loc[p].rows) /\ row \in PlayerRow
                <5>1. row \in Surviving(loc[p].rows)
                    BY <1>1, <4>3
                <5> QED
                    BY <5>1 DEF Surviving, TypeInv, TypeOK, RepositoryTypeOK
            <4>5. /\ [row EXCEPT !.is_active = active] \in tx'[p].added
                  /\ [row EXCEPT !.is_active = active].id = row.id
                  /\ [row EXCEPT !.is_active = active].lobby_id = row.lobby_id
                  /\ [row EXCEPT !.is_active = active].user_id = row.user_id
                BY <4>3, <4>4 DEF PlayerRow
            <4> QED
                BY <4>1, <4>5, AdvanceLocal
        <3> QED
            BY <3>1, <3>2
    <2>3. CASE UpdateCommit(p)
        BY <1>1, <2>3, CommitLocal DEF UpdateCommit, NoWrites
    <2> QED
        BY <1>8, <2>1, <2>2, <2>3 DEF Update
<1>9. CASE Fault(p)
    BY <1>1, <1>9, FaultLocal DEF Fault, NoWrites
<1> QED
    BY <1>3, <1>4, <1>5, <1>6, <1>7, <1>8, <1>9 DEF Step, Handle

\* Only a commit changes the tables.
LEMMA StepTables ==
    ASSUME TypeInv, NEW p \in Workers, Step(p)
    PROVE  \/ UNCHANGED <<lobbies, players>>
           \/ /\ CommitTx(p)
              /\ pc[p] \in {"create_commit", "join_commit", "kick_commit", "update_commit"}
<1> USE DEF tables
<1>1. CASE Endpoint(p)
    BY <1>1, EndpointLocal DEF Endpoint
<1>2. CASE Create(p)
    BY <1>2, RefuseLocal
    DEF Create, CreateUser, DrawFreeCode, DrawTakenCode, CreateLobby, CreatePlayer, CreateCommit
<1>3. CASE Join(p)
    BY <1>3, RefuseLocal
    DEF Join, JoinLookup, JoinCount, JoinMember, JoinUser, JoinPlayer, JoinCommit,
        JoinDetail, Advance
<1>4. CASE Kick(p)
    BY <1>4, RefuseLocal
    DEF Kick, KickAuthorize, KickLeader, KickMember, KickScan, KickDelete, KickCommit
<1>5. CASE Get(p)
    BY <1>5, RefuseLocal DEF Get, GetAuthorize, GetMember, GetDetail
<1>6. CASE Update(p)
    BY <1>6, RefuseLocal
    DEF Update, UpdateLobby, UpdateMember, UpdateScan, UpdateWrite, UpdateCommit
<1>7. CASE Fault(p)
    BY <1>7, RefuseLocal DEF Fault, DBFailure, CommitUnacknowledged
<1> QED
    BY <1>1, <1>2, <1>3, <1>4, <1>5, <1>6, <1>7 DEF Step, Handle

\* A commit that takes the leader's row away puts another in its place.
LEMMA StepLeaderIsMember ==
    ASSUME LeaderInv, NEW p \in Workers, Step(p)
    PROVE  LeaderIsMember'
<1>1. CASE UNCHANGED <<lobbies, players>>
    BY <1>1 DEF LeaderInv, LeaderIsMember, IsMember, PlayersOf
<1>2. CASE /\ CommitTx(p)
           /\ pc[p] \in {"create_commit", "join_commit", "kick_commit", "update_commit"}
    <2> DEFINE Has(lobby, row) == /\ row.lobby_id = lobby.id
                                  /\ row.user_id = lobby.leader_id
    <2>1. /\ lobbies' = lobbies \cup tx[p].lobbies
          /\ players' = (players \ tx[p].removed) \cup tx[p].added
        BY <1>2 DEF CommitTx
    <2>2. SUFFICES ASSUME NEW lobby \in lobbies'
                   PROVE  \E row \in players' : Has(lobby, row)
        BY <2>2 DEF LeaderIsMember, IsMember, PlayersOf
    <2>3. CASE lobby \in tx[p].lobbies
        BY <1>2, <2>1, <2>3 DEF LeaderInv, PendingLobby
    <2>4. CASE lobby \in lobbies
        <3>1. PICK row \in players : Has(lobby, row)
            BY <2>4 DEF LeaderInv, LeaderIsMember, IsMember, PlayersOf
        <3>2. CASE row \notin tx[p].removed
            BY <2>1, <3>1, <3>2
        <3>3. CASE row \in tx[p].removed /\ pc[p] = "update_commit"
            BY <2>1, <3>1, <3>3 DEF LeaderInv, PendingRemoval
        <3>4. CASE row \in tx[p].removed /\ pc[p] # "update_commit"
            <4>1. pc[p] = "kick_commit" /\ row.id \in loc[p].rows
                BY <3>4 DEF LeaderInv, PendingRemoval
            <4>2. row.lobby_id = req[p].lobby_id /\ row.user_id = req[p].target
                BY <4>1 DEF LeaderInv, KickMatched, KnownRows
            <4>3. /\ \E l \in lobbies : l.id = req[p].lobby_id /\ l.leader_id = req[p].user
                  /\ req[p].target # req[p].user
                BY <4>1 DEF LeaderInv, KickAuthorized, KickPCs, Leader, Leads
            <4>4. lobby.leader_id = req[p].user
                BY <2>4, <3>1, <4>2, <4>3 DEF LeaderInv, LobbyIdentity, KnownLobbies
            <4> QED
                BY <3>1, <4>2, <4>3, <4>4
        <3> QED
            BY <3>2, <3>3, <3>4
    <2> QED
        BY <2>1, <2>2, <2>3, <2>4
<1> QED
    BY <1>1, <1>2, StepTables DEF LeaderInv

-----------------------------------------------------------------------------
(* LeaderInv is inductive.                                                 *)

\* No lobby, no row, no request: LeaderInv holds at the start.
LEMMA InitLeader == Init => LeaderInv
<1> SUFFICES ASSUME Init PROVE LeaderInv
    OBVIOUS
<1>1. /\ lobbies = {} /\ players = {}
      /\ \A q \in Workers : tx[q] = NoWrites /\ pc[q] = "idle"
    BY DEF Init, RepositoryInit
<1>2. KnownRows = {} /\ KnownLobbies = {}
    BY <1>1 DEF KnownRows, KnownLobbies, NoWrites
<1>3. RowIdentity /\ LobbyIdentity /\ LeaderIsMember
    BY <1>1, <1>2 DEF RowIdentity, LobbyIdentity, LeaderIsMember
<1>4. PendingLobby /\ PendingRemoval
    BY <1>1 DEF PendingLobby, PendingRemoval, NoWrites
<1>5. KickAuthorized /\ KickMatched
    BY <1>1 DEF KickAuthorized, KickMatched, KickPCs
<1> QED
    BY <1>3, <1>4, <1>5, InitType DEF LeaderInv

\* Every step of a worker preserves LeaderInv.
LEMMA StepLeader ==
    ASSUME LeaderInv, NEW p \in Workers, Step(p), TypeInv'
    PROVE  LeaderInv'
BY StepRows, StepRowIdentity, StepPendingLobby, StepKickAuthorized, StepKickMatched,
   StepPendingRemoval, StepLeaderIsMember
DEF LeaderInv

\* A crash forgets every request and undoes every open transaction.
LEMMA CrashLeader ==
    ASSUME LeaderInv, Crash, TypeInv'
    PROVE  LeaderInv'
<1>1. /\ UNCHANGED <<users, lobbies, players>>
      /\ \A q \in Workers : tx'[q] = NoWrites /\ pc'[q] = "idle"
    BY DEF Crash, tables
<1>2. KnownRows' \subseteq KnownRows /\ KnownLobbies' \subseteq KnownLobbies
    BY <1>1 DEF KnownRows, KnownLobbies, NoWrites
<1>3. RowIdentity' /\ LobbyIdentity'
    BY <1>2 DEF LeaderInv, RowIdentity, LobbyIdentity
<1>4. LeaderIsMember'
    BY <1>1 DEF LeaderInv, LeaderIsMember, IsMember, PlayersOf
<1>5. PendingLobby' /\ PendingRemoval'
    BY <1>1 DEF PendingLobby, PendingRemoval, NoWrites
<1>6. KickAuthorized' /\ KickMatched'
    BY <1>1 DEF KickAuthorized, KickMatched, KickPCs
<1> QED
    BY <1>3, <1>4, <1>5, <1>6 DEF LeaderInv

\* So does every step.
LEMMA NextLeader == LeaderInv /\ [Next]_vars => LeaderInv'
<1> SUFFICES ASSUME LeaderInv, [Next]_vars PROVE LeaderInv'
    OBVIOUS
<1>1. TypeInv'
    BY NextType DEF LeaderInv
<1>2. CASE UNCHANGED vars
    <2>1. UNCHANGED <<users, lobbies, players, tx, pc, req, loc>>
        BY <1>2 DEF vars
    <2>2. KnownRows' = KnownRows /\ KnownLobbies' = KnownLobbies
        BY <2>1 DEF KnownRows, KnownLobbies
    <2>3. RowIdentity' /\ LobbyIdentity' /\ LeaderIsMember'
        BY <2>1, <2>2
        DEF LeaderInv, RowIdentity, LobbyIdentity, LeaderIsMember, IsMember, PlayersOf
    <2>4. PendingLobby' /\ PendingRemoval'
        BY <2>1 DEF LeaderInv, PendingLobby, PendingRemoval
    <2>5. KickAuthorized' /\ KickMatched'
        BY <2>1, <2>2 DEF LeaderInv, KickAuthorized, KickMatched, Leader, Leads
    <2> QED
        BY <1>1, <2>3, <2>4, <2>5 DEF LeaderInv
<1>3. CASE Crash
    BY <1>1, <1>3, CrashLeader
<1>4. ASSUME NEW p \in Workers, Step(p) PROVE LeaderInv'
    BY <1>1, <1>4, StepLeader
<1> QED
    BY <1>2, <1>3, <1>4 DEF Next, Step, Endpoint, Fault

\* Whatever the interleaving, the failures and the number of requests at a
\* time, LeaderInv holds ...
THEOREM LeaderInvariant == Spec => []LeaderInv
BY InitLeader, NextLeader, PTL DEF Spec

\* ... and so no lobby is ever left without its leader's player row.
THEOREM LeaderStays == Spec => []LeaderIsMember
BY LeaderInvariant, PTL DEF LeaderInv

=============================================================================
