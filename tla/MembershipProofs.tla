-------------------------- MODULE MembershipProofs --------------------------
(***************************************************************************)
(* LobbyService implements LobbyMembership, for every value of the         *)
(* constants: each commit is one step of the abstract specification, and   *)
(* nothing else changes the committed lobbies and players.                 *)
(***************************************************************************)
EXTENDS LobbySafetyProofs, LobbyRefinement

-----------------------------------------------------------------------------
(* The kinds of steps.                                                     *)

CommitPCs == {"create_commit", "join_commit", "kick_commit", "update_commit"}

\* The step writes nothing, or discards what was written.
Quiet(p) ==
    /\ UNCHANGED <<lobbies, players>>
    /\ pc'[p] \notin WritingPCs
    /\ \/ tx'[p] = NoWrites
       \/ /\ pc[p] \notin WritingPCs
          /\ tx'[p].lobbies = tx[p].lobbies
          /\ tx'[p].added = tx[p].added
          /\ tx'[p].removed = tx[p].removed
    /\ pc'[p] = "update_write" => UpdateScan(p)
    /\ pc'[p] = "kick_delete" => KickScan(p)

Commits(p) == /\ CommitTx(p)
              /\ pc[p] \in CommitPCs
              /\ pc'[p] \in {"answered", "join_detail"}

\* The statements that write rows of lobbies and players.
InsertsLobby(p) == CreateLobby(p) /\ pc'[p] = "create_player"
InsertsSeat(p) == CreatePlayer(p) \/ JoinPlayer(p)
RewritesSeat(p) == UpdateWrite(p) /\ pc'[p] = "update_commit"

Writing(p) == InsertsLobby(p) \/ InsertsSeat(p) \/ KickDelete(p) \/ RewritesSeat(p)

\* A refusal discards what was written.
LEMMA RefuseQuiet ==
    ASSUME TypeInv, NEW p \in Workers, NEW status, Refuse(p, status)
    PROVE  Quiet(p)
BY RefuseLocal DEF Quiet, WritingPCs, InsertPCs, tables

\* A statement that only reads goes on to another that writes no rows.
LEMMA ReadQuiet ==
    ASSUME TypeInv, NEW p \in Workers, UNCHANGED <<tables, tx>>,
           pc[p] \notin WritingPCs,
           pc'[p] \notin WritingPCs \cup {"update_write", "kick_delete"}
    PROVE  Quiet(p)
BY DEF Quiet, tables

\* Neither does the insert of a user write rows of lobbies or players.
LEMMA CreateUserQuiet ==
    ASSUME TypeInv, NEW p \in Workers, CreateUser(p) \/ JoinUser(p)
    PROVE  Quiet(p)
<1>1. /\ UNCHANGED <<lobbies, players>>
      /\ tx'[p].lobbies = tx[p].lobbies
      /\ tx'[p].added = tx[p].added
      /\ tx'[p].removed = tx[p].removed
    BY DEF CreateUser, JoinUser, CreateUserIfNotExistsTx, tables, TypeInv, TypeOK,
           RepositoryTypeOK, Writes
<1>2. pc[p] \notin WritingPCs /\ pc'[p] \in {"create_code", "join_player"}
    BY AdvanceLocal DEF CreateUser, JoinUser, WritingPCs, InsertPCs
<1> QED
    BY <1>1, <1>2 DEF Quiet, WritingPCs, InsertPCs

\* Every step of a worker is of one of these kinds.
LEMMA StepKinds ==
    ASSUME TypeInv, NEW p \in Workers, Step(p)
    PROVE  Quiet(p) \/ Commits(p) \/ Writing(p)
<1> USE DEF WritingPCs, InsertPCs
<1>1. CASE Endpoint(p)
    BY <1>1, EndpointLocal, ReadQuiet DEF Endpoint
<1>2. CASE Create(p)
    <2>1. CASE CreateUser(p)
        BY <2>1, CreateUserQuiet
    <2>2. CASE DrawFreeCode(p)
        BY <2>2, AdvanceLocal, ReadQuiet DEF DrawFreeCode
    <2>3. CASE DrawTakenCode(p)
        BY <2>3, RefuseQuiet, ReadQuiet DEF DrawTakenCode
    <2>4. CASE CreateLobby(p)
        BY <2>4, RefuseQuiet, AdvanceLocal DEF CreateLobby, Writing, InsertsLobby
    <2>5. CASE CreatePlayer(p)
        BY <2>5 DEF Writing, InsertsSeat
    <2>6. CASE CreateCommit(p)
        BY <2>6, ReplyLocal DEF CreateCommit, Commits, CommitPCs
    <2> QED
        BY <1>2, <2>1, <2>2, <2>3, <2>4, <2>5, <2>6 DEF Create
<1>3. CASE Join(p)
    <2>1. CASE JoinLookup(p) \/ JoinCount(p) \/ JoinMember(p)
        BY <2>1, RefuseQuiet, AdvanceLocal, ReadQuiet DEF JoinLookup, JoinCount, JoinMember
    <2>2. CASE JoinUser(p)
        BY <2>2, CreateUserQuiet
    <2>3. CASE JoinPlayer(p)
        BY <2>3 DEF Writing, InsertsSeat
    <2>4. CASE JoinCommit(p)
        BY <2>4, AdvanceLocal DEF JoinCommit, Commits, CommitPCs
    <2>5. CASE JoinDetail(p)
        BY <2>5, ReplyLocal, ReadQuiet DEF JoinDetail
    <2> QED
        BY <1>3, <2>1, <2>2, <2>3, <2>4, <2>5 DEF Join
<1>4. CASE Kick(p)
    <2>1. CASE KickAuthorize(p) \/ KickLeader(p) \/ KickMember(p)
        BY <2>1, RefuseQuiet, AdvanceLocal, ReadQuiet
        DEF KickAuthorize, KickLeader, KickMember
    <2>2. CASE KickScan(p)
        BY <2>2, AdvanceLocal DEF KickScan, Quiet, tables
    <2>3. CASE KickDelete(p)
        BY <2>3 DEF Writing
    <2>4. CASE KickCommit(p)
        BY <2>4, ReplyLocal DEF KickCommit, Commits, CommitPCs
    <2> QED
        BY <1>4, <2>1, <2>2, <2>3, <2>4 DEF Kick
<1>5. CASE Get(p)
    <2>1. CASE GetAuthorize(p) \/ GetMember(p)
        BY <2>1, RefuseQuiet, AdvanceLocal, ReadQuiet DEF GetAuthorize, GetMember
    <2>2. CASE GetDetail(p)
        BY <2>2, ReplyLocal, ReadQuiet DEF GetDetail
    <2> QED
        BY <1>5, <2>1, <2>2 DEF Get
<1>6. CASE Update(p)
    <2>1. CASE UpdateLobby(p) \/ UpdateMember(p)
        BY <2>1, RefuseQuiet, AdvanceLocal, ReadQuiet DEF UpdateLobby, UpdateMember
    <2>2. CASE UpdateScan(p)
        BY <2>2, AdvanceLocal DEF UpdateScan, Quiet, tables
    <2>3. CASE UpdateWrite(p)
        BY <2>3, RefuseQuiet, AdvanceLocal DEF UpdateWrite, Writing, RewritesSeat
    <2>4. CASE UpdateCommit(p)
        BY <2>4, ReplyLocal DEF UpdateCommit, Commits, CommitPCs
    <2> QED
        BY <1>6, <2>1, <2>2, <2>3, <2>4 DEF Update
<1>7. CASE Fault(p)
    BY <1>7, RefuseQuiet, ReplyLocal DEF Fault, DBFailure, CommitUnacknowledged, Commits, CommitPCs
<1> QED
    BY <1>1, <1>2, <1>3, <1>4, <1>5, <1>6, <1>7 DEF Step, Handle

\* The tables change at commits only.
LEMMA StepCommits ==
    ASSUME TypeInv, NEW p \in Workers, Step(p), ~UNCHANGED <<lobbies, players>>
    PROVE  Commits(p)
<1>1. pc[p] \in CommitPCs
    BY StepTables DEF CommitPCs
<1>2. ~Quiet(p)
    BY DEF Quiet
<1>3. ~Writing(p)
    BY <1>1
    DEF CommitPCs, Writing, InsertsLobby, InsertsSeat, RewritesSeat, CreateLobby,
        CreatePlayer, JoinPlayer, KickDelete, UpdateWrite, Advance, Refuse, Reply
<1> QED
    BY <1>2, <1>3, StepKinds

-----------------------------------------------------------------------------
(* MembershipInv is inductive.                                             *)

\* What MembershipInv adds to SafetyInv.
ChangesInv == OneChange /\ RowsLocked /\ SeatsUnique /\ LobbiesUnique

\* A step of p leaves the changes of the others as they are.
LEMMA Elsewhere ==
    ASSUME NEW p \in Workers, LocalTo(p), NEW q \in Workers \ {p}
    PROVE  /\ ChangeOf(q) => ChangeOf(q)'
           /\ Inserted(q)' = Inserted(q)
<1>1. pc'[q] = pc[q] /\ req'[q] = req[q] /\ loc'[q] = loc[q] /\ tx'[q] = tx[q]
    BY DEF LocalTo
<1>2. Inserted(q)' = Inserted(q)
    BY <1>1 DEF Inserted
<1>3. ChangeOf(q) => ChangeOf(q)'
    BY <1>1
    DEF ChangeOf, NoRows, Creates, Inserts, Rewrites, NewLobby, NewSeat
<1> QED
    BY <1>2, <1>3

\* A transaction that holds no rows conflicts with nobody.
LEMMA EmptyChange ==
    ASSUME ChangesInv, TypeInv, NEW p \in Workers, LocalTo(p),
           UNCHANGED <<lobbies, players>>, NoRows(p)', ChangeOf(p)'
    PROVE  ChangesInv'
<1>0. \A q \in Workers \ {p} : tx'[q] = tx[q]
    BY DEF LocalTo
<1>1. OneChange'
    BY Elsewhere DEF ChangesInv, OneChange
<1>2. RowsLocked'
    BY <1>0 DEF ChangesInv, RowsLocked, Others, NoRows
<1>3. SeatsUnique'
    <2>1. Inserted(p)' = {}
        BY DEF Inserted, NoRows
    <2> QED
        BY <2>1, Elsewhere DEF ChangesInv, SeatsUnique, Others
<1>4. LobbiesUnique'
    BY <1>0 DEF ChangesInv, LobbiesUnique, Others, NoRows
<1> QED
    BY <1>1, <1>2, <1>3, <1>4 DEF ChangesInv

\* Steps that write no rows.
LEMMA QuietChanges ==
    ASSUME ChangesInv, TypeInv, NEW p \in Workers, LocalTo(p), Quiet(p)
    PROVE  ChangesInv'
<1>1. NoRows(p)'
    BY DEF Quiet, ChangesInv, OneChange, ChangeOf, NoRows, NoWrites
<1>2. ASSUME pc'[p] = "update_write" PROVE loc'[p].rows \subseteq {req'[p].player_id}
    <2>1. UpdateScan(p)
        BY <1>2 DEF Quiet
    <2>2. loc'[p].rows = MatchID(req[p].lobby_id, req[p].player_id) /\ UNCHANGED req
        BY <2>1 DEF UpdateScan, Advance, TypeInv, TypeOK, Locals
    <2> QED
        BY <2>2 DEF MatchID, PlayersOf
<1>3. pc'[p] \notin WritingPCs
    BY DEF Quiet
<1>4. ChangeOf(p)'
    BY <1>1, <1>2, <1>3 DEF ChangeOf, WritingPCs, InsertPCs
<1> QED
    BY <1>1, <1>4, EmptyChange DEF Quiet

\* CreateLobby.
LEMMA InsertsLobbyChanges ==
    ASSUME ChangesInv, TypeInv, NEW p \in Workers, LocalTo(p), InsertsLobby(p)
    PROVE  ChangesInv'
<1>0. \A q \in Workers \ {p} : tx'[q] = tx[q]
    BY DEF LocalTo
<1>1. /\ pc[p] = "create_lobby" /\ pc'[p] = "create_player"
      /\ UNCHANGED <<lobbies, players, req>>
    BY RefuseLocal DEF InsertsLobby, CreateLobby, Advance, tables
<1>2. PICK l \in FreshLobbyIDs :
         /\ CreateLobbyTx(p, l, loc[p].code, req[p].user)
         /\ loc' = [loc EXCEPT ![p].lobby = l]
    BY <1>1, RefuseLocal DEF InsertsLobby, CreateLobby
<1>3. NoRows(p)
    BY <1>1 DEF ChangesInv, OneChange, ChangeOf, WritingPCs, InsertPCs
<1>4. loc'[p].lobby = l /\ loc'[p].code = loc[p].code
    BY <1>2 DEF TypeInv, TypeOK, Locals
<1>5. /\ tx'[p].lobbies = tx[p].lobbies \cup
             {[id |-> l, join_code |-> loc[p].code, leader_id |-> req[p].user,
               status |-> "waiting"]}
      /\ tx'[p].added = tx[p].added
      /\ tx'[p].removed = tx[p].removed
    BY <1>2 DEF CreateLobbyTx, TypeInv, TypeOK, RepositoryTypeOK, Writes
<1>6. /\ tx'[p].lobbies = {NewLobby(p)'}
      /\ tx'[p].added = {} /\ tx'[p].removed = {}
    BY <1>1, <1>3, <1>4, <1>5 DEF NoRows, NewLobby
<1>7. \A row \in KnownLobbies : row.id # NewLobby(p)'.id
    BY <1>4 DEF FreshLobbyIDs, NewLobby
<1>8. OneChange'
    <2>1. ChangeOf(p)'
        BY <1>1, <1>6 DEF ChangeOf, Creates, WritingPCs, InsertPCs
    <2> QED
        BY <2>1, Elsewhere DEF ChangesInv, OneChange
<1>9. RowsLocked'
    BY <1>0, <1>1, <1>6 DEF ChangesInv, RowsLocked, Others
<1>10. SeatsUnique'
    <2>1. Inserted(p)' = {}
        BY <1>1 DEF Inserted, InsertPCs
    <2> QED
        BY <1>1, <2>1, Elsewhere DEF ChangesInv, SeatsUnique, Others
<1>11. LobbiesUnique'
    <2>1. /\ NewLobby(p)' \notin lobbies
          /\ \A q \in Workers : NewLobby(p)' \notin tx[q].lobbies
        BY <1>7 DEF KnownLobbies
    <2> HIDE DEF NewLobby
    <2> QED
        BY <1>0, <1>1, <1>6, <2>1 DEF ChangesInv, LobbiesUnique, Others
<1> QED
    BY <1>8, <1>9, <1>10, <1>11 DEF ChangesInv

\* CreatePlayer and JoinPlayer.
LEMMA InsertsSeatChanges ==
    ASSUME ChangesInv, TypeInv, NEW p \in Workers, LocalTo(p), InsertsSeat(p)
    PROVE  ChangesInv'
<1>0. \A q \in Workers \ {p} : tx'[q] = tx[q]
    BY DEF LocalTo
<1>1. /\ \/ pc[p] = "create_player" /\ pc'[p] = "create_commit"
         \/ pc[p] = "join_player" /\ pc'[p] = "join_commit"
      /\ UNCHANGED <<lobbies, players, req, loc>>
    BY AdvanceLocal DEF InsertsSeat, CreatePlayer, JoinPlayer, Advance, tables
<1>2. PICK id \in FreshPlayerIDs : AddPlayerTx(p, id, loc[p].lobby, req[p].user)
    BY DEF InsertsSeat, CreatePlayer, JoinPlayer
<1>3. ChangeOf(p)
    BY DEF ChangesInv, OneChange
<1>4. tx[p].added = {} /\ tx[p].removed = {}
    BY <1>1, <1>3 DEF ChangeOf, NoRows, Creates, WritingPCs, InsertPCs
<1>5. /\ tx'[p].added = tx[p].added \cup
             {[id |-> id, lobby_id |-> loc[p].lobby, user_id |-> req[p].user,
               is_active |-> TRUE]}
      /\ tx'[p].lobbies = tx[p].lobbies
      /\ tx'[p].removed = tx[p].removed
    BY <1>2 DEF AddPlayerTx, TypeInv, TypeOK, RepositoryTypeOK, Writes
<1>6. tx'[p].added = {NewSeat(p, id)'} /\ tx'[p].removed = {}
    BY <1>1, <1>4, <1>5 DEF NewSeat
<1>7. id \in PlayerIDs /\ NewSeat(p, id)'.id = id
    BY DEF FreshPlayerIDs, NewSeat
<1>8. \A row \in KnownRows : row.id # id
    BY DEF FreshPlayerIDs, UsedPlayerIDs
<1>9. OneChange'
    <2>1. Inserts(p)'
        BY <1>6, <1>7 DEF Inserts
    <2>2. pc[p] = "create_player" => Creates(p)'
        BY <1>1, <1>3, <1>5, <1>6 DEF ChangeOf, Creates, NewLobby
    <2>3. pc[p] = "join_player" => tx'[p].lobbies = {}
        BY <1>3, <1>5 DEF ChangeOf, NoRows, WritingPCs, InsertPCs
    <2>4. ChangeOf(p)'
        BY <1>1, <2>1, <2>2, <2>3 DEF ChangeOf, WritingPCs, InsertPCs
    <2> QED
        BY <2>4, Elsewhere DEF ChangesInv, OneChange
<1>10. RowsLocked'
    BY <1>0, <1>1, <1>6 DEF ChangesInv, RowsLocked, Others
<1>11. SeatsUnique'
    <2>1. Inserted(p)' = {NewSeat(p, id)'}
        BY <1>1, <1>6 DEF Inserted, InsertPCs
    <2>2. \A q \in Workers \ {p} : Inserted(q)' = Inserted(q)
        BY Elsewhere
    <2>3. /\ \A row \in players : row.id # id
          /\ \A q \in Workers : \A row \in Inserted(q) : row.id # id
        BY <1>8 DEF KnownRows, Inserted
    <2> HIDE DEF NewSeat
    <2> QED
        BY <1>1, <1>7, <2>1, <2>2, <2>3 DEF ChangesInv, SeatsUnique, Others
<1>12. LobbiesUnique'
    BY <1>0, <1>1, <1>5 DEF ChangesInv, LobbiesUnique, Others
<1> QED
    BY <1>9, <1>10, <1>11, <1>12 DEF ChangesInv

\* KickDelete: the rows are locked.
LEMMA KickDeleteChanges ==
    ASSUME ChangesInv, TypeInv, NEW p \in Workers, LocalTo(p), KickDelete(p)
    PROVE  ChangesInv'
<1>0. \A q \in Workers \ {p} : tx'[q] = tx[q]
    BY DEF LocalTo
<1>1. /\ pc[p] = "kick_delete" /\ pc'[p] = "kick_commit"
      /\ UNCHANGED <<lobbies, players, req, loc>>
      /\ DeletePlayerTx(p, loc[p].rows)
    BY AdvanceLocal DEF KickDelete, tables
<1>2. NoRows(p)
    BY <1>1 DEF ChangesInv, OneChange, ChangeOf, WritingPCs, InsertPCs
<1>3. /\ tx'[p].lobbies = {} /\ tx'[p].added = {}
      /\ tx'[p].removed = Surviving(loc[p].rows)
    BY <1>1, <1>2 DEF NoRows, DeletePlayerTx, TypeInv, TypeOK, RepositoryTypeOK, Writes
<1>4. OneChange'
    <2>1. ChangeOf(p)'
        BY <1>1, <1>3 DEF ChangeOf, WritingPCs, InsertPCs
    <2> QED
        BY <2>1, Elsewhere DEF ChangesInv, OneChange
<1>5. RowsLocked'
    <2>1. Surviving(loc[p].rows) \subseteq players
        BY DEF Surviving
    <2>2. \A q \in Workers \ {p} : Surviving(loc[p].rows) \cap tx[q].removed = {}
        BY <1>1 DEF DeletePlayerTx, RowsLockedBy, Surviving, Others
    <2> QED
        BY <1>0, <1>1, <1>3, <2>1, <2>2 DEF ChangesInv, RowsLocked, Others
<1>6. SeatsUnique'
    <2>1. Inserted(p)' = {}
        BY <1>1 DEF Inserted, InsertPCs
    <2> QED
        BY <1>1, <2>1, Elsewhere DEF ChangesInv, SeatsUnique, Others
<1>7. LobbiesUnique'
    BY <1>0, <1>1, <1>3 DEF ChangesInv, LobbiesUnique, Others
<1> QED
    BY <1>4, <1>5, <1>6, <1>7 DEF ChangesInv

\* UpdateWrite: one row is locked, and its new version added.
LEMMA RewritesSeatChanges ==
    ASSUME ChangesInv, TypeInv, NEW p \in Workers, LocalTo(p), RewritesSeat(p)
    PROVE  ChangesInv'
<1> DEFINE active == req[p].is_active
<1>0. \A q \in Workers \ {p} : tx'[q] = tx[q]
    BY DEF LocalTo
<1>1. /\ pc[p] = "update_write" /\ pc'[p] = "update_commit"
      /\ UNCHANGED <<lobbies, players, req, loc>>
      /\ Surviving(loc[p].rows) # {}
      /\ UpdatePlayerActiveStatusTx(p, loc[p].rows, active)
    BY RefuseLocal DEF RewritesSeat, UpdateWrite, Advance, tables
<1>2. NoRows(p) /\ loc[p].rows \subseteq {req[p].player_id}
    BY <1>1 DEF ChangesInv, OneChange, ChangeOf, WritingPCs, InsertPCs
<1>3. PICK row \in players : Surviving(loc[p].rows) = {row}
    <2>1. PICK row \in Surviving(loc[p].rows) : TRUE
        BY <1>1
    <2>2. \A other \in Surviving(loc[p].rows) : other = row
        BY <1>2, <2>1 DEF Surviving, ChangesInv, SeatsUnique
    <2> QED
        BY <2>1, <2>2 DEF Surviving
<1>4. /\ tx'[p].lobbies = {}
      /\ tx'[p].removed = {row}
      /\ tx'[p].added = {[row EXCEPT !.is_active = active]}
    <2>1. /\ tx'[p].lobbies = tx[p].lobbies
          /\ tx'[p].removed = tx[p].removed \cup Surviving(loc[p].rows)
          /\ tx'[p].added = tx[p].added \cup
               {[r EXCEPT !.is_active = active] : r \in Surviving(loc[p].rows)}
        BY <1>1
        DEF UpdatePlayerActiveStatusTx, TypeInv, TypeOK, RepositoryTypeOK, Writes
    <2> QED
        BY <1>2, <1>3, <2>1 DEF NoRows
<1>5. OneChange'
    <2>1. Rewrites(p)'
        BY <1>1, <1>3, <1>4 DEF Rewrites, TypeInv, TypeOK, RepositoryTypeOK
    <2>2. ChangeOf(p)'
        BY <1>1, <1>4, <2>1 DEF ChangeOf, WritingPCs, InsertPCs
    <2> QED
        BY <2>2, Elsewhere DEF ChangesInv, OneChange
<1>6. RowsLocked'
    <2>1. \A q \in Workers \ {p} : row \notin tx[q].removed
        BY <1>1, <1>3 DEF UpdatePlayerActiveStatusTx, RowsLockedBy, Surviving, Others
    <2> QED
        BY <1>0, <1>1, <1>4, <2>1 DEF ChangesInv, RowsLocked, Others
<1>7. SeatsUnique'
    <2>1. Inserted(p)' = {}
        BY <1>1 DEF Inserted, InsertPCs
    <2> QED
        BY <1>1, <2>1, Elsewhere DEF ChangesInv, SeatsUnique, Others
<1>8. LobbiesUnique'
    BY <1>0, <1>1, <1>4 DEF ChangesInv, LobbiesUnique, Others
<1> QED
    BY <1>5, <1>6, <1>7, <1>8 DEF ChangesInv

\* What a commit puts in the place of the rows it removes.
LEMMA Committed ==
    ASSUME ChangesInv, NEW p \in Workers, Commits(p)
    PROVE  /\ \/ pc[p] \in InsertPCs /\ Inserts(p)
              \/ pc[p] = "kick_commit" /\ tx[p].added = {}
              \/ pc[p] = "update_commit" /\ Rewrites(p)
           /\ pc[p] = "create_commit" => Creates(p)
           /\ pc[p] # "create_commit" => tx[p].lobbies = {}
BY DEF Commits, CommitPCs, ChangesInv, OneChange, ChangeOf, InsertPCs

\* A commit takes the changes of its own transaction and no other's.
LEMMA CommitChanges ==
    ASSUME ChangesInv, TypeInv, NEW p \in Workers, LocalTo(p), Commits(p)
    PROVE  ChangesInv'
<1>0. \A q \in Workers \ {p} : tx'[q] = tx[q] /\ Inserted(q)' = Inserted(q)
    BY Elsewhere DEF LocalTo
<1>1. /\ lobbies' = lobbies \cup tx[p].lobbies
      /\ players' = (players \ tx[p].removed) \cup tx[p].added
      /\ tx'[p] = NoWrites
    BY CommitLocal DEF Commits, CommitTx
<1>2. NoRows(p)' /\ Inserted(p)' = {}
    BY <1>1 DEF NoRows, NoWrites, Inserted, Commits, InsertPCs
<1>3. OneChange'
    <2>1. ChangeOf(p)'
        BY <1>2 DEF ChangeOf, Commits, WritingPCs, InsertPCs
    <2> QED
        BY <2>1, Elsewhere DEF ChangesInv, OneChange
<1>4. RowsLocked'
    BY <1>0, <1>1, <1>2 DEF ChangesInv, RowsLocked, Others, NoRows
<1>5. LobbiesUnique'
    BY <1>0, <1>1, <1>2 DEF ChangesInv, LobbiesUnique, Others, NoRows
<1>6. SeatsUnique'
    <2> DEFINE Apart(S) == \A q \in Workers \ {p} : \A new \in Inserted(q) :
                             \A row \in S : row.id # new.id
    <2>1. /\ \A a, b \in players : a.id = b.id => a = b
          /\ Apart(players)
        BY DEF ChangesInv, SeatsUnique
    <2>2. SUFFICES /\ \A a, b \in players' : a.id = b.id => a = b
                   /\ Apart(players')
        BY <1>0, <1>2, <2>2 DEF ChangesInv, SeatsUnique, Others
    <2>3. CASE pc[p] \in InsertPCs /\ Inserts(p)
        <3>1. PICK new : tx[p].added = {new} /\ tx[p].removed = {}
            BY <2>3 DEF Inserts
        <3>2. Inserted(p) = {new}
            BY <2>3, <3>1 DEF Inserted
        <3>3. \A row \in players : row.id # new.id
            BY <3>2 DEF ChangesInv, SeatsUnique
        <3>4. Apart({new})
            BY <3>2 DEF ChangesInv, SeatsUnique, Others
        <3> QED
            BY <1>1, <2>1, <3>1, <3>3, <3>4
    <2>4. CASE pc[p] = "kick_commit" /\ tx[p].added = {}
        BY <1>1, <2>1, <2>4
    <2>5. CASE pc[p] = "update_commit" /\ Rewrites(p)
        <3>1. PICK row \in PlayerRow :
                 /\ tx[p].removed = {row}
                 /\ tx[p].added = {[row EXCEPT !.is_active = req[p].is_active]}
            BY <2>5 DEF Rewrites
        <3> DEFINE new == [row EXCEPT !.is_active = req[p].is_active]
        <3>2. tx[p].added = {new} /\ new.id = row.id
            BY <3>1 DEF PlayerRow
        <3>3. row \in players
            BY <3>1 DEF ChangesInv, RowsLocked
        <3> HIDE DEF new
        <3> QED
            BY <1>1, <2>1, <3>1, <3>2, <3>3
    <2> QED
        BY <2>3, <2>4, <2>5, Committed
<1> QED
    BY <1>3, <1>4, <1>5, <1>6 DEF ChangesInv

\* Every step of a worker preserves ChangesInv.
LEMMA StepChanges ==
    ASSUME ChangesInv, TypeInv, NEW p \in Workers, Step(p)
    PROVE  ChangesInv'
BY StepLocal, StepKinds, QuietChanges, CommitChanges, InsertsLobbyChanges,
   InsertsSeatChanges, KickDeleteChanges, RewritesSeatChanges
DEF Writing

\* No row, no transaction: it holds at the start, ...
LEMMA InitChanges == Init => ChangesInv
<1> SUFFICES ASSUME Init PROVE ChangesInv
    OBVIOUS
<1>1. /\ players = {}
      /\ \A p \in Workers : NoRows(p) /\ pc[p] = "idle" /\ Inserted(p) = {}
    BY DEF Init, RepositoryInit, NoRows, NoWrites, Inserted, InsertPCs
<1>2. OneChange
    BY <1>1 DEF OneChange, ChangeOf, InsertPCs
<1> QED
    BY <1>1, <1>2 DEF ChangesInv, RowsLocked, SeatsUnique, LobbiesUnique, NoRows, Others

\* ... and after a crash, which leaves no transaction.
LEMMA CrashChanges ==
    ASSUME ChangesInv, Crash
    PROVE  ChangesInv'
<1>1. /\ UNCHANGED <<lobbies, players>>
      /\ \A p \in Workers : NoRows(p)' /\ pc'[p] = "idle" /\ Inserted(p)' = {}
    BY DEF Crash, tables, NoRows, NoWrites, Inserted, InsertPCs
<1>2. OneChange'
    BY <1>1 DEF OneChange, ChangeOf, InsertPCs
<1> QED
    BY <1>1, <1>2 DEF ChangesInv, RowsLocked, SeatsUnique, LobbiesUnique, NoRows, Others

\* So does every step.
LEMMA NextChanges ==
    ASSUME ChangesInv, TypeInv, [Next]_vars
    PROVE  ChangesInv'
<1>1. CASE UNCHANGED vars
    <2>1. UNCHANGED <<lobbies, players, tx, pc, req, loc>>
        BY <1>1 DEF vars
    <2>2. OneChange'
        BY <2>1
        DEF ChangesInv, OneChange, ChangeOf, NoRows, Creates, Inserts, Rewrites,
            NewLobby, NewSeat
    <2>3. RowsLocked' /\ LobbiesUnique'
        BY <2>1 DEF ChangesInv, RowsLocked, LobbiesUnique
    <2>4. SeatsUnique'
        BY <2>1 DEF ChangesInv, SeatsUnique, Inserted
    <2> QED
        BY <2>2, <2>3, <2>4 DEF ChangesInv
<1>2. CASE Crash
    BY <1>2, CrashChanges
<1>3. ASSUME NEW p \in Workers, Step(p) PROVE ChangesInv'
    BY <1>3, StepChanges
<1> QED
    BY <1>1, <1>2, <1>3 DEF Next, Step, Endpoint, Fault

\* MembershipInv is inductive.
LEMMA NextMembership == MembershipInv /\ [Next]_vars => MembershipInv'
BY NextSafety, NextChanges
DEF MembershipInv, ChangesInv, SafetyInv, LeaderInv

\* Every open transaction is one promised step that is still possible, however
\* requests overlap, fail or crash (the handlers' transactions).
THEOREM MembershipInvariant == Spec => []MembershipInv
<1>1. Init => MembershipInv
    BY InitSafety, InitChanges DEF MembershipInv, ChangesInv
<1> QED
    BY <1>1, NextMembership, PTL DEF Spec

-----------------------------------------------------------------------------
(* Each commit is a step of LobbyMembership.                               *)

\* What the constants of the request under way range over.
LEMMA RequestTypes ==
    ASSUME TypeInv, NEW p \in Workers
    PROVE  /\ pc[p] \in InsertPCs => req[p].user \in Users /\ loc[p].lobby \in LobbyIDs
           /\ pc[p] = "create_commit" => loc[p].code \in JoinCodes
           /\ pc[p] = "kick_commit" => /\ req[p].lobby_id \in LobbyIDs
                                       /\ req[p].target \in Users
           /\ pc[p] = "update_commit" => req[p].is_active \in BOOLEAN
BY DEF TypeInv, Dispatched, Assigned, InsertPCs, CreatePCs, JoinPCs, KickPCs, UpdatePCs,
       CreateRequest, JoinRequest, KickRequest, UpdateRequest

\* A new seat has an id that no seat has.
LEMMA SeatUnused ==
    ASSUME ChangesInv, NEW p \in Workers, pc[p] \in InsertPCs, NEW id,
           tx[p].added = {NewSeat(p, id)}
    PROVE  Membership!Unused(id)
<1>1. NewSeat(p, id) \in Inserted(p) /\ NewSeat(p, id).id = id
    BY DEF Inserted, NewSeat
<1> QED
    BY <1>1 DEF ChangesInv, SeatsUnique, Membership!Unused

\* A commit that inserts a seat seats its user.
LEMMA SeatTaken ==
    ASSUME NEW p \in Workers, CommitTx(p), NEW id, tx[p].removed = {},
           tx[p].added = {NewSeat(p, id)}
    PROVE  Membership!Seated(id, loc[p].lobby, req[p].user)
BY DEF CommitTx, Membership!Seated, NewSeat

\* The commit of a create opens a lobby.
LEMMA CreateOpens ==
    ASSUME ChangesInv, SafetyInv, NEW p \in Workers, Commits(p), pc[p] = "create_commit"
    PROVE  \E l \in LobbyIDs, u \in Users, id \in PlayerIDs, code \in JoinCodes :
             Membership!Open(l, code, u, id)
<1>1. Creates(p) /\ Inserts(p) /\ CommitTx(p)
    BY Committed DEF Commits, InsertPCs
<1>2. PICK id \in PlayerIDs : tx[p].added = {NewSeat(p, id)} /\ tx[p].removed = {}
    BY <1>1 DEF Inserts
<1>3. \A lobby \in lobbies : /\ lobby.id # loc[p].lobby
                             /\ lobby.join_code # loc[p].code
    <2>1. /\ NewLobby(p) \in KnownLobbies /\ NewLobby(p) \notin lobbies
          /\ lobbies \subseteq KnownLobbies
        BY <1>1 DEF Creates, KnownLobbies, ChangesInv, LobbiesUnique
    <2>2. NewLobby(p).id = loc[p].lobby /\ NewLobby(p).join_code = loc[p].code
        BY DEF NewLobby
    <2> HIDE DEF NewLobby
    <2> QED
        BY <2>1, <2>2 DEF SafetyInv, LeaderInv, LobbyIdentity, UniqueKnownCodes
<1>4. lobbies' = lobbies \cup
         {[id |-> loc[p].lobby, join_code |-> loc[p].code, leader_id |-> req[p].user,
           status |-> "waiting"]}
    BY <1>1 DEF CommitTx, Creates, NewLobby
<1>5. Membership!Open(loc[p].lobby, loc[p].code, req[p].user, id)
    BY <1>1, <1>2, <1>3, <1>4, SeatUnused, SeatTaken DEF Membership!Open, InsertPCs
<1>6. /\ loc[p].lobby \in LobbyIDs /\ loc[p].code \in JoinCodes
      /\ req[p].user \in Users
    BY RequestTypes DEF SafetyInv, LeaderInv, InsertPCs
<1> QED
    BY <1>2, <1>5, <1>6

\* The commit of a join takes a seat.
LEMMA JoinSits ==
    ASSUME ChangesInv, SafetyInv, NEW p \in Workers, Commits(p), pc[p] = "join_commit"
    PROVE  /\ \E id \in PlayerIDs : Membership!Sit(id, loc[p].lobby, req[p].user)
           /\ loc[p].lobby \in LobbyIDs /\ req[p].user \in Users
<1>1. Inserts(p) /\ tx[p].lobbies = {} /\ CommitTx(p)
    BY Committed DEF Commits
<1>2. PICK id \in PlayerIDs : tx[p].added = {NewSeat(p, id)} /\ tx[p].removed = {}
    BY <1>1 DEF Inserts
<1>3. \E lobby \in lobbies : lobby.id = loc[p].lobby
    BY DEF SafetyInv, LobbyFound, LobbyExists, JoinPCs
<1>4. UNCHANGED lobbies
    BY <1>1 DEF CommitTx
<1>5. Membership!Sit(id, loc[p].lobby, req[p].user)
    BY <1>1, <1>2, <1>3, <1>4, SeatUnused, SeatTaken DEF Membership!Sit, InsertPCs
<1>6. loc[p].lobby \in LobbyIDs /\ req[p].user \in Users
    BY RequestTypes DEF SafetyInv, LeaderInv, InsertPCs
<1> QED
    BY <1>2, <1>5, <1>6

\* The commit of a kick vacates seats of its target.
LEMMA KickVacates ==
    ASSUME ChangesInv, SafetyInv, NEW p \in Workers, Commits(p), pc[p] = "kick_commit"
    PROVE  /\ Membership!Vacate(req[p].lobby_id, req[p].target)
           /\ req[p].lobby_id \in LobbyIDs /\ req[p].target \in Users
<1>1. CommitTx(p) /\ tx[p].lobbies = {} /\ tx[p].added = {}
    BY Committed DEF Commits, InsertPCs
<1>2. UNCHANGED lobbies /\ players' = players \ tx[p].removed
    BY <1>1 DEF CommitTx
<1>3. ASSUME NEW row \in tx[p].removed
      PROVE  row \in Membership!SeatsOf(req[p].lobby_id, req[p].target)
    <2>1. row \in players
        BY DEF ChangesInv, RowsLocked
    <2>2. row.id \in loc[p].rows
        BY DEF SafetyInv, LeaderInv, PendingRemoval
    <2>3. row.lobby_id = req[p].lobby_id /\ row.user_id = req[p].target
        BY <2>1, <2>2 DEF SafetyInv, LeaderInv, KickMatched, KnownRows
    <2> QED
        BY <2>1, <2>3 DEF Membership!SeatsOf, Membership!SeatsIn
<1>4. Leader(p) /\ req[p].target # req[p].user
    BY DEF SafetyInv, LeaderInv, KickAuthorized, KickPCs
<1>5. Membership!Vacate(req[p].lobby_id, req[p].target)
    BY <1>2, <1>3, <1>4 DEF Membership!Vacate, Leader, Leads
<1>6. req[p].lobby_id \in LobbyIDs /\ req[p].target \in Users
    BY RequestTypes DEF SafetyInv, LeaderInv
<1> QED
    BY <1>5, <1>6

\* The commit of an update marks a seat.
LEMMA UpdateMarks ==
    ASSUME ChangesInv, SafetyInv, NEW p \in Workers, Commits(p), pc[p] = "update_commit"
    PROVE  \E seat \in players, active \in BOOLEAN : Membership!Mark(seat, active)
<1>1. CommitTx(p) /\ tx[p].lobbies = {} /\ Rewrites(p)
    BY Committed DEF Commits, InsertPCs
<1>2. PICK row \in PlayerRow :
         /\ tx[p].removed = {row}
         /\ tx[p].added = {[row EXCEPT !.is_active = req[p].is_active]}
    BY <1>1 DEF Rewrites
<1>3. row \in players
    BY <1>2 DEF ChangesInv, RowsLocked
<1>4. Membership!Mark(row, req[p].is_active)
    BY <1>1, <1>2 DEF CommitTx, Membership!Mark
<1>5. req[p].is_active \in BOOLEAN
    BY RequestTypes DEF SafetyInv, LeaderInv
<1> QED
    BY <1>3, <1>4, <1>5

\* Whatever runs concurrently, fails or crashes, the committed rows change only
\* by the steps that LobbyMembership promises: a lobby with its leader's seat, a
\* seat taken, seats of a user vacated, a seat marked.
THEOREM ImplementsMembership == Spec => MembershipImplemented
<1>1. Init => Membership!Init
    BY DEF Init, RepositoryInit, Membership!Init
<1>2. MembershipInv /\ [Next]_vars => [Membership!Next]_Membership!membership
    <2> SUFFICES ASSUME MembershipInv, [Next]_vars, ~UNCHANGED <<lobbies, players>>
                 PROVE  Membership!Next
        BY DEF Membership!membership
    <2>0. ChangesInv /\ SafetyInv /\ TypeInv
        BY DEF MembershipInv, ChangesInv, SafetyInv, LeaderInv
    <2>1. PICK p \in Workers : Step(p)
        BY DEF vars, Next, Step, Endpoint, Fault, Crash, tables
    <2>2. Commits(p)
        BY <2>0, <2>1, StepCommits
    <2> QED
        BY <2>0, <2>2, CreateOpens, JoinSits, KickVacates, UpdateMarks
        DEF Commits, CommitPCs, Membership!Next
<1> QED
    BY <1>1, <1>2, MembershipInvariant, PTL DEF Spec, MembershipImplemented, Membership!Spec

-----------------------------------------------------------------------------
(* What a kick removes.                                                    *)

\* The ids that a DELETE has matched are not given to new rows, and of the rows
\* that bear them those still in the table are about to be removed by it: no
\* update can put a version in their place past the row locks.
MatchedRowsGo ==
    \A p \in Workers :
        /\ pc[p] \in {"kick_delete", "kick_commit"} =>
             \A q \in Workers : \A new \in Inserted(q) : new.id \notin loc[p].rows
        /\ pc[p] = "kick_commit" =>
             \A row \in players : row.id \in loc[p].rows => row \in tx[p].removed

\* Steps that write no rows; KickScan matches rows of the table.
LEMMA QuietGo ==
    ASSUME ChangesInv, TypeInv, MatchedRowsGo, NEW p \in Workers, LocalTo(p), Quiet(p)
    PROVE  MatchedRowsGo'
<1>0. /\ \A q \in Workers \ {p} : /\ pc'[q] = pc[q] /\ loc'[q] = loc[q]
                                  /\ tx'[q] = tx[q] /\ Inserted(q)' = Inserted(q)
      /\ players' = players
      /\ Inserted(p)' = {}
    BY Elsewhere DEF LocalTo, Quiet, Inserted, WritingPCs
<1>1. pc'[p] # "kick_commit"
    BY DEF Quiet, WritingPCs
<1>2. ASSUME pc'[p] = "kick_delete", NEW q \in Workers \ {p}, NEW new \in Inserted(q)
      PROVE  new.id \notin loc'[p].rows
    <2>1. loc'[p].rows = MatchUser(req[p].lobby_id, req[p].target)
        BY <1>2 DEF Quiet, KickScan, TypeInv, TypeOK, Locals
    <2> QED
        BY <2>1 DEF MatchUser, PlayersOf, ChangesInv, SeatsUnique
<1> QED
    BY <1>0, <1>1, <1>2 DEF MatchedRowsGo

\* A new row has an id that no DELETE has matched.
LEMMA InsertsGo ==
    ASSUME ChangesInv, TypeInv, MatchedRowsGo, NEW p \in Workers, LocalTo(p),
           InsertsSeat(p)
    PROVE  MatchedRowsGo'
<1>0. \A q \in Workers \ {p} : /\ pc'[q] = pc[q] /\ loc'[q] = loc[q]
                               /\ tx'[q] = tx[q] /\ Inserted(q)' = Inserted(q)
    BY Elsewhere DEF LocalTo
<1>1. /\ pc[p] \in {"create_player", "join_player"}
      /\ pc'[p] \in {"create_commit", "join_commit"}
      /\ UNCHANGED <<players, loc>>
    BY AdvanceLocal DEF InsertsSeat, CreatePlayer, JoinPlayer, Advance, tables
<1>2. PICK id \in FreshPlayerIDs : AddPlayerTx(p, id, loc[p].lobby, req[p].user)
    BY DEF InsertsSeat, CreatePlayer, JoinPlayer
<1>3. tx[p].added = {}
    BY <1>1 DEF ChangesInv, OneChange, ChangeOf, NoRows, WritingPCs, InsertPCs
<1>4. \A new \in tx'[p].added : new.id = id
    BY <1>2, <1>3 DEF AddPlayerTx, TypeInv, TypeOK, RepositoryTypeOK, Writes
<1>5. \A q \in Workers : id \notin loc[q].rows
    BY DEF FreshPlayerIDs, UsedPlayerIDs
<1> QED
    BY <1>0, <1>1, <1>4, <1>5 DEF MatchedRowsGo, Inserted

\* KickDelete removes all that is left of what was matched; other writes concern
\* other rows.
LEMMA OtherWritesGo ==
    ASSUME ChangesInv, TypeInv, MatchedRowsGo, NEW p \in Workers, LocalTo(p),
           InsertsLobby(p) \/ KickDelete(p) \/ RewritesSeat(p)
    PROVE  MatchedRowsGo'
<1>0. \A q \in Workers \ {p} : /\ pc'[q] = pc[q] /\ loc'[q] = loc[q]
                               /\ tx'[q] = tx[q] /\ Inserted(q)' = Inserted(q)
    BY Elsewhere DEF LocalTo
<1>1. /\ pc'[p] \in {"create_player", "kick_commit", "update_commit"}
      /\ UNCHANGED players
      /\ Inserted(p)' = {}
    BY RefuseLocal, AdvanceLocal
    DEF InsertsLobby, RewritesSeat, CreateLobby, KickDelete, UpdateWrite, tables,
        Inserted, InsertPCs
<1>2. ASSUME pc'[p] = "kick_commit"
      PROVE  /\ pc[p] = "kick_delete" /\ UNCHANGED loc
             /\ \A row \in players : row.id \in loc[p].rows => row \in tx'[p].removed
    <2>1. KickDelete(p)
        BY <1>2 DEF InsertsLobby, RewritesSeat
    <2> QED
        BY <2>1 DEF KickDelete, Advance, DeletePlayerTx, Surviving, TypeInv, TypeOK,
                    RepositoryTypeOK, Writes
<1> QED
    BY <1>0, <1>1, <1>2 DEF MatchedRowsGo

\* What another transaction commits is no row that a DELETE is to remove: a new
\* row has another id, a new version would need the lock.
LEMMA CommitGo ==
    ASSUME ChangesInv, TypeInv, MatchedRowsGo, NEW p \in Workers, LocalTo(p), Commits(p)
    PROVE  MatchedRowsGo'
<1>0. \A q \in Workers \ {p} : /\ pc'[q] = pc[q] /\ loc'[q] = loc[q]
                               /\ tx'[q] = tx[q] /\ Inserted(q)' = Inserted(q)
    BY Elsewhere DEF LocalTo
<1>1. /\ players' = (players \ tx[p].removed) \cup tx[p].added
      /\ Inserted(p)' = {}
      /\ pc'[p] \notin {"kick_delete", "kick_commit"}
    BY CommitLocal DEF Commits, CommitTx, Inserted, InsertPCs
<1>2. ASSUME NEW q \in Workers \ {p}, pc[q] = "kick_commit", NEW row \in tx[p].added
      PROVE  row.id \notin loc[q].rows
    <2>1. CASE pc[p] \in InsertPCs
        BY <1>2, <2>1 DEF MatchedRowsGo, Inserted
    <2>2. CASE pc[p] = "update_commit" /\ Rewrites(p)
        <3>1. PICK old \in PlayerRow :
                 /\ tx[p].removed = {old}
                 /\ tx[p].added = {[old EXCEPT !.is_active = req[p].is_active]}
            BY <2>2 DEF Rewrites
        <3>2. row.id = old.id
            BY <1>2, <3>1 DEF PlayerRow
        <3>3. old \in players /\ old \notin tx[q].removed
            BY <3>1 DEF ChangesInv, RowsLocked, Others
        <3> QED
            BY <1>2, <3>2, <3>3 DEF MatchedRowsGo
    <2> QED
        BY <1>2, <2>1, <2>2, Committed
<1> QED
    BY <1>0, <1>1, <1>2 DEF MatchedRowsGo

\* No kick, no obligation; then every step keeps it.
LEMMA NextGo == /\ Init => MatchedRowsGo
                /\ MembershipInv /\ MatchedRowsGo /\ [Next]_vars => MatchedRowsGo'
<1>1. Init => MatchedRowsGo
    BY DEF Init, MatchedRowsGo
<1> SUFFICES ASSUME MembershipInv, MatchedRowsGo, [Next]_vars PROVE MatchedRowsGo'
    BY <1>1
<1>2. ChangesInv /\ TypeInv
    BY DEF MembershipInv, ChangesInv, SafetyInv, LeaderInv
<1>3. CASE UNCHANGED vars
    BY <1>3 DEF vars, MatchedRowsGo, Inserted
<1>4. CASE Crash
    BY <1>4 DEF Crash, MatchedRowsGo
<1>5. ASSUME NEW p \in Workers, Step(p) PROVE MatchedRowsGo'
    BY <1>2, <1>5, StepLocal, StepKinds, QuietGo, InsertsGo, OtherWritesGo, CommitGo
    DEF Writing
<1> QED
    BY <1>3, <1>4, <1>5 DEF Next, Step, Endpoint, Fault

\* Only its commit answers a kick with 204.
LEMMA AnswersKick ==
    ASSUME MembershipInv, [Next]_vars, NEW p \in Workers,
           pc[p] = "kick_commit", resp'[p].status = 204
    PROVE  CommitTx(p)
<1>0. TypeInv /\ Unanswered
    BY DEF MembershipInv, SafetyInv, LeaderInv
<1>1. resp[p].status = 0
    BY <1>0 DEF Unanswered, NoResponse
<1>2. PICK q \in Workers : Step(q)
    BY <1>1 DEF Next, vars, Crash, NoResponse, Step, Endpoint, Fault
<1>3. q = p
    BY <1>0, <1>1, <1>2, StepResponse
<1>4. Kick(p) \/ Fault(p)
    BY <1>0, <1>2, <1>3, EndpointLocal, CreateLocal, JoinLocal, GetLocal, UpdateLocal
    DEF Step, Endpoint, Handle, Continues, CreatePCs, JoinPCs, GetPCs, UpdatePCs
<1>5. CASE Kick(p)
    <2>1. pc[p] = "kick_commit" => KickCommit(p)
        BY <1>5 DEF Kick, KickAuthorize, KickLeader, KickMember, KickScan, KickDelete, Advance
    <2> QED
        BY <2>1 DEF KickCommit
<1>6. CASE Fault(p)
    BY <1>0, <1>6, RefuseResponse DEF Fault, DBFailure, CommitUnacknowledged
<1> QED
    BY <1>4, <1>5, <1>6

\* A kick answered 204 has removed every row its DELETE matched, also those that
\* an update rewrote meanwhile (kick_player.go, postgres.go).
THEOREM KicksTakeEffect == Spec => KickedRowsAreGone
<1>1. MembershipInv /\ MatchedRowsGo /\ [Next]_vars => [KickTakesEffect]_vars
    <2> SUFFICES ASSUME MembershipInv, MatchedRowsGo, [Next]_vars, NEW p \in Workers,
                        pc[p] = "kick_commit", resp'[p].status = 204,
                        NEW row \in players'
                 PROVE  row.id \notin loc[p].rows
        BY DEF KickTakesEffect
    <2>1. players' = (players \ tx[p].removed) \cup tx[p].added
        BY AnswersKick DEF CommitTx
    <2>2. tx[p].added = {}
        BY DEF MembershipInv, OneChange, ChangeOf
    <2> QED
        BY <2>1, <2>2 DEF MatchedRowsGo
<1> QED
    BY <1>1, NextGo, MembershipInvariant, PTL DEF Spec, KickedRowsAreGone

=============================================================================
