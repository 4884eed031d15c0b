----------------------------- MODULE Usernames -----------------------------
(***************************************************************************)
(* The usernames of LobbyService: each request brings a name in its        *)
(* header, the users table keeps the one of the first request that         *)
(* commits (ON CONFLICT DO NOTHING), creations answer with the header's    *)
(* name and details with the table's.  The rest of the requests is in      *)
(* LobbyService.                                                           *)
(***************************************************************************)
CONSTANTS Workers, Users, Names, None

VARIABLES
    stored,    \* stored[u]: the name in u's committed row, None without one
    request,   \* request[w]: the user, the name and the kind of w's request
    inserted,  \* inserted[w]: the name that w's open transaction inserted
    pc,
    shown      \* shown[w]: the name that w's answer gives its user

vars == <<stored, request, inserted, pc, shown>>

Requests == [user : Users, name : Names, op : {"create", "join"}]

Init ==
    /\ stored = [u \in Users |-> None]
    /\ request \in [Workers -> Requests]
    /\ inserted = [w \in Workers |-> None]
    /\ pc = [w \in Workers |-> "insert"]
    /\ shown = [w \in Workers |-> None]

Goto(w, here, there) == pc[w] = here /\ pc' = [pc EXCEPT ![w] = there]

\* An uncommitted row of the same id holds the insertion up.
Blocked(w) ==
    \E v \in Workers \ {w} :
        inserted[v] # None /\ request[v].user = request[w].user

\* Mutant: ON CONFLICT DO UPDATE.
InsertsAlways(w) == TRUE

Inserts(w) == stored[request[w].user] = None

CreateUserIfNotExists(w) ==
    /\ Goto(w, "insert", "commit")
    /\ ~Blocked(w)
    /\ inserted' = IF Inserts(w) THEN [inserted EXCEPT ![w] = request[w].name]
                                 ELSE inserted
    /\ UNCHANGED <<stored, request, shown>>

\* The handler gives up: full lobby, failing statement, no join code, ...
Rollback(w) ==
    /\ Goto(w, "commit", "answered")
    /\ inserted' = [inserted EXCEPT ![w] = None]
    /\ UNCHANGED <<stored, request, shown>>

Commit(w) ==
    /\ Goto(w, "commit", "answer")
    /\ stored' = IF inserted[w] = None THEN stored
                 ELSE [stored EXCEPT ![request[w].user] = inserted[w]]
    /\ inserted' = [inserted EXCEPT ![w] = None]
    /\ UNCHANGED <<request, shown>>

\* Mutant: a join, too, answers from its header.
HeaderName(r) == r.name

\* CreateLobbyResponse is built from the header, LobbyDetailResponse is read.
AnswerName(r) == IF r.op = "create" THEN r.name ELSE stored[r.user]

Answer(w) ==
    /\ Goto(w, "answer", "answered")
    /\ shown' = [shown EXCEPT ![w] = AnswerName(request[w])]
    /\ UNCHANGED <<stored, request, inserted>>

\* The worker's next request.
Again(w) ==
    /\ Goto(w, "answered", "insert")
    /\ \E r \in Requests : request' = [request EXCEPT ![w] = r]
    /\ shown' = [shown EXCEPT ![w] = None]
    /\ UNCHANGED <<stored, inserted>>

Next ==
    \E w \in Workers :
        \/ CreateUserIfNotExists(w) \/ Rollback(w) \/ Commit(w)
        \/ Answer(w) \/ Again(w)

Spec == Init /\ [][Next]_vars

-----------------------------------------------------------------------------
(* Properties.                                                             *)

\* The first committed name of a user stays, whatever later requests bring and
\* however their transactions interleave.
NameStays ==
    [][\A u \in Users : stored[u] # None => stored'[u] = stored[u]]_vars

\* Members see one name for a user, whichever detail they read and whenever it
\* was read: the answers to joins agree with one another and with the table.
DetailsAgree ==
    \A w \in Workers :
        shown[w] # None /\ request[w].op = "join" =>
            shown[w] = stored[request[w].user]

=============================================================================
