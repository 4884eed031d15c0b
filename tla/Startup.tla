------------------------------ MODULE Startup ------------------------------
(***************************************************************************)
(* The start of LobbyService (cmd/LobbyService/main.go): connect, run the  *)
(* pending migrations (internal/db), listen.  Any failure ends the         *)
(* process; nothing in the program tries again, a new process does.        *)
(* PostgreSQL and goose are modelled as the program uses them: goose reads *)
(* the recorded versions and applies each pending migration, in order, in  *)
(* a transaction that also records its version, under no lock.             *)
(***************************************************************************)
EXTENDS Integers

CONSTANTS
    Processes,      \* processes of the service, of one or several replicas
    Last,           \* the migrations in the binary are 1 .. Last
    MaxFailures     \* bound on crashes, lost connections and database stops

VARIABLES
    pc,          \* pc[p]: where process p is
    pending,     \* pending[p]: what goose has left to apply
    dbUp,        \* PostgreSQL serves TCP connections
    versions,    \* the versions recorded in goose_db_version
    schema,      \* the migrations whose statements took effect
    writing,     \* the processes whose migration transaction is open
    failures

vars == <<pc, pending, dbUp, versions, schema, writing, failures>>

\* The service's container may start while PostgreSQL still initialises.
Init ==
    /\ pc = [p \in Processes |-> "off"]
    /\ pending = [p \in Processes |-> {}]
    /\ dbUp = FALSE
    /\ versions = {}
    /\ schema = {}
    /\ writing = [p \in Processes |-> 0]
    /\ failures = 0

Goto(p, there) == pc' = [pc EXCEPT ![p] = there]

\* os.Exit, a panic or a kill: PostgreSQL aborts the open transaction.
End(p) ==
    /\ Goto(p, "off")
    /\ pending' = [pending EXCEPT ![p] = {}]
    /\ writing' = [writing EXCEPT ![p] = 0]

-----------------------------------------------------------------------------

Start(p) ==
    /\ pc[p] = "off"
    /\ Goto(p, "connect")
    /\ UNCHANGED <<pending, dbUp, versions, schema, writing, failures>>

\* Mutant: the start waits until PostgreSQL answers.
ConnectWaits(p) ==
    /\ pc[p] = "connect"
    /\ dbUp
    /\ Goto(p, "read")
    /\ UNCHANGED <<pending, writing, dbUp, versions, schema, failures>>

\* sql.Open and Ping.
Connect(p) ==
    /\ pc[p] = "connect"
    /\ IF dbUp THEN Goto(p, "read") /\ UNCHANGED <<pending, writing>>
               ELSE End(p)
    /\ UNCHANGED <<dbUp, versions, schema, failures>>

\* Mutant: that nothing is left to apply counts as an error.
NoChangeIsAnError(p) ==
    /\ pc[p] = "read"
    /\ IF dbUp /\ versions # 1 .. Last
         THEN /\ pending' = [pending EXCEPT ![p] = (1 .. Last) \ versions]
              /\ Goto(p, "migrate")
              /\ UNCHANGED writing
         ELSE End(p)
    /\ UNCHANGED <<dbUp, versions, schema, failures>>

\* goose.Up: the migrations whose version is not recorded.
ReadVersions(p) ==
    /\ pc[p] = "read"
    /\ IF dbUp
         THEN /\ pending' = [pending EXCEPT ![p] = (1 .. Last) \ versions]
              /\ Goto(p, "migrate")
              /\ UNCHANGED writing
         ELSE End(p)
    /\ UNCHANGED <<dbUp, versions, schema, failures>>

NextOf(p) == CHOOSE v \in pending[p] : \A u \in pending[p] : v <= u

\* Another process has created the same tables and not committed.
Blocked(p) == \E q \in Processes : writing[q] = NextOf(p) /\ NextOf(p) \notin schema

\* The statements of the next migration, in a transaction.  They are CREATE ...
\* IF NOT EXISTS: what another process has committed is left as it is.
Apply(p) ==
    /\ pc[p] = "migrate"
    /\ IF pending[p] = {} THEN Goto(p, "serve") /\ UNCHANGED <<pending, writing>>
       ELSE IF ~dbUp THEN End(p)
       ELSE IF Blocked(p) THEN Goto(p, "wait") /\ UNCHANGED <<pending, writing>>
       ELSE /\ writing' = [writing EXCEPT ![p] = NextOf(p)]
            /\ Goto(p, "record")
            /\ UNCHANGED pending
    /\ UNCHANGED <<dbUp, versions, schema, failures>>

\* The wait for the other transaction ends.  If that committed, the statements
\* fail with a duplicate key of PostgreSQL's catalogue, and so does the start.
Awaken(p) ==
    /\ pc[p] = "wait"
    /\ ~Blocked(p)
    /\ IF dbUp /\ NextOf(p) \notin schema
         THEN /\ writing' = [writing EXCEPT ![p] = NextOf(p)]
              /\ Goto(p, "record")
              /\ UNCHANGED pending
         ELSE End(p)
    /\ UNCHANGED <<dbUp, versions, schema, failures>>

\* Mutant: the version is recorded although the statements were not committed.
RecordOnly(p) ==
    /\ pc[p] = "record"
    /\ versions' = versions \cup {writing[p]}
    /\ pending' = [pending EXCEPT ![p] = @ \ {writing[p]}]
    /\ writing' = [writing EXCEPT ![p] = 0]
    /\ Goto(p, "migrate")
    /\ UNCHANGED <<dbUp, schema, failures>>

\* The version is recorded and the transaction commits.
Record(p) ==
    /\ pc[p] = "record"
    /\ IF dbUp
         THEN /\ versions' = versions \cup {writing[p]}
              /\ schema' = schema \cup {writing[p]}
              /\ pending' = [pending EXCEPT ![p] = @ \ {writing[p]}]
              /\ writing' = [writing EXCEPT ![p] = 0]
              /\ Goto(p, "migrate")
         ELSE End(p) /\ UNCHANGED <<versions, schema>>
    /\ UNCHANGED <<dbUp, failures>>

\* The router is built and http.ListenAndServe called; without a database too.
Serve(p) ==
    /\ pc[p] = "serve"
    /\ Goto(p, "listening")
    /\ UNCHANGED <<pending, dbUp, versions, schema, writing, failures>>

\* What a process that runs does next.
Step(p) ==
    \/ Connect(p) \/ ReadVersions(p)
    \/ Apply(p) \/ Awaken(p) \/ Record(p) \/ Serve(p)

Fails == failures < MaxFailures /\ failures' = failures + 1

\* The process dies, or a statement fails for a reason of its own: a start that
\* has not finished ends with exit status 1.
Crash(p) ==
    /\ pc[p] # "off"
    /\ Fails
    /\ End(p)
    /\ UNCHANGED <<dbUp, versions, schema>>

InTransaction(p) == pc[p] \in {"wait", "record"}

\* PostgreSQL stops: open transactions are lost and end the start of their
\* processes.
DBStops ==
    /\ dbUp
    /\ Fails
    /\ dbUp' = FALSE
    /\ pc' = [p \in Processes |-> IF InTransaction(p) THEN "off" ELSE pc[p]]
    /\ pending' = [p \in Processes |-> IF InTransaction(p) THEN {} ELSE pending[p]]
    /\ writing' = [p \in Processes |-> 0]
    /\ UNCHANGED <<versions, schema>>

DBStarts ==
    /\ ~dbUp
    /\ dbUp' = TRUE
    /\ UNCHANGED <<pc, pending, versions, schema, writing, failures>>

Next ==
    \/ DBStops \/ DBStarts
    \/ \E p \in Processes : Start(p) \/ Step(p) \/ Crash(p)

Spec == Init /\ [][Next]_vars

\* A process that runs goes on.  Nothing in the repository starts one again that
\* ended, nor PostgreSQL: that is not assumed.
Fairness == \A p \in Processes : WF_vars(Step(p))

FairSpec == Spec /\ Fairness

-----------------------------------------------------------------------------
(* Properties.                                                             *)

\* Requests are served on the complete schema only, whatever failed during this
\* start or an earlier one and whichever replica migrated.
ServesMigrated ==
    \A p \in Processes : pc[p] \in {"serve", "listening"} => schema = 1 .. Last

\* No start hangs: it ends with the process listening or exited, whether
\* PostgreSQL is there or not and whatever another replica's migration does (main).
EveryStartEnds ==
    \A p \in Processes : pc[p] = "connect" ~> pc[p] \in {"listening", "off"}

\* No earlier failure, and no race of replicas, keeps the service from starting: if
\* a process starts while PostgreSQL is up, then one gets to listen unless another
\* failure happens before.  (The one that starts may itself fail with the duplicate
\* key of a migration that another replica committed.)
SomeoneListens ==
    \A n \in 0 .. MaxFailures :
        /\ dbUp
        /\ failures = n
        /\ \E p \in Processes : pc[p] = "connect"
        ~> failures # n \/ \E p \in Processes : pc[p] = "listening"

=============================================================================
