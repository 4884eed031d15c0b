--------------------------- MODULE ConnectionPool ---------------------------
(***************************************************************************)
(* The connections of LobbyService: requests run against one sql.DB whose  *)
(* pool is left at its defaults (internal/db/connection.go), and           *)
(* PostgreSQL accepts so many connections.  A request holds a connection   *)
(* from BeginTx to Commit or Rollback and, because some reads go through   *)
(* the pool and not through the transaction, a second one during those.    *)
(*                                                                         *)
(* What the statements do to the tables is LobbyService's; here a request  *)
(* is the plan of its steps.                                               *)
(***************************************************************************)
EXTENDS Integers, Sequences, FiniteSets

CONSTANTS
    Workers,        \* goroutines of net/http, one request at a time each
    Limits,         \* the numbers of connections PostgreSQL may accept
    MaxIdle,        \* idle connections the pool keeps, 2 by default
    MaxRetries      \* bound on the join codes one creation tries

ASSUME WorkersAssumption == IsFiniteSet(Workers)
ASSUME LimitsAssumption == Limits \subseteq Nat \ {0}
ASSUME MaxIdleAssumption == MaxIdle \in Nat \ {0}
ASSUME MaxRetriesAssumption == MaxRetries \in Nat

VARIABLES
    plan,      \* plan[w]: the steps left of w's request, <<>> without one
    txs,       \* the workers whose request holds a transaction's connection
    queries,   \* the workers with a query of the pool under way
    idle,      \* the connections in the pool
    open,      \* the connections PostgreSQL has open
    limit      \* those it accepts from this service: its configuration

vars == <<plan, txs, queries, idle, open, limit>>

Steps == {"begin", "tx", "pool", "commit"}

-----------------------------------------------------------------------------
(* The handlers' plans.  "tx" is a statement of the transaction, "pool"    *)
(* one that takes a connection of its own from the pool.                   *)

CreatePlans ==
    {<<"begin", "tx">> \o [i \in 1 .. n |-> "pool"] \o <<"tx", "tx", "commit">> :
        n \in 1 .. MaxRetries}

JoinPlan == <<"begin", "tx", "tx", "tx", "tx", "tx", "commit", "pool">>

\* RequireLobbyLeader reads before the handler runs; the handler reads the
\* leader once more, through the pool, inside its transaction.
KickPlan == <<"pool", "begin", "pool", "tx", "tx", "commit">>

GetPlans == {<<"pool", "pool">>, <<"pool", "pool", "pool">>}

UpdatePlan == <<"begin", "pool", "tx", "tx", "commit">>

Plans == CreatePlans \cup {JoinPlan, KickPlan, UpdatePlan} \cup GetPlans

TypeOK ==
    /\ plan \in [Workers -> Seq(Steps)]
    /\ txs \in SUBSET Workers
    /\ queries \in SUBSET Workers
    /\ idle \in Nat
    /\ open \in Nat
    /\ limit \in Limits

\* Ping and the migrations ran on one connection, now in the pool.
Init ==
    /\ plan = [w \in Workers |-> <<>>]
    /\ txs = {}
    /\ queries = {}
    /\ idle = 1
    /\ open = 1
    /\ limit \in Limits

At(w, step) == plan[w] # <<>> /\ Head(plan[w]) = step

Advance(w) == plan' = [plan EXCEPT ![w] = Tail(plan[w])]

-----------------------------------------------------------------------------
(* database/sql.                                                           *)

\* DB.conn: an idle connection if there is one, otherwise a new one.
Obtain ==
    \/ idle > 0 /\ idle' = idle - 1 /\ UNCHANGED open
    \/ idle = 0 /\ open < limit /\ open' = open + 1 /\ UNCHANGED idle

\* Mutant: SetMaxOpenConns(limit): a request waits for a connection.
WaitsInstead == FALSE

\* No maximum is configured: the pool always dials, and PostgreSQL refuses.
NoneLeft == idle = 0 /\ open >= limit

\* DB.putConn of n connections: beyond MaxIdle they are closed, and so are
\* those found broken.
PutBack(n) ==
    \E kept \in 0 .. n :
        /\ kept = 0 \/ idle + kept <= MaxIdle
        /\ idle' = idle + kept
        /\ open' = open - (n - kept)

\* PostgreSQL ends an idle connection; its next user discards it and tries
\* another.
IdleEnds ==
    /\ idle > 0
    /\ idle' = idle - 1
    /\ open' = open - 1
    /\ UNCHANGED <<plan, txs, queries, limit>>

-----------------------------------------------------------------------------
(* The handlers' steps.                                                    *)

Receive(w) ==
    /\ plan[w] = <<>>
    /\ \E p \in Plans : plan' = [plan EXCEPT ![w] = p]
    /\ UNCHANGED <<txs, queries, idle, open, limit>>

Begin(w) ==
    /\ At(w, "begin")
    /\ Obtain
    /\ txs' = txs \cup {w}
    /\ Advance(w)
    /\ UNCHANGED <<queries, limit>>

Query(w) ==
    /\ At(w, "pool")
    /\ w \notin queries
    /\ Obtain
    /\ queries' = queries \cup {w}
    /\ UNCHANGED <<plan, txs, limit>>

\* Scan, or rows.Close, gives the connection back.
QueryReturns(w) ==
    /\ w \in queries
    /\ queries' = queries \ {w}
    /\ PutBack(1)
    /\ Advance(w)
    /\ UNCHANGED <<txs, limit>>

TxStep(w) ==
    /\ At(w, "tx")
    /\ Advance(w)
    /\ UNCHANGED <<txs, queries, idle, open, limit>>

Commit(w) ==
    /\ At(w, "commit")
    /\ txs' = txs \ {w}
    /\ PutBack(1)
    /\ Advance(w)
    /\ UNCHANGED <<queries, limit>>

InUse(w) == Cardinality({w} \cap txs) + Cardinality({w} \cap queries)

\* Mutant: an early return without the deferred Rollback.
ReturnWithoutRollback(w) ==
    /\ plan' = [plan EXCEPT ![w] = <<>>]
    /\ queries' = queries \ {w}
    /\ PutBack(Cardinality({w} \cap queries))
    /\ UNCHANGED <<txs, limit>>

\* The handler returns: the deferred Rollback ends the transaction, if one is
\* open, and Scan has ended the query.
Return(w) ==
    /\ plan' = [plan EXCEPT ![w] = <<>>]
    /\ txs' = txs \ {w}
    /\ queries' = queries \ {w}
    /\ PutBack(InUse(w))
    /\ UNCHANGED limit

\* PostgreSQL has no connection for the step: the handler answers 500.
Refused(w) ==
    /\ At(w, "begin") \/ At(w, "pool")
    /\ w \notin queries
    /\ NoneLeft
    /\ Return(w)

\* A statement fails, what it read makes the handler answer early, or the
\* client has gone.
Fail(w) == plan[w] # <<>> /\ Return(w)

Serve(w) ==
    \/ Begin(w) \/ Query(w) \/ QueryReturns(w)
    \/ TxStep(w) \/ Commit(w) \/ Refused(w)

Next == IdleEnds \/ \E w \in Workers : Receive(w) \/ Serve(w) \/ Fail(w)

Spec == Init /\ [][Next]_vars

\* net/http runs every goroutine, and a statement ends: the lock waits form no
\* cycle (LobbyService).
FairSpec == Spec /\ \A w \in Workers : WF_vars(Serve(w))

-----------------------------------------------------------------------------
(* Properties.                                                             *)

\* Every open connection is in the pool or in use by a request in progress,
\* whatever step failed: no return of a handler loses one.
NoneLost ==
    /\ open = idle + Cardinality(txs) + Cardinality(queries)
    /\ \A w \in txs \cup queries : plan[w] # <<>>

\* A request in progress is answered, also when every request holds a
\* transaction's connection and needs another one from a pool that has none.
RequestsAnswered == \A w \in Workers : plan[w] # <<>> ~> plan[w] = <<>>

\* With two connections for every request none is refused: no plan asks for a
\* third, and none is kept by a request that has ended.
EnoughForAll ==
    limit >= 2 * Cardinality(Workers) =>
        \A w \in Workers :
            (At(w, "begin") \/ At(w, "pool")) /\ w \notin queries => ~NoneLeft

=============================================================================
