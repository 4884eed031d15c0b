----------------------------- MODULE PoolProofs -----------------------------
(***************************************************************************)
(* Proofs about ConnectionPool, for any number of requests and any limit.  *)
(***************************************************************************)
EXTENDS ConnectionPool, FiniteSetTheorems, SequenceTheorems, TLAPS

Has(s, step) == \E i \in 1 .. Len(s) : s[i] = step

\* A plan begins at most one transaction, and every begun one is committed
\* later, once.
WellFormed(s) ==
    /\ s \in Seq(Steps)
    /\ \A i, j \in 1 .. Len(s) :
         i < j => /\ ~(s[i] = "begin" /\ s[j] = "begin")
                  /\ ~(s[i] = "commit" /\ s[j] \in {"begin", "commit"})
    /\ Has(s, "begin") => Has(s, "commit")

\* A request holds a transaction's connection exactly between its begin and its
\* commit.
Holding ==
    \A w \in Workers :
        /\ WellFormed(plan[w])
        /\ w \in txs <=> Has(plan[w], "commit") /\ ~Has(plan[w], "begin")
        /\ w \in queries => At(w, "pool")

Counted == open = idle + Cardinality(txs) + Cardinality(queries)

PoolInv == TypeOK /\ Holding /\ Counted

-----------------------------------------------------------------------------
(* Plans.                                                                  *)

\* A plan with one begin and, after it, one commit is well formed.
LEMMA OneTransaction ==
    ASSUME NEW s \in Seq(Steps),
           NEW b \in 1 .. Len(s), NEW c \in 1 .. Len(s), b < c,
           s[b] = "begin", s[c] = "commit",
           \A i \in 1 .. Len(s) : i \in {b, c} \/ s[i] \notin {"begin", "commit"}
    PROVE  WellFormed(s) /\ Has(s, "begin") /\ s # <<>>
BY DEF WellFormed, Has

\* Creating a lobby, whatever number of codes is tried.
LEMMA CreatePlanWellFormed ==
    ASSUME NEW n \in Nat, NEW s,
           s = <<"begin", "tx">> \o [i \in 1 .. n |-> "pool"] \o <<"tx", "tx", "commit">>
    PROVE  WellFormed(s) /\ Has(s, "begin") /\ s # <<>>
<1> DEFINE p == [i \in 1 .. n |-> "pool"]
<1>1. p \in Seq(Steps) /\ Len(p) = n /\ \A i \in 1 .. n : p[i] = "pool"
    BY DEF Steps
<1> HIDE DEF p
<1> DEFINE b == <<"begin", "tx">>
           c == <<"tx", "tx", "commit">>
<1>2. /\ b \in Seq(Steps) /\ Len(b) = 2 /\ b[1] = "begin" /\ b[2] = "tx"
      /\ c \in Seq(Steps) /\ Len(c) = 3 /\ c[1] = "tx" /\ c[2] = "tx" /\ c[3] = "commit"
    BY DEF Steps
<1>3. s = (b \o p) \o c
    BY DEF p
<1> HIDE DEF b, c
<1>4. /\ b \o p \in Seq(Steps)
      /\ Len(b \o p) = n + 2
      /\ \A i \in 1 .. n + 2 : (b \o p)[i] = IF i <= 2 THEN b[i] ELSE p[i - 2]
    <2>1. /\ b \o p \in Seq(Steps)
          /\ Len(b \o p) = Len(b) + Len(p)
          /\ \A i \in 1 .. Len(b) + Len(p) :
               (b \o p)[i] = IF i <= Len(b) THEN b[i] ELSE p[i - Len(b)]
        BY ONLY <1>1, <1>2, ConcatProperties, ZenonT(40)
    <2> QED
        BY <2>1, <1>1, <1>2
<1> DEFINE d == b \o p
<1> HIDE DEF d
<1>5. /\ s \in Seq(Steps)
      /\ Len(s) = n + 5
      /\ \A i \in 1 .. n + 5 : s[i] = IF i <= n + 2 THEN d[i] ELSE c[i - (n + 2)]
    <2>1. d \in Seq(Steps) /\ Len(d) = n + 2
        BY <1>4 DEF d
    <2>2. /\ d \o c \in Seq(Steps)
          /\ Len(d \o c) = Len(d) + Len(c)
          /\ \A i \in 1 .. Len(d) + Len(c) :
               (d \o c)[i] = IF i <= Len(d) THEN d[i] ELSE c[i - Len(d)]
        BY ONLY <2>1, <1>2, ConcatProperties
    <2>3. s = d \o c
        BY <1>3 DEF d
    <2> QED
        BY <2>1, <2>2, <2>3, <1>2
<1>6. /\ s[1] = "begin" /\ s[n + 5] = "commit"
      /\ \A i \in 2 .. n + 4 : s[i] \notin {"begin", "commit"}
    <2>1. s[1] = "begin"
        BY <1>2, <1>4, <1>5 DEF d
    <2>2. s[n + 5] = "commit"
        BY <1>2, <1>5
    <2>3. ASSUME NEW i \in 2 .. n + 4 PROVE s[i] \in {"tx", "pool"}
        <3>1. CASE i = 2
            BY <3>1, <1>2, <1>4, <1>5 DEF d
        <3>2. CASE i > 2 /\ i <= n + 2
            BY <3>2, <1>1, <1>4, <1>5 DEF d
        <3>3. CASE i = n + 3
            BY <3>3, <1>2, <1>5
        <3>4. CASE i = n + 4
            BY <3>4, <1>2, <1>5
        <3> QED
            BY <3>1, <3>2, <3>3, <3>4
    <2> QED
        BY <2>1, <2>2, <2>3
<1>7. /\ 1 \in 1 .. Len(s) /\ n + 5 \in 1 .. Len(s) /\ 1 < n + 5
      /\ \A i \in 1 .. Len(s) : i \in {1, n + 5} \/ s[i] \notin {"begin", "commit"}
    BY <1>5, <1>6
<1> QED
    BY <1>5, <1>6, <1>7, OneTransaction

\* So are the plans of all handlers.
LEMMA PlansWellFormed ==
    ASSUME NEW s \in Plans
    PROVE  /\ WellFormed(s)
           /\ Has(s, "commit") => Has(s, "begin")
           /\ s # <<>>
<1>1. CASE s \in CreatePlans
    <2>1. PICK n \in 1 .. MaxRetries :
            s = <<"begin", "tx">> \o [i \in 1 .. n |-> "pool"] \o <<"tx", "tx", "commit">>
        BY <1>1 DEF CreatePlans
    <2>2. n \in Nat
        BY MaxRetriesAssumption
    <2> QED
        BY <2>1, <2>2, CreatePlanWellFormed
<1>2. CASE s = JoinPlan
    <2>1. /\ s \in Seq(Steps) /\ Len(s) = 8
          /\ s[1] = "begin" /\ s[2] = "tx" /\ s[3] = "tx" /\ s[4] = "tx"
          /\ s[5] = "tx" /\ s[6] = "tx" /\ s[7] = "commit" /\ s[8] = "pool"
        BY <1>2 DEF JoinPlan, Steps
    <2>2. /\ 1 \in 1 .. Len(s) /\ 7 \in 1 .. Len(s) /\ 1 < 7
          /\ \A i \in 1 .. Len(s) : i \in {1, 7} \/ s[i] \notin {"begin", "commit"}
        BY <2>1
    <2>3. s \in Seq(Steps) /\ s[1] = "begin" /\ s[7] = "commit"
        BY <2>1
    <2>4. WellFormed(s) /\ Has(s, "begin") /\ s # <<>>
        BY ONLY <2>2, <2>3, OneTransaction
    <2> QED
        BY <2>4
<1>3. CASE s = KickPlan
    <2>1. /\ s \in Seq(Steps) /\ Len(s) = 6
          /\ s[1] = "pool" /\ s[2] = "begin" /\ s[3] = "pool" /\ s[4] = "tx"
          /\ s[5] = "tx" /\ s[6] = "commit"
        BY <1>3 DEF KickPlan, Steps
    <2>2. /\ 2 \in 1 .. Len(s) /\ 6 \in 1 .. Len(s) /\ 2 < 6
          /\ \A i \in 1 .. Len(s) : i \in {2, 6} \/ s[i] \notin {"begin", "commit"}
        BY <2>1
    <2>3. s \in Seq(Steps) /\ s[2] = "begin" /\ s[6] = "commit"
        BY <2>1
    <2>4. WellFormed(s) /\ Has(s, "begin") /\ s # <<>>
        BY ONLY <2>2, <2>3, OneTransaction
    <2> QED
        BY <2>4
<1>4. CASE s = UpdatePlan
    <2>1. /\ s \in Seq(Steps) /\ Len(s) = 5
          /\ s[1] = "begin" /\ s[2] = "pool" /\ s[3] = "tx" /\ s[4] = "tx"
          /\ s[5] = "commit"
        BY <1>4 DEF UpdatePlan, Steps
    <2>2. /\ 1 \in 1 .. Len(s) /\ 5 \in 1 .. Len(s) /\ 1 < 5
          /\ \A i \in 1 .. Len(s) : i \in {1, 5} \/ s[i] \notin {"begin", "commit"}
        BY <2>1
    <2>3. s \in Seq(Steps) /\ s[1] = "begin" /\ s[5] = "commit"
        BY <2>1
    <2>4. WellFormed(s) /\ Has(s, "begin") /\ s # <<>>
        BY ONLY <2>2, <2>3, OneTransaction
    <2> QED
        BY <2>4
<1>5. CASE s \in GetPlans
    <2>1. CASE s = <<"pool", "pool">>
        BY <2>1 DEF WellFormed, Has, Steps
    <2>2. CASE s = <<"pool", "pool", "pool">>
        BY <2>2 DEF WellFormed, Has, Steps
    <2> QED
        BY <1>5, <2>1, <2>2 DEF GetPlans
<1> QED
    BY <1>1, <1>2, <1>3, <1>4, <1>5 DEF Plans

\* What a step leaves of a plan.
LEMMA TailWellFormed ==
    ASSUME NEW s, WellFormed(s), s # <<>>
    PROVE  /\ WellFormed(Tail(s))
           /\ Head(s) = "begin" => ~Has(Tail(s), "begin") /\ Has(Tail(s), "commit")
           /\ Head(s) = "commit" => ~Has(s, "begin") /\ ~Has(Tail(s), "commit")
           /\ Head(s) \notin {"begin", "commit"} =>
                 /\ Has(Tail(s), "begin") <=> Has(s, "begin")
                 /\ Has(Tail(s), "commit") <=> Has(s, "commit")
<1>1. /\ s \in Seq(Steps) /\ Len(s) > 0 /\ Len(s) \in Nat
      /\ Head(s) = s[1]
    BY DEF WellFormed
<1>2. /\ Tail(s) \in Seq(Steps)
      /\ Len(Tail(s)) = Len(s) - 1
      /\ \A i \in 1 .. Len(s) - 1 : Tail(s)[i] = s[i + 1]
    BY <1>1
<1> DEFINE t == Tail(s)
<1> HIDE DEF t
<1>3. \A step : Has(s, step) <=> Head(s) = step \/ Has(t, step)
    <2>1. ASSUME NEW step, Has(t, step) PROVE Has(s, step)
        BY <2>1, <1>1, <1>2 DEF Has, t
    <2>2. ASSUME NEW step, Has(s, step), Head(s) # step PROVE Has(t, step)
        <3>1. PICK i \in 1 .. Len(s) : s[i] = step
            BY <2>2 DEF Has
        <3>2. i - 1 \in 1 .. Len(s) - 1 /\ t[i - 1] = s[(i - 1) + 1]
            BY <3>1, <2>2, <1>1, <1>2 DEF t
        <3> QED
            BY <3>1, <3>2, <1>1, <1>2 DEF Has, t
    <2>3. ASSUME NEW step, Head(s) = step PROVE Has(s, step)
        BY <2>3, <1>1 DEF Has
    <2> QED
        BY <2>1, <2>2, <2>3
<1>4. Head(s) = "begin" => ~Has(t, "begin")
    BY <1>1, <1>2 DEF WellFormed, Has, t
<1>5. Head(s) = "commit" => ~Has(t, "begin") /\ ~Has(t, "commit")
    BY <1>1, <1>2 DEF WellFormed, Has, t
<1>6. \A i, j \in 1 .. Len(t) :
         i < j => /\ ~(t[i] = "begin" /\ t[j] = "begin")
                  /\ ~(t[i] = "commit" /\ t[j] \in {"begin", "commit"})
    BY <1>1, <1>2 DEF WellFormed, t
<1>7. Has(t, "begin") => Has(t, "commit")
    BY <1>3, <1>5 DEF WellFormed
<1>8. Head(s) = "begin" => Has(t, "commit")
    BY <1>3 DEF WellFormed
<1> QED
    BY <1>2, <1>3, <1>4, <1>5, <1>6, <1>7, <1>8 DEF WellFormed, t

-----------------------------------------------------------------------------
(* Steps.                                                                  *)

\* Those who hold connections are as many as the workers at most.
LEMMA UsersFinite ==
    ASSUME TypeOK
    PROVE  /\ IsFiniteSet(txs) /\ Cardinality(txs) \in Nat
           /\ IsFiniteSet(queries) /\ Cardinality(queries) \in Nat
           /\ IsFiniteSet(Workers) /\ Cardinality(Workers) \in Nat
           /\ Cardinality(txs) <= Cardinality(Workers)
           /\ Cardinality(queries) <= Cardinality(Workers)
BY WorkersAssumption, FS_Subset, FS_CardinalityType DEF TypeOK

\* Without w a set is smaller by w, if w is in it.
LEMMA Removed ==
    ASSUME NEW S, IsFiniteSet(S), NEW w
    PROVE  /\ Cardinality(S \ {w}) = Cardinality(S) - Cardinality({w} \cap S)
           /\ Cardinality({w} \cap S) \in {0, 1}
<1>1. CASE w \in S
    <2>1. {w} \cap S = {w}
        BY <1>1
    <2> QED
        BY <1>1, <2>1, FS_RemoveElement, FS_Singleton
<1>2. CASE w \notin S
    <2>1. {w} \cap S = {} /\ S \ {w} = S
        BY <1>2
    <2>2. Cardinality(S) \in Nat
        BY FS_CardinalityType
    <2> QED
        BY <1>2, <2>1, <2>2, FS_EmptySet
<1> QED
    BY <1>1, <1>2

\* What is left of a request is a sequence of steps.
LEMMA PlanTypes ==
    ASSUME PoolInv, NEW w \in Workers, plan[w] # <<>>
    PROVE  /\ plan[w] \in Seq(Steps) /\ Tail(plan[w]) \in Seq(Steps)
           /\ Len(plan[w]) > 0 /\ Head(plan[w]) = plan[w][1]
BY DEF PoolInv, Holding, WellFormed

\* A step of one request leaves the others as they were.
LEMMA OthersHold ==
    ASSUME PoolInv, NEW w \in Workers, NEW s,
           plan' = [plan EXCEPT ![w] = s],
           txs' \ {w} = txs \ {w}, queries' \ {w} = queries \ {w},
           WellFormed(s),
           w \in txs' <=> Has(s, "commit") /\ ~Has(s, "begin"),
           w \in queries' => s # <<>> /\ Head(s) = "pool"
    PROVE  Holding'
<1> SUFFICES ASSUME NEW v \in Workers
             PROVE  /\ WellFormed(plan'[v])
                    /\ v \in txs' <=> Has(plan'[v], "commit") /\ ~Has(plan'[v], "begin")
                    /\ v \in queries' => plan'[v] # <<>> /\ Head(plan'[v]) = "pool"
    BY DEF Holding, At, WellFormed, Has
<1>1. CASE v = w
    BY <1>1 DEF PoolInv, TypeOK
<1>2. CASE v # w
    <2>1. /\ plan'[v] = plan[v]
          /\ v \in txs' <=> v \in txs
          /\ v \in queries' <=> v \in queries
        BY <1>2 DEF PoolInv, TypeOK
    <2> QED
        BY <2>1 DEF PoolInv, Holding, At
<1> QED
    BY <1>1, <1>2

\* So is what an idle worker has left.
LEMMA NothingLeft == WellFormed(<<>>) /\ \A step : ~Has(<<>>, step)
BY DEF WellFormed, Has

\* A handler that returns gives back all it holds.
LEMMA ReturnKeeps ==
    ASSUME PoolInv, NEW w \in Workers, Return(w)
    PROVE  PoolInv'
<1>1. Holding'
    BY OthersHold, NothingLeft DEF Return
<1>2. Counted' /\ TypeOK'
    <2>1. /\ Cardinality(txs') = Cardinality(txs) - Cardinality({w} \cap txs)
          /\ Cardinality(queries') = Cardinality(queries) - Cardinality({w} \cap queries)
          /\ Cardinality({w} \cap txs) \in {0, 1}
          /\ Cardinality({w} \cap queries) \in {0, 1}
        BY UsersFinite, Removed DEF Return, PoolInv
    <2>2. PICK kept \in 0 .. InUse(w) :
              idle' = idle + kept /\ open' = open - (InUse(w) - kept)
        BY DEF Return, PutBack
    <2>4. /\ Cardinality(txs') \in Nat /\ Cardinality(queries') \in Nat
          /\ Cardinality(txs) \in Nat /\ Cardinality(queries) \in Nat
        BY UsersFinite, FS_RemoveElement, FS_CardinalityType DEF Return, PoolInv
    <2>5. Counted'
        <3>1. /\ open = idle + Cardinality(txs) + Cardinality(queries)
              /\ idle \in Nat /\ kept \in Nat
            BY <2>1 DEF PoolInv, Counted, TypeOK, InUse
        <3>2. open' = (idle + Cardinality(txs) + Cardinality(queries))
                        - ((Cardinality({w} \cap txs) + Cardinality({w} \cap queries)) - kept)
            BY <2>2, <3>1 DEF InUse
        <3>3. open' = idle' + Cardinality(txs') + Cardinality(queries')
            <4> DEFINE t == Cardinality({w} \cap txs)
                       q == Cardinality({w} \cap queries)
            <4>1. t \in Nat /\ q \in Nat
                BY <2>1
            <4>2. /\ Cardinality(txs') = Cardinality(txs) - t
                  /\ Cardinality(queries') = Cardinality(queries) - q
                  /\ idle' = idle + kept
                  /\ open' = (idle + Cardinality(txs) + Cardinality(queries)) - ((t + q) - kept)
                BY <2>1, <2>2, <3>2
            <4> HIDE DEF t, q
            <4> QED
                BY <2>4, <3>1, <4>1, <4>2
        <3> QED
            BY <3>3 DEF Counted
    <2>3. TypeOK' /\ idle' \in Nat
        <3>1. InUse(w) \in Nat /\ kept \in Nat /\ kept <= InUse(w)
            BY <2>1 DEF InUse
        <3>2. idle' \in Nat
            BY <2>2, <3>1 DEF PoolInv, TypeOK
        <3>3. open' \in Nat
            BY <2>4, <2>5, <3>2 DEF Counted
        <3>4. <<>> \in Seq(Steps)
            OBVIOUS
        <3> QED
            BY <3>2, <3>3, <3>4 DEF PoolInv, TypeOK, Return
    <2> QED
        BY <2>3, <2>5
<1> QED
    BY <1>1, <1>2 DEF PoolInv

\* BeginTx takes a connection and holds it.
LEMMA BeginKeeps ==
    ASSUME PoolInv, NEW w \in Workers, Begin(w)
    PROVE  PoolInv'
<1> DEFINE s == plan[w]
<1>1. /\ WellFormed(Tail(s))
      /\ ~Has(Tail(s), "begin") /\ Has(Tail(s), "commit")
      /\ Has(s, "begin")
    <2>1. s # <<>> /\ Head(s) = "begin" /\ WellFormed(s)
        BY DEF Begin, At, PoolInv, Holding
    <2>2. Has(s, "begin")
        BY <2>1, PlanTypes DEF Has
    <2> QED
        BY <2>1, <2>2, TailWellFormed
<1>2. w \notin txs /\ w \notin queries
    BY <1>1 DEF PoolInv, Holding, Begin, At
<1>3. Holding'
    BY <1>1, <1>2, OthersHold DEF Begin, Advance
<1>4. Cardinality(txs') = Cardinality(txs) + 1
    BY <1>2, UsersFinite, FS_AddElement DEF Begin, PoolInv
<1>5. TypeOK'
    BY <1>1 DEF PoolInv, TypeOK, Begin, Obtain, Advance, WellFormed
<1>6. Counted'
    BY <1>4, UsersFinite DEF PoolInv, Counted, TypeOK, Begin, Obtain
<1> QED
    BY <1>3, <1>5, <1>6 DEF PoolInv

\* A query of the pool takes one ...
LEMMA QueryKeeps ==
    ASSUME PoolInv, NEW w \in Workers, Query(w)
    PROVE  PoolInv'
<1>1. Holding'
    BY DEF PoolInv, Holding, Query, At, WellFormed, Has
<1>2. Cardinality(queries') = Cardinality(queries) + 1
    BY UsersFinite, FS_AddElement DEF Query, PoolInv
<1>3. TypeOK'
    BY DEF PoolInv, TypeOK, Query, Obtain
<1>4. Counted'
    <2>1. open' - idle' = open - idle + 1
        BY LimitsAssumption DEF PoolInv, TypeOK, Query, Obtain
    <2>2. txs' = txs /\ idle' \in Nat /\ open' \in Nat
        BY <1>3 DEF Query, TypeOK
    <2>3. /\ open = idle + Cardinality(txs) + Cardinality(queries)
          /\ idle \in Nat /\ open \in Nat
          /\ Cardinality(txs) \in Nat /\ Cardinality(queries) \in Nat
        BY UsersFinite DEF PoolInv, Counted, TypeOK
    <2>4. open' = idle' + Cardinality(txs') + Cardinality(queries')
        BY ONLY <1>2, <2>1, <2>2, <2>3
    <2> QED
        BY <2>4 DEF Counted
<1> QED
    BY <1>1, <1>3, <1>4 DEF PoolInv

\* Steps after which the plan goes on and the transaction is as before.
LEMMA PlanGoesOn ==
    ASSUME PoolInv, NEW w \in Workers, plan[w] # <<>>,
           Head(plan[w]) \in {"pool", "tx"}, Advance(w), txs' = txs,
           queries' = queries \ {w}
    PROVE  Holding' /\ plan' \in [Workers -> Seq(Steps)]
<1>1. WellFormed(plan[w])
    BY DEF PoolInv, Holding
<1>2. /\ WellFormed(Tail(plan[w]))
      /\ Has(Tail(plan[w]), "begin") <=> Has(plan[w], "begin")
      /\ Has(Tail(plan[w]), "commit") <=> Has(plan[w], "commit")
    BY <1>1, TailWellFormed
<1>3. Holding'
    <2>1. w \in txs' <=> Has(Tail(plan[w]), "commit") /\ ~Has(Tail(plan[w]), "begin")
        BY <1>2 DEF PoolInv, Holding
    <2> QED
        BY <1>2, <2>1, OthersHold DEF Advance
<1> QED
    BY <1>2, <1>3 DEF Advance, PoolInv, TypeOK, WellFormed

\* ... and gives it back.
LEMMA QueryReturnsKeeps ==
    ASSUME PoolInv, NEW w \in Workers, QueryReturns(w)
    PROVE  PoolInv'
<1>1. plan[w] # <<>> /\ Head(plan[w]) = "pool"
    BY DEF QueryReturns, PoolInv, Holding, At
<1>2. Holding' /\ plan' \in [Workers -> Seq(Steps)]
    BY <1>1, PlanGoesOn DEF QueryReturns
<1>3. Cardinality(queries') = Cardinality(queries) - 1
    BY UsersFinite, FS_RemoveElement DEF QueryReturns, PoolInv
<1>4. PICK kept \in 0 .. 1 : idle' = idle + kept /\ open' = open - (1 - kept)
    BY DEF QueryReturns, PutBack
<1>5. Counted' /\ TypeOK'
    <2>1. idle' \in Nat /\ Cardinality(queries') \in Nat
        BY <1>3, <1>4, UsersFinite, FS_RemoveElement, FS_CardinalityType
           DEF PoolInv, TypeOK, QueryReturns
    <2>2. open' = idle' + Cardinality(txs') + Cardinality(queries')
        BY <1>3, <1>4, UsersFinite DEF PoolInv, Counted, TypeOK, QueryReturns
    <2> QED
        BY <1>2, <2>1, <2>2, UsersFinite, SMTT(30) DEF PoolInv, Counted, TypeOK, QueryReturns
<1> QED
    BY <1>2, <1>5 DEF PoolInv

\* Commit gives back the transaction's.
LEMMA CommitKeeps ==
    ASSUME PoolInv, NEW w \in Workers, Commit(w)
    PROVE  PoolInv'
<1> DEFINE s == plan[w]
<1>1. s # <<>> /\ Head(s) = "commit" /\ WellFormed(s) /\ Has(s, "commit")
    <2>1. s # <<>> /\ Head(s) = "commit" /\ WellFormed(s)
        BY DEF Commit, At, PoolInv, Holding
    <2> QED
        BY <2>1, PlanTypes DEF Has
<1>2. WellFormed(Tail(s)) /\ ~Has(s, "begin") /\ ~Has(Tail(s), "commit")
    BY <1>1, TailWellFormed
<1>3. w \in txs /\ w \notin queries
    BY <1>1, <1>2 DEF PoolInv, Holding, At
<1>4. Holding'
    BY <1>2, <1>3, OthersHold DEF Commit, Advance
<1>5. Cardinality(txs') = Cardinality(txs) - 1
    BY <1>3, UsersFinite, FS_RemoveElement DEF Commit, PoolInv
<1>6. PICK kept \in 0 .. 1 : idle' = idle + kept /\ open' = open - (1 - kept)
    BY DEF Commit, PutBack
<1>7. Counted' /\ TypeOK'
    <2>1. idle' \in Nat /\ Cardinality(txs') \in Nat
        <3>1. idle \in Nat
            BY DEF PoolInv, TypeOK
        <3>2. IsFiniteSet(txs')
            BY UsersFinite, FS_RemoveElement DEF PoolInv, Commit
        <3> QED
            BY <1>6, <3>1, <3>2, FS_CardinalityType
    <2>2. open' = idle' + Cardinality(txs') + Cardinality(queries')
        BY <1>5, <1>6, UsersFinite DEF PoolInv, Counted, TypeOK, Commit
    <2> QED
        BY <1>2, <2>1, <2>2, UsersFinite, SMTT(30)
           DEF PoolInv, Counted, TypeOK, Commit, Advance, WellFormed
<1> QED
    BY <1>4, <1>7 DEF PoolInv

\* Every step keeps the account of connections right.
LEMMA NextPool == PoolInv /\ [Next]_vars => PoolInv'
<1> SUFFICES ASSUME PoolInv, [Next]_vars PROVE PoolInv'
    OBVIOUS
<1>1. ASSUME NEW w \in Workers, Receive(w) PROVE PoolInv'
    <2>1. PICK p \in Plans : plan' = [plan EXCEPT ![w] = p]
        BY <1>1 DEF Receive
    <2>2. WellFormed(p) /\ (Has(p, "commit") => Has(p, "begin"))
        BY PlansWellFormed
    <2>3. w \notin txs /\ w \notin queries
        BY <1>1, NothingLeft DEF Receive, PoolInv, Holding, At
    <2>4. Holding'
        BY <1>1, <2>1, <2>2, <2>3, OthersHold DEF Receive
    <2> QED
        BY <1>1, <2>1, <2>2, <2>4 DEF Receive, PoolInv, TypeOK, Counted, WellFormed
<1>2. ASSUME NEW w \in Workers, TxStep(w) PROVE PoolInv'
    <2>1. w \notin queries /\ plan[w] # <<>> /\ Head(plan[w]) = "tx"
        BY <1>2 DEF TxStep, PoolInv, Holding, At
    <2>2. Holding' /\ plan' \in [Workers -> Seq(Steps)]
        BY <1>2, <2>1, PlanGoesOn DEF TxStep
    <2> QED
        BY <1>2, <2>2 DEF TxStep, PoolInv, TypeOK, Counted
<1>3. ASSUME NEW w \in Workers, Refused(w) \/ Fail(w) PROVE PoolInv'
    BY <1>3, ReturnKeeps DEF Refused, Fail
<1>4. CASE IdleEnds
    <2>1. Holding'
        BY <1>4 DEF IdleEnds, PoolInv, Holding, At, WellFormed, Has
    <2> QED
        BY <1>4, <2>1, UsersFinite DEF IdleEnds, PoolInv, TypeOK, Counted
<1>5. CASE UNCHANGED vars
    BY <1>5 DEF vars, PoolInv, TypeOK, Holding, Counted, At, WellFormed, Has
<1> QED
    BY <1>1, <1>2, <1>3, <1>4, <1>5, BeginKeeps, QueryKeeps, QueryReturnsKeeps,
       CommitKeeps
       DEF Next, Serve

\* It is right at the start.
LEMMA InitPool == Init => PoolInv
<1> SUFFICES ASSUME Init PROVE PoolInv
    OBVIOUS
<1>1. Holding
    BY NothingLeft DEF Init, Holding
<1> QED
    BY <1>1, FS_EmptySet DEF Init, PoolInv, TypeOK, Counted

\* The account of connections is right throughout.
LEMMA PoolInvariant == Spec => []PoolInv
BY InitPool, NextPool, PTL DEF Spec

\* connection.go, the handlers: every open connection is idle or in use by a
\* request in progress, for any number of requests, any limit, and whatever fails.
THEOREM NoConnectionLost == Spec => []NoneLost
<1>1. PoolInv => NoneLost
    <2>1. ASSUME PoolInv, NEW w \in txs \cup queries PROVE plan[w] # <<>>
        BY <2>1, NothingLeft DEF PoolInv, TypeOK, Holding, At
    <2> QED
        BY <2>1 DEF PoolInv, Counted, NoneLost
<1> QED
    BY <1>1, PoolInvariant, PTL

\* ... and when PostgreSQL accepts two connections for every request none is ever
\* refused one: no plan asks for a third.
THEOREM TwoPerRequestSuffice == Spec => []EnoughForAll
<1>1. PoolInv => EnoughForAll
    <2> SUFFICES ASSUME PoolInv, limit >= 2 * Cardinality(Workers),
                        NEW w \in Workers, w \notin queries, NoneLeft
                 PROVE  FALSE
        BY DEF EnoughForAll
    <2>1. /\ Cardinality(queries \cup {w}) = Cardinality(queries) + 1
          /\ Cardinality(queries \cup {w}) <= Cardinality(Workers)
        <3>1. queries \cup {w} \in SUBSET Workers
            BY DEF PoolInv, TypeOK
        <3> QED
            BY <3>1, UsersFinite, FS_AddElement, FS_Subset DEF PoolInv
    <2> QED
        BY <2>1, UsersFinite, LimitsAssumption DEF PoolInv, Counted, TypeOK, NoneLeft
<1> QED
    BY <1>1, PoolInvariant, PTL

=============================================================================
