--------------------------- MODULE ServicesProofs ---------------------------
(***************************************************************************)
(* Proofs about AuthTokens, Startup and Usernames, for any lifetime of a   *)
(* token, any names and secrets and tokens of any other make, any number   *)
(* of migrations, processes and failures, and any number of requests.      *)
(***************************************************************************)
EXTENDS Services, WellFoundedInduction, TLAPS

-----------------------------------------------------------------------------
(* AuthTokens: what `valid' means.                                         *)

\* Every token handed out is CreateToken's, made at its moment.
Genuine ==
    \A i \in issued :
        /\ i.at \in Nat /\ i.at <= now
        /\ i.token.form = "jwt" /\ i.token.alg = "HS256" /\ i.token.iss = Issuer
        /\ i.token.exp = ExpiresAt(i.at)
        /\ i.token.sub # None /\ i.token.name # None

\* An answer of a validation is the verdict on its token, of now and with the
\* secret in use.
Judged ==
    answer.op = "validate" =>
        /\ answer.under = secret
        /\ answer.reason = Judge(answer.token, now)
        /\ answer.status = IF answer.reason = "none" THEN 200
                           ELSE RefusalStatus(answer.reason)
        /\ answer.token \in {i.token : i \in issued} \cup ForeignTokens
        /\ answer.status = 200 => answer.sub = answer.token.sub /\ answer.name = answer.token.name

TokenInv == now \in Nat /\ secret \in Secrets /\ Genuine /\ Judged

-----------------------------------------------------------------------------

\* Cutting off the fraction moves the expiry forward by less than a second.
LEMMA ExpiryCut ==
    ASSUME NEW at \in Nat
    PROVE  /\ ExpiresAt(at) \in Int
           /\ ExpiresAt(at) <= at + Lifetime
           /\ ExpiresAt(at) > at + Lifetime - Ticks
<1> USE LifetimeAssumption
<1> DEFINE t == at + Lifetime
<1>1. t \in Nat /\ t % 2 \in 0 .. 1
    OBVIOUS
<1> HIDE DEF t
<1>2. t - (t % 2) \in Int /\ t - (t % 2) <= t /\ t - (t % 2) > t - 2
    BY <1>1
<1> QED
    BY <1>2 DEF ExpiresAt, NumericDate, Ticks, t

\* Under a secret of accepted length, no token of anyone else is accepted.
LEMMA ForeignRefused ==
    ASSUME NEW t \in ForeignTokens, NEW at, secret \in Secrets, Strong(secret)
    PROVE  Judge(t, at) # "none"
<1> SUFFICES ASSUME Judge(t, at) = "none" PROVE FALSE
    OBVIOUS
<1>1. WellFormed(t) /\ t.key = secret
    BY DEF Judge, WellFormed
<1> QED
    BY <1>1, ForeignAssumption

\* Nothing issued, nothing judged: it holds at the start.
LEMMA InitTokens == TokensInit => TokenInv
BY DEF TokensInit, TokenInv, Genuine, Judged, NoAnswer

\* CreateToken makes a genuine token.
LEMMA CreateGenuine ==
    ASSUME TokenInv, NEW r \in CreateRequests, CreateToken(r)
    PROVE  TokenInv'
<1> DEFINE token == SignedToken(r.user_id, r.username, now)
<1>1. /\ issued' = issued \cup {[token |-> token, at |-> now]}
      /\ UNCHANGED <<now, secret>>
      /\ answer'.op = "create"
    BY DEF CreateToken, NoAnswer
<1>2. r.user_id # None /\ r.username # None
    BY IdentityAssumption DEF CreateToken, ValidCreate, CreateRequests
<1>3. /\ token.form = "jwt" /\ token.alg = "HS256" /\ token.iss = Issuer
      /\ token.exp = ExpiresAt(now)
      /\ token.sub # None /\ token.name # None
    BY <1>2 DEF SignedToken
<1> HIDE DEF token
<1>4. \A at : ExpiresAt(at)' = ExpiresAt(at)
    BY DEF ExpiresAt, NumericDate
<1>5. Genuine'
    BY <1>1, <1>3, <1>4 DEF TokenInv, Genuine
<1> QED
    BY <1>1, <1>5 DEF TokenInv, Judged

\* ValidateToken tells its verdict.
LEMMA ValidateJudges ==
    ASSUME TokenInv, NEW t \in {i.token : i \in issued} \cup ForeignTokens,
           ValidateToken(t)
    PROVE  TokenInv'
<1>1. UNCHANGED <<now, secret, issued>>
    BY DEF ValidateToken
<1>2. /\ answer'.op = "validate" /\ answer'.under = secret /\ answer'.token = t
      /\ answer'.reason = Judge(t, now)
      /\ answer'.status = IF Judge(t, now) = "none" THEN 200 ELSE RefusalStatus(Judge(t, now))
      /\ Judge(t, now) = "none" => answer'.sub = t.sub /\ answer'.name = t.name
    BY DEF ValidateToken
<1>3. Judge(t, now)' = Judge(t, now)
    BY <1>1 DEF Judge, Expired
<1>4. answer'.status = 200 => Judge(t, now) = "none"
    <2>1. RefusalStatus(Judge(t, now)) # 200
        BY DEF RefusalStatus
    <2> QED
        BY <1>2, <2>1
<1>5. Genuine'
    BY <1>1 DEF TokenInv, Genuine
<1>6. (answer.token \in {i.token : i \in issued} \cup ForeignTokens)'
    BY <1>1, <1>2
<1>7. (answer.reason = Judge(answer.token, now))'
    BY <1>1, <1>2 DEF Judge, Expired
<1>8. Judged'
    BY <1>1, <1>2, <1>4, <1>6, <1>7 DEF Judged
<1> QED
    BY <1>1, <1>5, <1>8 DEF TokenInv

\* Every step keeps it; the clock and a restart leave no answer behind.
LEMMA NextTokens ==
    ASSUME TokenInv, [TokensNext]_tokenVars
    PROVE  TokenInv'
<1>1. ASSUME NEW r \in CreateRequests, CreateToken(r) \/ RefuseCreate(r)
      PROVE  TokenInv'
    <2>1. CASE CreateToken(r)
        BY <2>1, CreateGenuine
    <2>2. CASE RefuseCreate(r)
        BY <2>2 DEF RefuseCreate, NoAnswer, TokenInv, Genuine, Judged
    <2> QED
        BY <1>1, <2>1, <2>2
<1>2. ASSUME NEW t \in {i.token : i \in issued} \cup ForeignTokens, ValidateToken(t)
      PROVE  TokenInv'
    BY <1>2, ValidateJudges
<1>3. CASE Undecodable
    BY <1>3 DEF Undecodable, NoAnswer, TokenInv, Genuine, Judged
<1>4. CASE Tick
    BY <1>4 DEF Tick, NoAnswer, TokenInv, Genuine, Judged
<1>5. CASE Restart
    BY <1>5 DEF Restart, NoAnswer, TokenInv, Genuine, Judged
<1>6. CASE UNCHANGED tokenVars
    <2>1. UNCHANGED <<now, secret, issued, answer>>
        BY <1>6 DEF tokenVars
    <2>2. (Judge(answer.token, now))' = Judge(answer.token, now)
        BY <2>1 DEF Judge, Expired
    <2> QED
        BY <2>1, <2>2 DEF TokenInv, Genuine, Judged
<1> QED
    BY <1>1, <1>2, <1>3, <1>4, <1>5, <1>6 DEF TokensNext

\* Told `valid' on an issued token: it is genuine and not too old.
LEMMA ValidIsFresh ==
    ASSUME TokenInv
    PROVE  ValidOnlyIfFresh
<1> SUFFICES ASSUME answer.op = "validate", answer.status = 200, Strong(answer.under)
             PROVE  \E i \in issued : /\ i.token = answer.token
                                      /\ i.token.sub = answer.sub
                                      /\ i.token.name = answer.name
                                      /\ i.token.key = answer.under
                                      /\ i.at <= now
                                      /\ now - i.at < Lifetime
    BY DEF ValidOnlyIfFresh
<1>1. Judge(answer.token, now) = "none"
    BY DEF TokenInv, Judged, RefusalStatus
<1>2. PICK i \in issued : i.token = answer.token
    <2>1. answer.under = secret /\ secret \in Secrets
        BY DEF TokenInv, Judged
    <2>2. answer.token \in {i.token : i \in issued} \cup ForeignTokens
        BY DEF TokenInv, Judged
    <2> QED
        BY <1>1, <2>1, <2>2, ForeignRefused
<1> DEFINE t == i.token
<1>3. /\ i.at \in Nat /\ t.form = "jwt" /\ t.exp = ExpiresAt(i.at)
    BY DEF TokenInv, Genuine
<1>4. t.key = secret /\ ~Expired(t, now)
    BY <1>1, <1>2, <1>3 DEF Judge
<1>5. now < ExpiresAt(i.at)
    BY <1>3, <1>4, ExpiryCut, LifetimeAssumption DEF Expired, TokenInv
<1>6. now - i.at < Lifetime
    BY <1>3, <1>5, ExpiryCut, LifetimeAssumption DEF TokenInv
<1>7. answer.sub = t.sub /\ answer.name = t.name /\ answer.under = secret
    BY <1>2 DEF TokenInv, Judged
<1>8. i.at <= now
    BY DEF TokenInv, Genuine
<1> QED
    BY <1>2, <1>4, <1>6, <1>7, <1>8

\* What the judgement of a token of this service depends on.
LEMMA JudgedByAge ==
    ASSUME TokenInv
    PROVE  IssuedTokensJudgedByAge
<1> SUFFICES ASSUME NEW i \in issued, answer.op = "validate", answer.token = i.token
             PROVE  CASE i.token.key # answer.under -> answer.reason = "invalid signature"
                      [] i.token.key = answer.under /\ now - i.at <= Lifetime - Ticks ->
                           answer.reason = "none"
                      [] i.token.key = answer.under /\ now - i.at >= Lifetime ->
                           answer.reason = "token expired"
                      [] OTHER -> answer.reason \in {"none", "token expired"}
    BY DEF IssuedTokensJudgedByAge
<1> DEFINE t == i.token
<1>1. answer.under = secret /\ answer.reason = Judge(t, now)
    BY DEF TokenInv, Judged
<1>2. /\ t.form = "jwt" /\ t.alg = "HS256" /\ t.iss = Issuer
      /\ t.sub # None /\ t.name # None
      /\ t.exp = ExpiresAt(i.at)
      /\ i.at \in Nat /\ now \in Nat
    BY DEF TokenInv, Genuine
<1>3. Judge(t, now) = IF t.key # secret THEN "invalid signature"
                      ELSE IF Expired(t, now) THEN "token expired" ELSE "none"
    BY <1>2 DEF Judge
<1>4. /\ now - i.at <= Lifetime - Ticks => ~Expired(t, now)
      /\ now - i.at >= Lifetime => Expired(t, now)
    BY <1>2, ExpiryCut, LifetimeAssumption DEF Expired, Ticks
<1>5. CASE t.key # secret
    BY <1>1, <1>3, <1>5, ZenonT(30)
<1>6. CASE t.key = secret /\ Expired(t, now)
    BY <1>1, <1>3, <1>4, <1>6, ZenonT(30)
<1>7. CASE t.key = secret /\ ~Expired(t, now)
    BY <1>1, <1>3, <1>4, <1>7
<1> QED
    BY <1>5, <1>6, <1>7

-----------------------------------------------------------------------------

\* Under a secret of accepted length, validator.go tells `valid' only of tokens that
\* generator.go made, for the identity it returns, under the secret in use, less
\* than Lifetime ago: for any lifetime and clock, any restarts, and any foreign
\* tokens but those that take the knowledge of such a secret (ForeignAssumption).
THEOREM ValidMeansFresh == TokensSpec => []ValidOnlyIfFresh
BY InitTokens, NextTokens, ValidIsFresh, PTL DEF TokensSpec

\* ... and it judges those tokens by key and age alone, expiring them within the
\* last second of their lifetime.
THEOREM AgeDecides == TokensSpec => []IssuedTokensJudgedByAge
BY InitTokens, NextTokens, JudgedByAge, PTL DEF TokensSpec

-----------------------------------------------------------------------------
(* AuthTokens: types.                                                      *)

\* What is presented to the validator are tokens.
LEMMA PresentedTypes ==
    ASSUME TokensTypeOK, NEW t \in {i.token : i \in issued} \cup ForeignTokens
    PROVE  t \in Tokens
<1>1. CASE t \in ForeignTokens
    BY <1>1, ForeignAssumption
<1>2. CASE t \in {i.token : i \in issued}
    BY <1>2 DEF TokensTypeOK, ServiceTokens, Tokens
<1> QED
    BY <1>1, <1>2

\* CreateToken makes a token of this service.
LEMMA CreatedTypes ==
    ASSUME TokensTypeOK, NEW r \in CreateRequests, ValidCreate(r), StrongSecret
    PROVE  SignedToken(r.user_id, r.username, now) \in ServiceTokens
<1> DEFINE t == SignedToken(r.user_id, r.username, now)
<1>1. r.user_id \in Users /\ r.username \in Names
    BY DEF CreateRequests, ValidCreate
<1>2. r.username.length \in 3 .. 20
    BY <1>1, LengthAssumption DEF ValidCreate, ValidUsername
<1>3. secret \in Secrets /\ secret \in Keys /\ Strong(secret)
    BY SecretsAssumption DEF StrongSecret, TokensTypeOK
<1>4. ExpiresAt(now) \in Int
    BY ExpiryCut DEF TokensTypeOK
<1>5. t \in JWTs
    BY <1>1, <1>3, <1>4 DEF SignedToken, JWTs
<1>6. /\ t.alg = "HS256" /\ t.iss = Issuer /\ t.key = secret
      /\ t.sub = r.user_id /\ t.name = r.username
    BY DEF SignedToken
<1> HIDE DEF t
<1>7. t \in ServiceTokens
    BY <1>1, <1>2, <1>3, <1>5, <1>6 DEF ServiceTokens
<1> QED
    BY <1>7 DEF t

\* The verdict on a token is an answer.
LEMMA VerdictTypes ==
    ASSUME TokensTypeOK, NEW t \in Tokens, ValidateToken(t)
    PROVE  answer' \in Answers
<1>1. Judge(t, now) \in Reasons \cup {"none"}
    BY DEF Judge, Reasons
<1>2. CASE Judge(t, now) = "none"
    <2>1. t \in JWTs
        BY <1>2 DEF Tokens, NotJWTs, Judge
    <2>2. t.sub \in Users \cup {None} /\ t.name \in Names \cup {None}
        BY <2>1 DEF JWTs
    <2>3. answer' = [op |-> "validate", status |-> 200, reason |-> "none",
                     token |-> t, sub |-> t.sub, name |-> t.name, under |-> secret]
        BY <1>2 DEF ValidateToken
    <2> QED
        BY <2>2, <2>3 DEF Answers, TokensTypeOK
<1>3. CASE Judge(t, now) # "none"
    <2>1. answer' = [op |-> "validate", status |-> RefusalStatus(Judge(t, now)),
                     reason |-> Judge(t, now), token |-> t, sub |-> None,
                     name |-> None, under |-> secret]
        BY <1>3 DEF ValidateToken
    <2>2. RefusalStatus(Judge(t, now)) \in {400, 401}
        BY DEF RefusalStatus
    <2> QED
        BY <1>1, <2>1, <2>2 DEF Answers, TokensTypeOK
<1> QED
    BY <1>2, <1>3

\* Every step keeps the types.
LEMMA NextTokenTypes ==
    ASSUME TokensTypeOK, [TokensNext]_tokenVars
    PROVE  TokensTypeOK'
<1>a. UNCHANGED issued => ServiceTokens' = ServiceTokens
    BY DEF ServiceTokens, JWTs
<1>n. NoAnswer \in Answers
    BY DEF NoAnswer, Answers
<1>1. ASSUME NEW r \in CreateRequests, CreateToken(r) PROVE TokensTypeOK'
    <2> DEFINE token == SignedToken(r.user_id, r.username, now)
    <2>1. token \in ServiceTokens /\ token \in Tokens
        BY <1>1, CreatedTypes DEF CreateToken, ServiceTokens, Tokens
    <2>2. /\ issued' = issued \cup {[token |-> token, at |-> now]}
          /\ UNCHANGED <<now, secret>>
        BY <1>1 DEF CreateToken
    <2>3. answer' = [NoAnswer EXCEPT !.op = "create", !.status = 200,
                          !.token = token, !.sub = r.user_id,
                          !.name = r.username, !.under = secret]
        BY <1>1 DEF CreateToken
    <2>4. r.user_id \in Users \cup {None} /\ r.username \in Names
        BY DEF CreateRequests
    <2> HIDE DEF token
    <2> DEFINE a1 == [NoAnswer EXCEPT !.op = "create"]
               a2 == [a1 EXCEPT !.status = 200]
               a3 == [a2 EXCEPT !.token = token]
               a4 == [a3 EXCEPT !.sub = r.user_id]
               a5 == [a4 EXCEPT !.name = r.username]
               a6 == [a5 EXCEPT !.under = secret]
    <2>5. answer' \in Answers
        <3>1. ASSUME NEW a \in Answers
              PROVE  /\ [a EXCEPT !.op = "create"] \in Answers
                     /\ [a EXCEPT !.status = 200] \in Answers
                     /\ [a EXCEPT !.token = token] \in Answers
                     /\ [a EXCEPT !.sub = r.user_id] \in Answers
                     /\ [a EXCEPT !.name = r.username] \in Answers
                     /\ [a EXCEPT !.under = secret] \in Answers
            BY <2>1, <2>4 DEF Answers, TokensTypeOK
        <3>2. a6 \in Answers
            BY <1>n, <3>1, ZenonT(30)
        <3> QED
            BY <2>3, <3>2
    <2>6. \A i \in issued' : i.token \in ServiceTokens /\ i.at \in 0 .. MaxTime
        BY <2>1, <2>2 DEF TokensTypeOK
    <2> QED
        BY <2>2, <2>5, <2>6 DEF TokensTypeOK
<1>2. ASSUME NEW r \in CreateRequests, RefuseCreate(r) PROVE TokensTypeOK'
    <2>1. PICK s \in {400, 500} :
              answer' = [NoAnswer EXCEPT !.op = "create", !.under = secret, !.status = s]
        BY <1>2, ZenonT(30) DEF RefuseCreate
    <2> DEFINE a1 == [NoAnswer EXCEPT !.op = "create"]
               a2 == [a1 EXCEPT !.under = secret]
               a3 == [a2 EXCEPT !.status = s]
    <2>2. ASSUME NEW a \in Answers
          PROVE  /\ [a EXCEPT !.op = "create"] \in Answers
                 /\ [a EXCEPT !.under = secret] \in Answers
                 /\ [a EXCEPT !.status = s] \in Answers
        BY DEF Answers, TokensTypeOK
    <2>4. a3 \in Answers
        BY <1>n, <2>2
    <2>3. answer' \in Answers
        BY <2>1, <2>4
    <2> QED
        BY <1>2, <2>3 DEF RefuseCreate, TokensTypeOK
<1>3. ASSUME NEW t \in {i.token : i \in issued} \cup ForeignTokens, ValidateToken(t)
      PROVE  TokensTypeOK'
    <2>1. answer' \in Answers
        BY <1>3, PresentedTypes, VerdictTypes
    <2> QED
        BY <1>3, <2>1 DEF ValidateToken, TokensTypeOK
<1>4. CASE Undecodable
    <2>1. answer' \in Answers
        <3> DEFINE a1 == [NoAnswer EXCEPT !.op = "decode"]
                   a2 == [a1 EXCEPT !.status = 400]
        <3>1. ASSUME NEW a \in Answers
              PROVE  /\ [a EXCEPT !.op = "decode"] \in Answers
                     /\ [a EXCEPT !.status = 400] \in Answers
            BY DEF Answers
        <3>2. a2 \in Answers
            BY <1>n, <3>1
        <3> QED
            BY <1>4, <3>2 DEF Undecodable
    <2> QED
        BY <1>4, <2>1 DEF Undecodable, TokensTypeOK
<1>5. CASE Tick
    <2>1. now' \in 0 .. MaxTime
        BY <1>5, LifetimeAssumption DEF Tick, TokensTypeOK
    <2> QED
        BY <1>5, <1>n, <2>1 DEF Tick, TokensTypeOK
<1>6. CASE Restart
    BY <1>6, <1>n DEF Restart, TokensTypeOK
<1>7. CASE UNCHANGED tokenVars
    BY <1>7 DEF tokenVars, TokensTypeOK
<1> QED
    BY <1>1, <1>2, <1>3, <1>4, <1>5, <1>6, <1>7 DEF TokensNext

\* generator.go, validator.go: whatever is issued carries a user, a name that
\* LobbyService's column takes and a strong key, and every answer is one of the
\* documented ones: for any lifetime, names and secrets.
THEOREM TokenTypesHold == TokensSpec => []TokensTypeOK
<1>1. TokensInit => TokensTypeOK
    BY LifetimeAssumption DEF TokensInit, TokensTypeOK, NoAnswer, Answers
<1> QED
    BY <1>1, NextTokenTypes, PTL DEF TokensSpec

-----------------------------------------------------------------------------
(* Startup.                                                                *)

Places == {"off", "connect", "read", "migrate", "wait", "record", "serve", "listening"}

\* What is recorded has taken effect, and nothing else than migrations does.
SchemaTypes ==
    /\ startPc \in [Processes -> Places]
    /\ pending \in [Processes -> SUBSET (1 .. Last)]
    /\ writing \in [Processes -> 0 .. Last]
    /\ versions \subseteq schema /\ schema \subseteq 1 .. Last

\* What a process has read or applied is in the schema, whichever process applied
\* it; it leaves the migrations when nothing is pending.
Applied ==
    \A p \in Processes :
        /\ startPc[p] \in {"migrate", "wait", "record", "serve", "listening"} =>
              (1 .. Last) \ pending[p] \subseteq schema
        /\ startPc[p] = "wait" => pending[p] # {}
        /\ startPc[p] = "record" => writing[p] \in 1 .. Last
        /\ startPc[p] \in {"serve", "listening"} => pending[p] = {}

StartInv == SchemaTypes /\ Applied

\* A set of natural numbers that is not empty has a least element.
LEMMA LeastElement ==
    ASSUME NEW S, S \subseteq Nat, S # {}
    PROVE  \E m \in S : \A n \in S : m <= n
<1> DEFINE R == OpToRel(<, Nat)
<1>1. IsWellFoundedOn(R, Nat)
    BY NatLessThanWellFounded, Zenon
<1>2. \A x, y \in Nat : x < y => <<x, y>> \in R
    BY DEF OpToRel
<1> HIDE DEF R
<1>3. PICK m \in S : \A n \in S : <<n, m>> \notin R
    BY <1>1, WFMin, Zenon
<1>4. \A n \in S : n \in Nat /\ m \in Nat /\ ~(n < m)
    BY <1>2, <1>3, Zenon
<1> QED
    BY <1>4

\* The next migration is one of those pending.
LEMMA NextIsPending ==
    ASSUME StartInv, NEW p \in Processes, pending[p] # {}
    PROVE  Start!NextOf(p) \in pending[p] /\ Start!NextOf(p) \in 1 .. Last
<1>1. pending[p] \subseteq 1 .. Last
    BY DEF StartInv, SchemaTypes
<1>2. pending[p] \subseteq Nat
    BY <1>1, MigrationsAssumption
<1>3. \E v \in pending[p] : \A u \in pending[p] : v <= u
    BY <1>2, LeastElement
<1>4. Start!NextOf(p) \in pending[p]
    BY <1>3 DEF Start!NextOf
<1> QED
    BY <1>1, <1>4

\* A process that ends leaves the schema and the other processes as they were.
LEMMA EndKeeps ==
    ASSUME StartInv, NEW p \in Processes, Start!End(p), UNCHANGED <<versions, schema>>
    PROVE  StartInv'
<1> USE MigrationsAssumption DEF StartInv
<1>1. SchemaTypes'
    BY DEF SchemaTypes, Start!End, Start!Goto, Places
<1>2. Applied'
    BY DEF SchemaTypes, Applied, Start!End, Start!Goto
<1> QED
    BY <1>1, <1>2

\* Every step of a process, and every failure, keeps it.
LEMMA NextStart == StartInv /\ [Start!Next]_Start!vars => StartInv'
<1> SUFFICES ASSUME StartInv, [Start!Next]_Start!vars PROVE StartInv'
    OBVIOUS
<1>1. ASSUME NEW p \in Processes, Start!Start(p) \/ Start!Serve(p) PROVE StartInv'
    BY <1>1 DEF StartInv, SchemaTypes, Applied, Start!Start, Start!Serve, Start!Goto, Places
<1>2. ASSUME NEW p \in Processes, Start!Connect(p) PROVE StartInv'
    <2>1. CASE dbUp
        BY <1>2, <2>1 DEF StartInv, SchemaTypes, Applied, Start!Connect, Start!Goto, Places
    <2> QED
        BY <1>2, <2>1, EndKeeps DEF Start!Connect
<1>3. ASSUME NEW p \in Processes, Start!ReadVersions(p) PROVE StartInv'
    <2>1. CASE dbUp
        BY <1>3, <2>1 DEF StartInv, SchemaTypes, Applied, Start!ReadVersions, Start!Goto, Places
    <2> QED
        BY <1>3, <2>1, EndKeeps DEF Start!ReadVersions
<1>4. ASSUME NEW p \in Processes, Start!Apply(p) PROVE StartInv'
    <2>1. CASE Start!End(p)
        BY <1>4, <2>1, EndKeeps DEF Start!Apply
    <2>2. CASE pending[p] = {} /\ Start!Goto(p, "serve") /\ UNCHANGED <<pending, writing>>
        BY <1>4, <2>2 DEF StartInv, SchemaTypes, Applied, Start!Apply, Start!Goto, Places
    <2>3. CASE pending[p] # {} /\ Start!Goto(p, "wait") /\ UNCHANGED <<pending, writing>>
        BY <1>4, <2>3 DEF StartInv, SchemaTypes, Applied, Start!Apply, Start!Goto, Places
    <2>4. CASE /\ pending[p] # {} /\ Start!Goto(p, "record") /\ UNCHANGED pending
               /\ writing' = [writing EXCEPT ![p] = Start!NextOf(p)]
        <3>1. Start!NextOf(p) \in 1 .. Last
            BY <2>4, NextIsPending
        <3> QED
            BY <1>4, <2>4, <3>1
               DEF StartInv, SchemaTypes, Applied, Start!Apply, Start!Goto, Places
    <2> QED
        BY <1>4, <2>1, <2>2, <2>3, <2>4 DEF Start!Apply
<1>5. ASSUME NEW p \in Processes, Start!Awaken(p) PROVE StartInv'
    <2>1. CASE Start!End(p)
        BY <1>5, <2>1, EndKeeps DEF Start!Awaken
    <2>2. CASE /\ Start!Goto(p, "record") /\ UNCHANGED pending
               /\ writing' = [writing EXCEPT ![p] = Start!NextOf(p)]
        <3>1. pending[p] # {}
            BY <1>5 DEF StartInv, Applied, Start!Awaken
        <3>2. Start!NextOf(p) \in 1 .. Last
            BY <3>1, NextIsPending
        <3> QED
            BY <1>5, <2>2, <3>2
               DEF StartInv, SchemaTypes, Applied, Start!Awaken, Start!Goto, Places
    <2> QED
        BY <1>5, <2>1, <2>2 DEF Start!Awaken
<1>6. ASSUME NEW p \in Processes, Start!Record(p) PROVE StartInv'
    <2>1. CASE ~dbUp
        BY <1>6, <2>1, EndKeeps DEF Start!Record
    <2>2. CASE dbUp
        <3>1. writing[p] \in 1 .. Last
            BY <1>6 DEF StartInv, Applied, Start!Record
        <3>2. SchemaTypes'
            <4>1. startPc' \in [Processes -> Places] /\ writing' \in [Processes -> 0 .. Last]
                BY <1>6, <2>2, MigrationsAssumption
                   DEF StartInv, SchemaTypes, Start!Record, Start!Goto, Places
            <4>2. pending' \in [Processes -> SUBSET (1 .. Last)]
                BY <1>6, <2>2 DEF StartInv, SchemaTypes, Start!Record
            <4>3. versions' \subseteq schema' /\ schema' \subseteq 1 .. Last
                BY <1>6, <2>2, <3>1 DEF StartInv, SchemaTypes, Start!Record
            <4> QED
                BY <4>1, <4>2, <4>3 DEF SchemaTypes
        <3>3. Applied'
            BY <1>6, <2>2, <3>1 DEF StartInv, SchemaTypes, Applied, Start!Record, Start!Goto
        <3> QED
            BY <3>2, <3>3 DEF StartInv
    <2> QED
        BY <2>1, <2>2
<1>7. ASSUME NEW p \in Processes, Start!Crash(p) PROVE StartInv'
    BY <1>7, EndKeeps DEF Start!Crash
<1>8. CASE Start!DBStops
    <2>1. SchemaTypes'
        BY <1>8, MigrationsAssumption
           DEF StartInv, SchemaTypes, Start!DBStops, Start!InTransaction, Places
    <2>2. Applied'
        BY <1>8 DEF StartInv, SchemaTypes, Applied, Start!DBStops, Start!InTransaction
    <2> QED
        BY <2>1, <2>2 DEF StartInv
<1>9. CASE Start!DBStarts \/ UNCHANGED Start!vars
    BY <1>9 DEF StartInv, SchemaTypes, Applied, Start!DBStarts, Start!vars
<1> QED
    BY <1>1, <1>2, <1>3, <1>4, <1>5, <1>6, <1>7, <1>8, <1>9
       DEF Start!Next, Start!Step

\* main.go, RunMigrations: no process of any number of replicas serves before the
\* schema is complete, whatever migrations there are, whichever process applied
\* them and whatever crashed in between.
THEOREM ServedOnFullSchema == Start!Spec => []ServesMigrated
<1>1. Start!Init => StartInv
    BY MigrationsAssumption DEF Start!Init, StartInv, SchemaTypes, Applied, Places
<1>2. StartInv => ServesMigrated
    BY DEF StartInv, SchemaTypes, Applied, ServesMigrated, Start!ServesMigrated
<1> QED
    BY <1>1, <1>2, NextStart, PTL DEF Start!Spec

-----------------------------------------------------------------------------
(* Usernames.                                                              *)

\* The name that w's transaction inserted and has not committed.
Uncommitted(w) == inserted[w] # None

NameTypes ==
    /\ stored \in [Clients -> Headers \cup {None}]
    /\ request \in [Workers -> Named!Requests]
    /\ inserted \in [Workers -> Headers \cup {None}]
    /\ namePc \in [Workers -> {"insert", "commit", "answer", "answered"}]
    /\ shown \in [Workers -> Headers \cup {None}]

\* An inserted name is the first one of its user and the only one under way.
FirstInsert ==
    /\ \A w \in Workers : Uncommitted(w) => stored[request[w].user] = None
    /\ \A v, w \in Workers :
          Uncommitted(v) /\ Uncommitted(w) /\ request[v].user = request[w].user => v = w

\* A transaction that is not open has inserted nothing.
ClosedInsertsNothing == \A w \in Workers : Uncommitted(w) => namePc[w] = "commit"

NameInv == NameTypes /\ FirstInsert /\ ClosedInsertsNothing /\ DetailsAgree

\* Every step keeps it, and a committed name is not replaced.
LEMMA NextNames ==
    ASSUME NameInv, [Named!Next]_Named!vars
    PROVE  /\ NameInv'
           /\ \A u \in Clients : stored[u] # None => stored'[u] = stored[u]
<1> DEFINE Goal == /\ NameInv'
                   /\ \A u \in Clients : stored[u] # None => stored'[u] = stored[u]
<1> USE HeadersAssumption
    DEF NameInv, NameTypes, FirstInsert, ClosedInsertsNothing, Uncommitted, DetailsAgree,
        Named!DetailsAgree, Named!Requests, Named!Goto
<1>1. ASSUME NEW w \in Workers, Named!CreateUserIfNotExists(w) PROVE Goal
    <2>1. CASE Named!Inserts(w)
        <3>1. /\ inserted' = [inserted EXCEPT ![w] = request[w].name]
              /\ UNCHANGED <<stored, request, shown>>
              /\ namePc' = [namePc EXCEPT ![w] = "commit"]
              /\ stored[request[w].user] = None
            BY <1>1, <2>1 DEF Named!CreateUserIfNotExists, Named!Inserts
        <3>2. \A v \in Workers \ {w} :
                  ~(inserted[v] # None /\ request[v].user = request[w].user)
            BY <1>1 DEF Named!CreateUserIfNotExists, Named!Blocked
        <3>3. request[w].name \in Headers
            OBVIOUS
        <3>4. FirstInsert'
            BY <3>1, <3>2
        <3>5. NameTypes'
            BY <3>1, <3>3
        <3>6. ClosedInsertsNothing' /\ DetailsAgree'
            BY <3>1
        <3> QED
            BY <3>1, <3>4, <3>5, <3>6
    <2>2. CASE ~Named!Inserts(w)
        BY <1>1, <2>2 DEF Named!CreateUserIfNotExists
    <2> QED
        BY <2>1, <2>2
<1>2. ASSUME NEW w \in Workers, Named!Rollback(w) PROVE Goal
    BY <1>2 DEF Named!Rollback
<1>3. ASSUME NEW w \in Workers, Named!Commit(w) PROVE Goal
    <2>1. CASE inserted[w] = None
        BY <1>3, <2>1 DEF Named!Commit
    <2>2. CASE inserted[w] # None
        BY <1>3, <2>2 DEF Named!Commit
    <2> QED
        BY <2>1, <2>2
<1>4. ASSUME NEW w \in Workers, Named!Answer(w) PROVE Goal
    BY <1>4 DEF Named!Answer, Named!AnswerName
<1>5. ASSUME NEW w \in Workers, Named!Again(w) PROVE Goal
    BY <1>5 DEF Named!Again
<1>6. CASE UNCHANGED Named!vars
    BY <1>6 DEF Named!vars
<1> QED
    BY <1>1, <1>2, <1>3, <1>4, <1>5, <1>6 DEF Named!Next

\* Nothing is stored, inserted or shown at the start.
LEMMA InitNames == Named!Init => NameInv
BY DEF Named!Init, NameInv, NameTypes, FirstInsert, ClosedInsertsNothing, Uncommitted,
       DetailsAgree, Named!DetailsAgree

\* postgres.go, CreateUserIfNotExistsTx: the details that any number of requests
\* were answered with show the one name that the table holds of a user, now and
\* whenever they were read.
THEOREM DetailsShowOneName == Named!Spec => []DetailsAgree
<1>1. NameInv /\ [Named!Next]_Named!vars => NameInv'
    BY NextNames
<1>2. NameInv => DetailsAgree
    BY DEF NameInv
<1> QED
    BY <1>1, <1>2, InitNames, PTL DEF Named!Spec

\* ... because no transaction replaces a name once committed.
THEOREM FirstNameStays == Named!Spec => NameStays
<1>1. NameInv /\ [Named!Next]_Named!vars => NameInv'
    BY NextNames
<1>2. NameInv /\ [Named!Next]_Named!vars =>
          [\A u \in Clients : stored[u] # None => stored'[u] = stored[u]]_Named!vars
    BY NextNames
<1> QED
    BY <1>1, <1>2, InitNames, PTL DEF Named!Spec, NameStays, Named!NameStays

=============================================================================
